------------------------------- MODULE DECCSR -------------------------------
(***************************************************************************)
(* The control and status register of the DECstation (deccsr.cc): it       *)
(* gathers the interrupts of the devices behind it, masks them and drives  *)
(* one interrupt line of the processor.                                    *)
(***************************************************************************)
EXTENDS Integers

CONSTANT CsrInt      \* devices that can interrupt through the register

VARIABLES ioint,     \* devices whose interrupt is signalled
          iointen,   \* devices enabled in the IOINTEN field of rwbits
          csr_irq    \* the line to the processor is asserted

csrVars == <<ioint, iointen, csr_irq>>

(* The constructor leaves both registers as it finds them. *)
InitCsr ==
    /\ ioint \in SUBSET CsrInt
    /\ iointen \in SUBSET CsrInt
    /\ csr_irq = FALSE

InterruptCheck == csr_irq' = (ioint' \cap iointen' # {})

AssertCsr(d) == ioint' = ioint \cup {d} /\ UNCHANGED iointen /\ InterruptCheck

DeassertCsr(d) == ioint' = ioint \ {d} /\ UNCHANGED iointen /\ InterruptCheck

(* update_control_reg *)
StoreCsr(enable) == iointen' = enable /\ UNCHANGED ioint /\ InterruptCheck

CsrTypeOK ==
    /\ ioint \subseteq CsrInt
    /\ iointen \subseteq CsrInt
    /\ csr_irq \in BOOLEAN
=============================================================================
