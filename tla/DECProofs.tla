------------------------------ MODULE DECProofs -----------------------------
(***************************************************************************)
(* The safety properties of the DECstation's devices, for any lines up to  *)
(* the four of the serial device and any number of triggers, and that the  *)
(* ticks of the real-time clock go on.                                     *)
(***************************************************************************)
EXTENDS DECstation, TerminalProofs

RegistersOK ==
    /\ csr \subseteq {"RIE", "TIE"}
    /\ tcr \subseteq Line
    /\ keyboard_interrupt_enable \in BOOLEAN
    /\ display_interrupt_enable \in BOOLEAN
    /\ attn \in BOOLEAN

(* Once an enable bit of CSR is set, the copies of both are those of CSR.   *)
CopiesWritten == csr # {} => EnablesAgree

SerialInv ==
    /\ TerminalInv
    /\ CsrTypeOK
    /\ RegistersOK
    /\ CopiesWritten
    /\ NoAssertFails

RtcInv == RtcTypeOK /\ (rtc_irq => interrupt_enable)

ClockDeviceInv ==
    /\ ClockDeviceTypeOK
    /\ clock_irq => clock_state = "READY"
    /\ clock_state = "READY" /\ interrupt_enabled => clock_irq

-----------------------------------------------------------------------------
LEMMA RtcKeeps ==
    ASSUME MaxTriggers \in Nat, RtcInv, RtcNext
    PROVE  RtcInv'
<1> USE DEF RtcInv, RtcTypeOK
<1>1. CASE \E on \in BOOLEAN : StoreRateSelect(on)
  BY <1>1 DEF StoreRateSelect
<1>2. CASE \E enable \in BOOLEAN : StorePeriodicInterrupt(enable)
  <2>1. PICK enable \in BOOLEAN : StorePeriodicInterrupt(enable)
    BY <1>2
  <2>2. triggers' \in Nat /\ triggers' <= MaxTriggers /\ UNCHANGED rate
    BY <2>1 DEF StorePeriodicInterrupt, ReadyClock, UnreadyClock
  <2>3. interrupt_enable' = enable
    BY <2>1 DEF StorePeriodicInterrupt
  <2>4. rtc_irq' \in BOOLEAN /\ (rtc_irq' => enable)
    BY <2>1 DEF StorePeriodicInterrupt, ReadyClock, UnreadyClock
  <2>5. QED
    BY <2>2, <2>3, <2>4
<1>3. CASE FetchRegC
  BY <1>3 DEF FetchRegC, UnreadyClock
<1>4. CASE RunClockTrigger
  <2>1. triggers' \in Nat /\ triggers' <= triggers
    BY <1>4 DEF RunClockTrigger, ReadyClock
  <2>2. rtc_irq' \in BOOLEAN /\ (rtc_irq' => interrupt_enable)
    BY <1>4 DEF RunClockTrigger, ReadyClock
  <2>3. UNCHANGED <<rate, interrupt_enable>>
    BY <1>4 DEF RunClockTrigger
  <2>4. QED
    BY <2>1, <2>2, <2>3
<1>5. QED
  BY <1>1, <1>2, <1>3, <1>4 DEF RtcNext

LEMMA ClockDeviceKeeps ==
    ASSUME ClockDeviceInv, ClockDeviceNext
    PROVE  ClockDeviceInv'
<1> USE DEF ClockDeviceInv, ClockDeviceTypeOK
<1>1. CASE RunTrigger
  BY <1>1 DEF RunTrigger
<1>2. CASE FetchControl
  BY <1>2 DEF FetchControl
<1>3. CASE \E enable \in BOOLEAN : StoreControl(enable)
  BY <1>3 DEF StoreControl
<1>4. QED
  BY <1>1, <1>2, <1>3 DEF ClockDeviceNext

-----------------------------------------------------------------------------
LEMMA LinesWithin == Line \subseteq 0..3 /\ SystemInterface \in CsrInt
BY DECSerialAssumption

LEMMA InitSerialInv == ASSUME SeparateTerminals, InitSerial PROVE SerialInv
<1>1. PICK on \in SUBSET {l \in Line : FdOf[l] # NoFd} : InitTerminals(on, {})
  BY DEF InitSerial
<1>2. TerminalInv
  BY <1>1, LinesWithin, TerminalInit
<1>3. NoAssertFails
  BY <1>1 DEF InitTerminals, NoAssertFails
<1>4. CsrTypeOK /\ RegistersOK /\ CopiesWritten
  BY DEF InitSerial, InitCsr, CsrTypeOK, RegistersOK, CopiesWritten
<1>5. QED
  BY <1>2, <1>3, <1>4 DEF SerialInv

(* The one interrupt asserted or deasserted.                                *)
LEMMA CsrKeeps ==
    ASSUME CsrTypeOK, \/ AssertCsr(SystemInterface) \/ DeassertCsr(SystemInterface)
                      \/ UNCHANGED csrVars
    PROVE  /\ CsrTypeOK'
           /\ iointen' = iointen
           /\ AssertCsr(SystemInterface) => SerialRequests'
           /\ DeassertCsr(SystemInterface) => SystemInterface \notin ioint'
BY LinesWithin DEF CsrTypeOK, AssertCsr, DeassertCsr, InterruptCheck, csrVars, SerialRequests

(* The check at the end of store_word settles the request: it stands if and *)
(* only if an enabled source is ready.                                      *)
LEMMA RecheckSettles ==
    ASSUME CsrTypeOK, Recheck, CopiesWritten'
    PROVE  /\ CsrTypeOK'
           /\ SerialSourceReady' => SerialRequests'
           /\ SystemInterface \in ioint' => SerialSourceReady'
<1>1. csr' # {} => (AnySourceIsReady' <=> SerialSourceReady')
  BY DEF CopiesWritten, EnablesAgree, AnySourceIsReady, SerialSourceReady,
     DisplayInterruptReady, KeyboardInterruptReady
<1>2. SerialSourceReady' => csr' # {}
  BY DEF SerialSourceReady
<1>3. QED
  BY <1>1, <1>2, CsrKeeps DEF Recheck

-----------------------------------------------------------------------------
(* What SerialRequestKept and SerialRequestHasCause say of one step.        *)
RequestKept ==
    SerialSourceReady' /\ ~SerialRequests' =>
        FetchRbuf \/ (SerialSourceReady /\ ~SerialRequests)

RequestHasCause ==
    EnablesAgree' /\ SystemInterface \in ioint' /\ ~SerialSourceReady' =>
        LeaveInspector \/ (SystemInterface \in ioint /\ ~SerialSourceReady)

GoodStep == SerialInv' /\ RequestKept /\ RequestHasCause

LEMMA SerialStutter ==
    ASSUME SerialInv, UNCHANGED <<lines, csrVars, registers>>, TerminalInv', NoAssertFails',
           attn' \in BOOLEAN
    PROVE  GoodStep
BY DEF SerialInv, GoodStep, RequestKept, RequestHasCause, csrVars, registers, CsrTypeOK,
   RegistersOK, CopiesWritten, EnablesAgree, SerialSourceReady, SerialRequests,
   ReceiverDone, TransmitterReady, Connected

LEMMA StoresGood ==
    ASSUME SeparateTerminals, SerialInv, Recheck, TerminalInv', NoAssertFails',
           \/ StoreCsrClear \/ StoreLpr \/ StoreTdr
           \/ \E enable \in SUBSET {"RIE", "TIE"} : StoreCsrEnable(enable)
           \/ \E enable \in SUBSET Line : StoreTcr(enable)
    PROVE  GoodStep
<1> USE DEF SerialInv
<1>1. RegistersOK' /\ CopiesWritten'
  <2>1. CASE StoreCsrClear
    BY <2>1 DEF StoreCsrClear, RegistersOK, CopiesWritten
  <2>2. CASE \E enable \in SUBSET {"RIE", "TIE"} : StoreCsrEnable(enable)
    BY <2>2 DEF StoreCsrEnable, RegistersOK, CopiesWritten, EnablesAgree
  <2>3. CASE \E enable \in SUBSET Line : StoreTcr(enable)
    BY <2>3 DEF StoreTcr, RegistersOK, CopiesWritten, EnablesAgree
  <2>4. CASE StoreLpr \/ StoreTdr
    BY <2>4 DEF StoreLpr, StoreTdr, registers, RegistersOK, CopiesWritten, EnablesAgree
  <2>5. QED
    BY <2>1, <2>2, <2>3, <2>4
<1>2. QED
  BY <1>1, RecheckSettles DEF GoodStep, RequestKept, RequestHasCause

(* A write of the registers leaves the lines alone and checks; so does one   *)
(* of TDR, unless the host does not take the character.                      *)
LEMMA RegistersGood ==
    ASSUME SeparateTerminals, SerialInv,
           \/ StoreCsrClear \/ StoreLpr
           \/ \E enable \in SUBSET {"RIE", "TIE"} : StoreCsrEnable(enable)
           \/ \E enable \in SUBSET Line : StoreTcr(enable)
    PROVE  GoodStep
<1>1. Recheck /\ UNCHANGED terminalVars
  BY DEF StoreCsrClear, StoreLpr, StoreCsrEnable, StoreTcr
<1>2. TerminalInv' /\ NoAssertFails'
  BY <1>1, TerminalStutter DEF SerialInv, NoAssertFails, terminalVars, programVars
<1>3. QED
  BY <1>1, <1>2, StoresGood

LEMMA StoreTdrGood ==
    ASSUME SeparateTerminals, SerialInv, ~aborted, StoreTdr
    PROVE  GoodStep
<1>1. TerminalInv' /\ NoAssertFails' /\ (aborted' => UNCHANGED lines)
  <2>1. CASE TransmitLine \in Line /\ Connected(TransmitLine)
    BY <2>1, UnreadyDisplayKeeps DEF StoreTdr, SerialInv
  <2>2. CASE ~(TransmitLine \in Line /\ Connected(TransmitLine))
    BY <2>2, TerminalStutter DEF StoreTdr, SerialInv, NoAssertFails, terminalVars, programVars
  <2>3. QED
    BY <2>1, <2>2
<1>2. UNCHANGED <<registers, attn>>
  BY DEF StoreTdr
<1>3. CASE aborted'
  BY <1>1, <1>2, <1>3, SerialStutter DEF StoreTdr, SerialInv, RegistersOK
<1>4. CASE ~aborted'
  BY <1>1, <1>4, StoresGood DEF StoreTdr
<1>5. QED
  BY <1>3, <1>4

LEMMA FirstLine ==
    ASSUME NEW S \in SUBSET Line, S # {}
    PROVE  \E l \in S : \A k \in S : l <= k
<1>1. S \subseteq 0..3
  BY LinesWithin
<1>2. CASE 0 \in S
  BY <1>1, <1>2
<1>3. CASE 0 \notin S /\ 1 \in S
  BY <1>1, <1>3
<1>4. CASE 0 \notin S /\ 1 \notin S /\ 2 \in S
  BY <1>1, <1>4
<1>5. CASE 0 \notin S /\ 1 \notin S /\ 2 \notin S
  <2>1. \A k \in S : k = 3
    BY <1>1, <1>5
  <2>2. QED
    BY <2>1
<1>6. QED
  BY <1>2, <1>3, <1>4, <1>5

LEMMA FetchRbufGood == ASSUME SeparateTerminals, SerialInv, FetchRbuf PROVE GoodStep
<1> DEFINE done == {l \in Line : ReceiverDone(l)}
           first == CHOOSE l \in done : \A k \in done : l <= k
<1>1. UNCHANGED <<registers, attn>>
  BY DEF FetchRbuf
<1>2. CASE done = {}
  <2>1. UNCHANGED <<terminalVars, csrVars>>
    BY <1>2 DEF FetchRbuf
  <2>2. TerminalInv'
    BY <2>1, TerminalStutter DEF SerialInv
  <2>3. QED
    BY <1>1, <2>1, <2>2, SerialStutter DEF terminalVars, programVars, SerialInv, RegistersOK, NoAssertFails
<1>3. CASE done # {}
  <2>1. first \in done
    BY <1>3, FirstLine
  <2>2. first \in Line /\ Connected(first) /\ lines[first].kbd = "READY"
    BY <2>1 DEF ReceiverDone
  <2>3. UnreadyKeyboardAsserts(first)
    BY <2>2, UnreadyKeyboardKeeps DEF SerialInv
  <2>4. UnreadyKeyboard(first) /\ DeassertCsr(SystemInterface)
    BY <1>3, <2>3 DEF FetchRbuf
  <2> HIDE DEF first, done
  <2>5. TerminalInv' /\ UNCHANGED <<aborted, write_failed>>
    BY <2>2, <2>4, UnreadyKeyboardKeeps DEF SerialInv, UnreadyKeyboard, programVars
  <2>6. CsrTypeOK' /\ SystemInterface \notin ioint'
    BY <2>4, CsrKeeps DEF SerialInv
  <2>7. QED
    BY <1>1, <2>5, <2>6 DEF GoodStep, RequestKept, RequestHasCause, SerialInv, registers,
       RegistersOK, CopiesWritten, EnablesAgree, NoAssertFails
<1>4. QED
  BY <1>2, <1>3

LEMMA StatusRegisterGood == ASSUME SerialInv, StoreStatusRegister PROVE GoodStep
<1>1. UNCHANGED <<terminalVars, registers, attn>>
  BY DEF StoreStatusRegister
<1>2. TerminalInv' /\ NoAssertFails' /\ UNCHANGED lines
  BY <1>1, TerminalStutter DEF SerialInv, terminalVars, programVars, NoAssertFails
<1>3. UNCHANGED ioint /\ iointen' \in SUBSET CsrInt /\ InterruptCheck
  BY DEF StoreStatusRegister, StoreCsr
<1>4. CsrTypeOK'
  BY <1>3 DEF SerialInv, CsrTypeOK, InterruptCheck
<1>5. SerialSourceReady' <=> SerialSourceReady
  BY <1>1, <1>2 DEF registers, SerialSourceReady, ReceiverDone, TransmitterReady, Connected
<1>6. SystemInterface \in ioint => SerialRequests'
  BY <1>3 DEF SerialRequests, InterruptCheck
<1>7. QED
  BY <1>1, <1>2, <1>3, <1>4, <1>5, <1>6 DEF GoodStep, RequestKept, RequestHasCause, SerialInv,
     registers, RegistersOK, CopiesWritten, EnablesAgree, SerialRequests

(* Tasks make devices ready, and assert the interrupt of those enabled.     *)
LEMMA ReadyGood ==
    ASSUME SerialInv, NEW ls \in SUBSET Line, TerminalInv', NoAssertFails', UNCHANGED registers,
           attn' \in BOOLEAN, AssertFor(ls),
           \A l \in Line : ReceiverDone(l) => ReceiverDone(l)',
           \A l \in Line : TransmitterReady(l) => TransmitterReady(l)',
           \A l \in ls : KeyboardInterruptReady(l)' \/ DisplayInterruptReady(l)',
           \A l \in Line : KeyboardInterruptReady(l)' => KeyboardInterruptReady(l) \/ l \in ls,
           \A l \in Line : DisplayInterruptReady(l)' => DisplayInterruptReady(l) \/ l \in ls
    PROVE  GoodStep
<1>1. CsrTypeOK' /\ iointen' = iointen
  BY CsrKeeps DEF SerialInv, AssertFor, csrVars
<1>2. RegistersOK' /\ CopiesWritten'
  BY DEF SerialInv, registers, RegistersOK, CopiesWritten, EnablesAgree
<1>3. ls # {} => SerialRequests'
  BY CsrKeeps DEF SerialInv, AssertFor
<1>4. ls = {} => UNCHANGED csrVars
  BY DEF AssertFor
<1>5. SerialSourceReady' => SerialSourceReady \/ ls # {}
  BY DEF SerialInv, CopiesWritten, EnablesAgree, registers, SerialSourceReady,
     KeyboardInterruptReady, DisplayInterruptReady
<1>6. SerialSourceReady => SerialSourceReady'
  BY DEF registers, SerialSourceReady
<1>7. EnablesAgree' /\ ls # {} => SerialSourceReady'
  BY DEF EnablesAgree, SerialSourceReady, KeyboardInterruptReady, DisplayInterruptReady
<1>8. QED
  BY <1>1, <1>2, <1>3, <1>4, <1>5, <1>6, <1>7 DEF GoodStep, RequestKept, RequestHasCause,
     SerialInv, csrVars, SerialRequests

LEMMA DisplayDelayGood ==
    ASSUME SeparateTerminals, SerialInv, NEW l \in Line, RunDisplayDelay(l)
    PROVE  GoodStep
<1> DEFINE ls == {k \in {l} : DisplayInterruptReady(k)'}
<1>1. tasks[Delay(l)] > 0 /\ UNCHANGED <<registers, attn>> /\ TerminalInv
  BY DEF RunDisplayDelay, SerialInv
<1>2. ReadyDisplayAsserts(l) /\ (ReadyDisplay(l) => TerminalInv')
  BY <1>1, ReadyDisplayKeeps
<1>3. ReadyDisplay(l) /\ AssertFor(ls) /\ TerminalInv'
  BY <1>2 DEF RunDisplayDelay
<1>4. \A m \in Line : /\ lines'[m].fd = lines[m].fd /\ lines'[m].kbd = lines[m].kbd
                      /\ m # l => lines'[m].disp = lines[m].disp
  BY <1>1, <1>3 DEF ReadyDisplay, TerminalInv, TerminalTypeOK
<1>5. lines'[l].disp = "READY" /\ UNCHANGED <<aborted, write_failed>>
  BY <1>1, <1>3 DEF ReadyDisplay, programVars, TerminalInv, TerminalTypeOK
<1>6. \A m \in Line : /\ ReceiverDone(m)' <=> ReceiverDone(m)
                      /\ TransmitterReady(m) => TransmitterReady(m)'
                      /\ TransmitterReady(m)' => TransmitterReady(m) \/ m = l
  BY <1>1, <1>4, <1>5 DEF ReceiverDone, TransmitterReady, Connected, registers
<1>7. /\ ls \in SUBSET Line
      /\ \A m \in ls : DisplayInterruptReady(m)'
      /\ DisplayInterruptReady(l)' => l \in ls
  OBVIOUS
<1>8. \A m \in Line : /\ KeyboardInterruptReady(m)' => KeyboardInterruptReady(m)
                      /\ DisplayInterruptReady(m)' => DisplayInterruptReady(m) \/ m \in ls
  BY <1>1, <1>6, <1>7 DEF KeyboardInterruptReady, DisplayInterruptReady, registers
<1> HIDE DEF ls
<1>9. UNCHANGED registers /\ attn' \in BOOLEAN /\ NoAssertFails'
  BY <1>1, <1>5 DEF SerialInv, RegistersOK, NoAssertFails
<1>10. QED
  BY <1>3, <1>6, <1>7, <1>8, <1>9, ReadyGood

(* ready_keyboard on the lines of rs, with the interrupts it asserts.       *)
LEMMA KeyboardsGood ==
    ASSUME SerialInv, NEW rs \in SUBSET Line, ReadyKeyboards(rs), ReadyAndAssert(rs),
           TerminalInv', UNCHANGED registers
    PROVE  GoodStep
<1> DEFINE ls == {m \in rs : KeyboardInterruptReady(m)'}
<1>1. \A m \in rs : /\ lines'[m].fd = lines[m].fd /\ lines'[m].disp = lines[m].disp
                    /\ lines'[m].kbd = "READY"
  <2> SUFFICES ASSUME NEW m \in rs
               PROVE  lines'[m].fd = lines[m].fd /\ lines'[m].disp = lines[m].disp
                        /\ lines'[m].kbd = "READY"
    OBVIOUS
  <2>1. lines[m] \in LineState
    BY DEF SerialInv, TerminalInv, TerminalTypeOK, LineState
  <2>2. lines'[m] = [lines[m] EXCEPT !.kbd = "READY", !.repoll = TRUE]
    BY DEF ReadyKeyboards
  <2>3. QED
    BY <2>1, <2>2 DEF LineState
<1>2. \A m \in Line \ rs : lines'[m] = lines[m]
  BY DEF ReadyKeyboards
<1>3. \A m \in Line : /\ TransmitterReady(m)' <=> TransmitterReady(m)
                      /\ ReceiverDone(m) => ReceiverDone(m)'
                      /\ ReceiverDone(m)' => ReceiverDone(m) \/ m \in rs
  BY <1>1, <1>2 DEF ReceiverDone, TransmitterReady, Connected, registers
<1>4. AssertFor(ls) /\ attn' \in BOOLEAN /\ NoAssertFails'
  BY DEF ReadyAndAssert, ReadyKeyboards, SerialInv, programVars, NoAssertFails
<1>5. /\ ls \in SUBSET Line
      /\ \A m \in ls : KeyboardInterruptReady(m)'
      /\ \A m \in rs : KeyboardInterruptReady(m)' => m \in ls
  OBVIOUS
<1>6. \A m \in Line : /\ KeyboardInterruptReady(m)' => KeyboardInterruptReady(m) \/ m \in ls
                      /\ DisplayInterruptReady(m)' => DisplayInterruptReady(m)
  BY <1>3, <1>5 DEF KeyboardInterruptReady, DisplayInterruptReady, registers
<1> HIDE DEF ls
<1>7. QED
  BY <1>3, <1>4, <1>5, <1>6, ReadyGood

LEMMA PollsGood ==
    ASSUME SeparateTerminals, SerialInv,
           RunKeyboardPoll \/ \E l \in Line : RunKeyboardRepoll(l)
    PROVE  GoodStep
<1>1. TerminalInv
  BY DEF SerialInv
<1>2. CASE RunKeyboardPoll
  <2>1. PICK fds \in Selected :
           IF PollAsserts(LinesOn(fds))
             THEN PollKeyboards(LinesOn(fds)) /\ ReadyAndAssert(LinesOn(fds))
             ELSE Abort /\ UNCHANGED <<csrVars, attn>>
    BY <1>2 DEF RunKeyboardPoll
  <2>2. PollKeyboards(LinesOn(fds)) /\ ReadyAndAssert(LinesOn(fds)) /\ TerminalInv'
    BY <1>1, <2>1, PollKeeps
  <2>3. ReadyKeyboards(LinesOn(fds)) /\ LinesOn(fds) \in SUBSET Line
    BY <2>2 DEF PollKeyboards, LinesOn
  <2>4. UNCHANGED registers
    BY <1>2 DEF RunKeyboardPoll
  <2>5. QED
    BY <2>2, <2>3, <2>4, KeyboardsGood
<1>3. CASE \E l \in Line : RunKeyboardRepoll(l)
  <2>1. PICK l \in Line : RunKeyboardRepoll(l)
    BY <1>3
  <2>2. tasks[Repoll(l)] > 0
    BY <2>1 DEF RunKeyboardRepoll
  <2>3. RepollAsserts(l) /\ (RepollKeyboard(l) => TerminalInv')
    BY <1>1, <2>2, RepollKeeps
  <2>4. /\ ReadyKeyboards({l}) /\ ReadyAndAssert({l}) /\ TerminalInv'
        /\ UNCHANGED registers
    BY <2>1, <2>3 DEF RunKeyboardRepoll, RepollKeyboard
  <2>5. QED
    BY <2>4, KeyboardsGood
<1>4. QED
  BY <1>2, <1>3

LEMMA EnterGood == ASSUME SerialInv, EnterInspector PROVE GoodStep
<1>1. PICK flushed \in SUBSET ConnectedFds : Suspend(flushed)
  BY DEF EnterInspector
<1>2. TerminalInv' /\ UNCHANGED <<lines, aborted, write_failed>>
  BY <1>1, SuspendKeeps DEF SerialInv
<1>3. UNCHANGED <<csrVars, registers, attn>>
  BY DEF EnterInspector
<1>4. QED
  BY <1>2, <1>3, SerialStutter DEF SerialInv, RegistersOK, NoAssertFails

LEMMA LeaveGood == ASSUME SeparateTerminals, SerialInv, LeaveInspector PROVE GoodStep
<1>1. PICK gone \in SUBSET {l \in Line : Connected(l)}, flushed \in SUBSET ConnectedFds :
         Reinitialize(gone, flushed)
  BY DEF LeaveInspector
<1>2. /\ TerminalInv' /\ UNCHANGED <<aborted, write_failed>>
      /\ \A l \in Line \ gone : lines'[l] = lines[l]
      /\ \A l \in gone : ~Connected(l)'
  BY <1>1, LinesWithin, ReinitializeKeeps DEF SerialInv
<1>3. attn' = FALSE /\ UNCHANGED csrVars /\ UNCHANGED registers
  BY DEF LeaveInspector
<1>4. \A l \in Line : /\ ReceiverDone(l)' => ReceiverDone(l)
                      /\ TransmitterReady(l)' => TransmitterReady(l)
  BY <1>2, <1>3 DEF ReceiverDone, TransmitterReady, Connected, registers
<1>5. SerialSourceReady' => SerialSourceReady
  BY <1>3, <1>4 DEF SerialSourceReady, registers
<1>6. SerialInv'
  BY <1>2, <1>3 DEF SerialInv, csrVars, registers, CsrTypeOK, RegistersOK, CopiesWritten,
     EnablesAgree, NoAssertFails
<1>7. QED
  BY <1>3, <1>5, <1>6 DEF GoodStep, RequestKept, RequestHasCause, SerialRequests, csrVars

LEMMA SerialNextGood ==
    ASSUME SeparateTerminals, SerialInv, ~aborted, SerialNext PROVE GoodStep
<1>1. CASE User
  <2>1. PICK f \in Fd, c \in Key \cup {AttnKey} : Type(f, c)
    BY <1>1 DEF User
  <2>2. TerminalInv' /\ UNCHANGED <<lines, programVars>>
    BY <2>1, TypeKeeps DEF SerialInv
  <2>3. QED
    BY <1>1, <2>2, SerialStutter DEF User, SerialInv, RegistersOK, NoAssertFails, programVars
<1>2. QED
  BY <1>1, FetchRbufGood, RegistersGood, StoreTdrGood, StatusRegisterGood, DisplayDelayGood,
     PollsGood, EnterGood, LeaveGood DEF SerialNext

-----------------------------------------------------------------------------
IInv == SerialInv /\ RtcInv /\ ClockDeviceInv

LEMMA InitIInv == ASSUME SeparateTerminals, MaxTriggers \in Nat, Init PROVE IInv
<1>1. SerialInv
  BY InitSerialInv DEF Init
<1>2. RtcInv
  <2>1. triggers \in 0..MaxTriggers
    BY DEF Init, InitRtc
  <2>2. rate = FALSE /\ interrupt_enable = FALSE /\ rtc_irq = FALSE
    BY DEF Init, InitRtc
  <2>3. QED
    BY <2>1, <2>2, Zenon DEF RtcInv, RtcTypeOK
<1>3. ClockDeviceInv
  BY DEF Init, InitClockDevice, ClockDeviceInv, ClockDeviceTypeOK
<1>4. QED
  BY <1>1, <1>2, <1>3 DEF IInv

LEMMA NextGood ==
    ASSUME SeparateTerminals, MaxTriggers \in Nat, IInv, [Next]_vars
    PROVE  IInv' /\ GoodStep
<1>1. UNCHANGED rtcVars => RtcInv'
  BY DEF IInv, rtcVars, RtcInv, RtcTypeOK
<1>2. UNCHANGED clockdevVars => ClockDeviceInv'
  BY DEF IInv, clockdevVars, ClockDeviceInv, ClockDeviceTypeOK
<1>3. UNCHANGED serialVars => GoodStep
  <2> SUFFICES ASSUME UNCHANGED serialVars
               PROVE  GoodStep
    OBVIOUS
  <2>1. /\ TerminalInv' /\ NoAssertFails' /\ attn' \in BOOLEAN
        /\ UNCHANGED <<lines, csrVars, registers>>
    BY TerminalStutter DEF IInv, SerialInv, serialVars, terminalVars, programVars, RegistersOK,
       NoAssertFails
  <2>2. QED
    BY <2>1, SerialStutter DEF IInv
<1>4. GoodStep => SerialInv'
  BY DEF GoodStep
<1>5. CASE ~aborted /\ SerialNext /\ UNCHANGED <<rtcVars, clockdevVars>>
  BY <1>1, <1>2, <1>4, <1>5, SerialNextGood DEF IInv
<1>6. CASE RtcNext /\ UNCHANGED <<serialVars, clockdevVars>>
  BY <1>2, <1>3, <1>4, <1>6, RtcKeeps DEF IInv
<1>7. CASE ClockDeviceNext /\ UNCHANGED <<serialVars, rtcVars>>
  BY <1>1, <1>3, <1>4, <1>7, ClockDeviceKeeps DEF IInv
<1>8. CASE UNCHANGED vars
  BY <1>1, <1>2, <1>3, <1>4, <1>8 DEF IInv, vars
<1>9. QED
  BY <1>5, <1>6, <1>7, <1>8 DEF Next

(* Every reachable state of the DECstation's devices satisfies the          *)
(* invariant that ties lines, registers and their copies together.          *)
THEOREM IInvariant ==
    ASSUME SeparateTerminals, MaxTriggers \in Nat PROVE Spec => []IInv
<1>1. Init => IInv
  BY InitIInv
<1>2. IInv /\ [Next]_vars => IInv'
  BY NextGood
<1>3. QED
  BY <1>1, <1>2, PTL DEF Spec

(* Types, and no assertion of terminalcontroller.cc fails for the serial    *)
(* device but the one on the result of write: unlike the console's, its     *)
(* registers check before they read.                                        *)
THEOREM TypeCorrect ==
    ASSUME SeparateTerminals, MaxTriggers \in Nat PROVE Spec => []TypeOK
<1>1. IInv => TypeOK
  BY DEF IInv, SerialInv, RtcInv, ClockDeviceInv, TypeOK, SerialTypeOK, TerminalInv, RegistersOK
<1>2. QED
  BY <1>1, IInvariant, PTL

(* A disabled real-time clock requests nothing (decrtc.cc); the clock device *)
(* requests while it is ready and enabled, and only while it is ready        *)
(* (clockdev.cc).                                                            *)
THEOREM TimersRequestRight ==
    ASSUME SeparateTerminals, MaxTriggers \in Nat PROVE Spec => []TimersRequest
<1>1. IInv => TimersRequest
  BY DEF IInv, RtcInv, ClockDeviceInv, TimersRequest
<1>2. QED
  BY <1>1, IInvariant, PTL

(* No register access and no task but the read of RBUF loses the request of *)
(* a source of the serial device that is ready and enabled.                 *)
THEOREM RequestsKept ==
    ASSUME SeparateTerminals, MaxTriggers \in Nat PROVE Spec => SerialRequestKept
<1>1. IInv /\ [Next]_vars => [RequestKept]_vars
  BY NextGood DEF GoodStep
<1>2. QED
  BY <1>1, IInvariant, PTL DEF Spec, SerialRequestKept, RequestKept

(* No step but the removal of a line leaves a request without a source.     *)
THEOREM RequestsHaveCause ==
    ASSUME SeparateTerminals, MaxTriggers \in Nat PROVE Spec => SerialRequestHasCause
<1>1. IInv /\ [Next]_vars => [RequestHasCause]_vars
  BY NextGood DEF GoodStep
<1>2. QED
  BY <1>1, IInvariant, PTL DEF Spec, SerialRequestHasCause, RequestHasCause

-----------------------------------------------------------------------------
(* Liveness of the real-time clock; that its trigger can run is a hypothesis *)
(* (QueuedTriggerRuns), because ENABLED is not expanded here.                *)

LEMMA TriggersKept ==
    ASSUME MaxTriggers \in Nat, IInv, [Next]_vars, triggers > 0, interrupt_enable, rate,
           interrupt_enable', rate'
    PROVE  triggers' > 0
<1> USE DEF IInv, RtcInv, RtcTypeOK
<1>1. CASE UNCHANGED rtcVars
  BY <1>1 DEF rtcVars
<1>2. CASE RunClockTrigger
  BY <1>2 DEF RunClockTrigger, ReadyClock
<1>3. CASE \E enable \in BOOLEAN : StorePeriodicInterrupt(enable)
  BY <1>3 DEF StorePeriodicInterrupt
<1>4. CASE FetchRegC \/ \E on \in BOOLEAN : StoreRateSelect(on)
  BY <1>4 DEF FetchRegC, UnreadyClock, StoreRateSelect
<1>5. QED
  BY <1>1, <1>2, <1>3, <1>4 DEF Next, RtcNext, vars

LEMMA TriggerRequests ==
    ASSUME MaxTriggers \in Nat, IInv, RunClockTrigger, interrupt_enable, rate
    PROVE  triggers' > 0 /\ rtc_irq'
<1>1. triggers \in Nat /\ triggers > 0
  BY DEF IInv, RtcInv, RtcTypeOK, RunClockTrigger
<1>2. triggers' = (triggers - 1) + 1
  BY DEF RunClockTrigger, ReadyClock
<1>3. rtc_irq'
  BY Zenon DEF RunClockTrigger, ReadyClock
<1>4. QED
  BY <1>1, <1>2, <1>3

(* While the guest leaves rate and enable bit on, requests keep coming,      *)
(* however often it takes them back (decrtc.cc:147, 169).                    *)
THEOREM TicksGoOn ==
    ASSUME SeparateTerminals, MaxTriggers \in Nat
    PROVE  FairSpec /\ []QueuedTriggerRuns => RtcTicks
<1> DEFINE on == interrupt_enable /\ rate
           G == (triggers > 0 /\ rtc_irq) \/ ~on \/ aborted
           P == triggers > 0 /\ on /\ ~rtc_irq /\ ~aborted
<1>1. IInv /\ P /\ [Next]_vars => P' \/ G'
  BY TriggersKept
<1>2. IInv /\ P /\ <<Trigger>>_vars => G'
  BY TriggerRequests DEF Trigger
<1>3. IInv /\ P /\ QueuedTriggerRuns => ENABLED <<Trigger>>_vars
  BY DEF IInv, SerialInv, QueuedTriggerRuns
<1>4. triggers > 0 /\ on => P \/ G
  OBVIOUS
<1>5. QED
  BY <1>1, <1>2, <1>3, <1>4, IInvariant, PTL DEF FairSpec, Spec, RtcTicks

=============================================================================
