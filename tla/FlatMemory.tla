---------------------------- MODULE FlatMemory ------------------------------
(***************************************************************************)
(* What the memory of mapper.cc promises to the program that runs on it:   *)
(* one array of bytes, read through two ports (instruction fetches and     *)
(* cached data loads).  A byte is wild at a port when the program itself   *)
(* went behind the back of that port's cache and has not invalidated the   *)
(* line since; everywhere else each port reads the last byte stored.       *)
(***************************************************************************)
EXTENDS Integers

CONSTANTS Ram,         \* addresses of the bytes that can be stored to
          Rom,         \* addresses of the bytes that can only be read
          Byte,        \* values of a byte
          Port         \* ports through which the memory is read

VARIABLES bytes,       \* contents
          seen,        \* the word that a port reads, by <<port, address of the word>>
          wild         \* <<port, address>> pairs at which nothing is promised

vars == <<bytes, seen, wild>>

WordOf(a) == {b \in Ram \cup Rom : b \div 4 = a \div 4}

Chunk(a, n) == a..a + n - 1

WordAddress == {a \in Ram \cup Rom : a % 4 = 0}

(* Bytes at which a port does not read what the memory holds. *)
Misread ==
    UNION {LET word == seen[<<p, a>>]
           IN  {p} \X {a + k : k \in {j \in 0..3 : word[j] # bytes[a + j]}} :
             p \in Port, a \in WordAddress}

Reliable ==
    /\ bytes \in [Ram \cup Rom -> Byte]
    /\ Misread \subseteq wild /\ wild \subseteq Port \X (Ram \cup Rom)

Init ==
    /\ bytes \in [Ram \cup Rom -> Byte]
    /\ wild = {}

Changed == {b \in Ram \cup Rom : bytes'[b] # bytes[b]}

(* A store through the data cache.  The rest of a wild word is anything    *)
(* afterwards, because the line is written back whole.                     *)
Store(a, n) ==
    /\ \A b \in Changed \ Chunk(a, n) : b \in WordOf(a) /\ <<"data", b>> \in wild
    /\ wild' \subseteq wild \cup ((Port \ {"data"}) \X WordOf(a))

(* A store that no cache sees, or that the other cache sees.               *)
StoreAround(a, n) ==
    /\ \A b \in Changed \ Chunk(a, n) : b \in WordOf(a) /\ \E p \in Port : <<p, b>> \in wild
    /\ wild' \subseteq wild \cup (Port \X WordOf(a))

(* Loads, isolating and swapping the caches, and stores into an isolated    *)
(* cache leave the memory alone.                                           *)
Maintain == UNCHANGED bytes

Next ==
    \/ Maintain
    \/ \E n \in {1, 2, 4}, a \in Ram :
          a % n = 0 /\ Chunk(a, n) \subseteq Ram /\ (Store(a, n) \/ StoreAround(a, n))

Spec == Init /\ [][Next]_vars /\ []Reliable
=============================================================================
