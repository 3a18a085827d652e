------------------------------- MODULE Sigset --------------------------------
(***************************************************************************)
(* sigset_t and its eight operations (crates/mytilus-signal/src/           *)
(* sigset.rs).                                                             *)
(*                                                                         *)
(* A word of __bits is the set of the positions of its ones.  __bits[0]    *)
(* carries the signals; __bits[1] stands for the padding __bits[1..],      *)
(* which starts with whatever the caller's memory held.  A C int has       *)
(* IntModulus values instead of 2^32: validate_sig's two unsigned          *)
(* comparisons are the same as long as _NSIG fits.                         *)
(***************************************************************************)
EXTENDS Errno

CONSTANTS
    Sets,        \* the sigset_t objects of the program
    Signals,     \* the values of sig that are passed
    Contents,    \* what an object may hold at first
    IntModulus,  \* the number of values of a C int
    MaxCalls     \* bound: the number of calls

ASSUME IntAssumption == IntModulus \in Nat /\ IntModulus > 130
ASSUME SigAssumption == Signals \subseteq -(IntModulus \div 2) .. IntModulus \div 2 - 1
ASSUME ContentsAssumption == Contents \subseteq SUBSET (0 .. 63)
ASSUME MaxCallsAssumption == MaxCalls \in Nat

VARIABLES
    bits,      \* bits[s][w]: the word __bits[w] of object s
    sigErrno,
    res,       \* the result of the last call
    members,   \* history: the signals that make up the set, as POSIX counts
    clean,     \* history: the objects that go back to sigemptyset, sigfillset
    calls

setVars == <<bits, sigErrno, res, members, clean, calls>>

NSIG == 65
Reserved == 32 .. 34
All == 1 .. NSIG - 1

u(x) == x % IntModulus

(* bit_index: the word and the position of a signal.                        *)
word(sig) == u(sig - 1) \div 64
bit(sig) == u(sig - 1) % 64

(* Mutant: the last signal is refused, the first reserved one accepted.     *)
validate_sigMutant(sig) == u(sig) >= NSIG - 1 \/ u(sig - 33) < 3

(* TRUE means invalid, as in the code.                                      *)
validate_sig(sig) == u(sig - 1) >= NSIG - 1 \/ u(sig - 32) < 3

sigismember(s, sig) ==
    IF u(sig - 1) >= NSIG - 1 THEN 0 ELSE IF bit(sig) \in bits[s][word(sig)] THEN 1 ELSE 0

sigisemptyset(s) == IF bits[s][0] = {} THEN 1 ELSE 0

-----------------------------------------------------------------------------
(* An object is uninitialised memory, or a set a system call wrote.         *)
InitSets ==
    /\ bits \in [Sets -> [{0, 1} -> Contents]]
    /\ sigErrno = 0
    /\ res = 0
    /\ members = [s \in Sets |-> {b + 1 : b \in bits[s][0]}]
    /\ clean = {}
    /\ calls = 0

Count == calls < MaxCalls /\ calls' = calls + 1

sigemptyset(s) ==
    /\ Count
    /\ bits' = [bits EXCEPT ![s][0] = {}]
    /\ members' = [members EXCEPT ![s] = {}]
    /\ clean' = clean \cup {s}
    /\ res' = 0
    /\ UNCHANGED sigErrno

(* Mutant: the mask loses the wrong three bits.                             *)
sigfillsetMutant(s) ==
    /\ Count
    /\ bits' = [bits EXCEPT ![s][0] = 0 .. 63 \ 32 .. 34]
    /\ members' = [members EXCEPT ![s] = All \ Reserved]
    /\ clean' = clean \cup {s}
    /\ res' = 0
    /\ UNCHANGED sigErrno

(* 0xfffffffc7fffffff: every bit but 31, 32 and 33.                         *)
sigfillset(s) ==
    /\ Count
    /\ bits' = [bits EXCEPT ![s][0] = 0 .. 63 \ 31 .. 33]
    /\ members' = [members EXCEPT ![s] = All \ Reserved]
    /\ clean' = clean \cup {s}
    /\ res' = 0
    /\ UNCHANGED sigErrno

(* sigaddset and sigdelset refuse with EINVAL.                              *)
Invalid(sig) ==
    /\ Count
    /\ validate_sig(sig)
    /\ sigErrno' = EINVAL
    /\ res' = -1
    /\ UNCHANGED <<bits, members, clean>>

sigaddset(s, sig) ==
    /\ Count
    /\ ~validate_sig(sig)
    /\ bits' = [bits EXCEPT ![s][word(sig)] = @ \cup {bit(sig)}]
    /\ members' = [members EXCEPT ![s] = @ \cup {sig}]
    /\ res' = 0
    /\ UNCHANGED <<sigErrno, clean>>

sigdelset(s, sig) ==
    /\ Count
    /\ ~validate_sig(sig)
    /\ bits' = [bits EXCEPT ![s][word(sig)] = @ \ {bit(sig)}]
    /\ members' = [members EXCEPT ![s] = @ \ {sig}]
    /\ res' = 0
    /\ UNCHANGED <<sigErrno, clean>>

(* The three arguments may be one object.                                   *)
sigorset(dest, left, right) ==
    /\ Count
    /\ bits' = [bits EXCEPT ![dest][0] = bits[left][0] \cup bits[right][0]]
    /\ members' = [members EXCEPT ![dest] = members[left] \cup members[right]]
    /\ clean' = IF {left, right} \subseteq clean THEN clean \cup {dest} ELSE clean \ {dest}
    /\ res' = 0
    /\ UNCHANGED sigErrno

sigandset(dest, left, right) ==
    /\ Count
    /\ bits' = [bits EXCEPT ![dest][0] = bits[left][0] \cap bits[right][0]]
    /\ members' = [members EXCEPT ![dest] = members[left] \cap members[right]]
    /\ clean' = IF {left, right} \cap clean # {} THEN clean \cup {dest} ELSE clean \ {dest}
    /\ res' = 0
    /\ UNCHANGED sigErrno

DoneSets == calls = MaxCalls /\ UNCHANGED setVars

NextSets ==
    \/ \E s \in Sets : sigemptyset(s) \/ sigfillset(s)
    \/ \E sig \in Signals : Invalid(sig)
    \/ \E s \in Sets, sig \in Signals : sigaddset(s, sig) \/ sigdelset(s, sig)
    \/ \E dest, left, right \in Sets : sigorset(dest, left, right) \/ sigandset(dest, left, right)
    \/ DoneSets

SetSpec == InitSets /\ [][NextSets]_setVars

-----------------------------------------------------------------------------
(* The bits are the set: after any sequence of calls, also with aliased     *)
(* arguments, sigismember answers 1 for the members, for each of the 64     *)
(* signals, and 0 for every other int; sigisemptyset agrees with it,        *)
(* whatever the padding holds.                                              *)
MembershipExact ==
    \A s \in Sets :
        /\ \A sig \in All : (sigismember(s, sig) = 1) = (sig \in members[s])
        /\ \A sig \in Signals \ All : sigismember(s, sig) = 0
        /\ (sigisemptyset(s) = 1) = (members[s] = {})

(* A set that was built from sigemptyset and sigfillset never holds one of  *)
(* the signals the library keeps to itself, whatever else is called: no     *)
(* program can block the cancellation signal by way of these functions.     *)
ReservedKeptOut == \A s \in clean : bits[s][0] \cap 31 .. 33 = {}

=============================================================================
