---------------------------- MODULE EgressReceipt ----------------------------
(***************************************************************************)
(* The ledger of what gstack attempts to send off the machine              *)
(* (lib/egress-receipt.ts): every receipt carries the hash of the line     *)
(* before it, and a lock directory is held from the reading of that line   *)
(* to the append.  A waiter whose 2.5 s are over removes a directory       *)
(* older than ten seconds.  One action per system call.                    *)
(***************************************************************************)
EXTENDS Integers, Sequences

CONSTANTS
    Writer,    \* processes that write receipts and outcomes
    MaxLine    \* bound on the lines written

Nobody == "nobody"
ASSUME WriterAssumption == Nobody \notin Writer
ASSUME LineAssumption == MaxLine \in Nat

VARIABLES
    lockDir,   \* who made <ledger>.lock; Nobody when there is none
    aged,      \* its mtime is more than ten seconds ago
    ledger,    \* the lines of the file
    ended,     \* the last one has its newline
    written,   \* how many appends were begun: the hash of a line is its number
    writer,    \* where each process stands in withLedgerLock
    prev,      \* the hash it read of the last line
    stolen,    \* history: the directory was removed under a writer that lives
    torn       \* history: a writer died while its line was being written

egressVars == <<lockDir, aged, ledger, ended, written, writer, prev, stolen, torn>>

Genesis == 0
Hash == 0..MaxLine
Line == [hash : 1..MaxLine, prev : Hash, parses : BOOLEAN]
Inside == {"read", "append", "unlock"}
Place == Inside \cup {"out", "mkdir", "stat", "rmdir", "dead"}

EgressInit ==
    /\ lockDir = Nobody /\ aged = FALSE
    /\ ledger = <<>> /\ ended = TRUE /\ written = 0
    /\ writer = [w \in Writer |-> "out"]
    /\ prev = [w \in Writer |-> Genesis]
    /\ stolen = FALSE /\ torn = FALSE

Goes(w, place) == writer' = [writer EXCEPT ![w] = place]

-----------------------------------------------------------------------------
(* withLedgerLock.                                                         *)

Begin(w) ==
    /\ writer[w] = "out"
    /\ Goes(w, "mkdir")
    /\ UNCHANGED <<lockDir, aged, ledger, ended, written, prev, stolen, torn>>

\* Slip: mkdirSync with recursive: true, which does not mind an existing one.
Mkdir_recursive(w) ==
    /\ writer[w] = "mkdir"
    /\ lockDir' = w /\ aged' = FALSE
    /\ Goes(w, "read")
    /\ UNCHANGED <<ledger, ended, written, prev, stolen, torn>>
Mkdir(w) ==
    /\ writer[w] = "mkdir"
    /\ lockDir = Nobody
    /\ lockDir' = w /\ aged' = FALSE
    /\ Goes(w, "read")
    /\ UNCHANGED <<ledger, ended, written, prev, stolen, torn>>

\* EEXIST after the deadline.
Overdue(w) ==
    /\ writer[w] = "mkdir"
    /\ lockDir # Nobody
    /\ Goes(w, "stat")
    /\ UNCHANGED <<lockDir, aged, ledger, ended, written, prev, stolen, torn>>

\* A young directory, or none by now (statSync throws), refuses the receipt.
Stat(w) ==
    /\ writer[w] = "stat"
    /\ Goes(w, IF lockDir # Nobody /\ aged THEN "rmdir" ELSE "out")
    /\ UNCHANGED <<lockDir, aged, ledger, ended, written, prev, stolen, torn>>

\* rmdirSync removes the directory that is there by now, whoever made it.
Removed(w) ==
    /\ lockDir' = Nobody /\ aged' = FALSE
    /\ stolen' = (stolen \/ (lockDir \notin {w, Nobody} /\ writer[lockDir] \in Inside))

Rmdir(w) ==
    /\ writer[w] = "rmdir"
    /\ Removed(w)
    /\ Goes(w, IF lockDir # Nobody THEN "mkdir" ELSE "out")
    /\ UNCHANGED <<ledger, ended, written, prev, torn>>

-----------------------------------------------------------------------------
(* appendChained, under the lock.                                          *)

LastHash == IF ledger = <<>> THEN Genesis ELSE ledger[Len(ledger)].hash

\* lastRawLine: what follows the last newline counts, newline or not.
Read(w) ==
    /\ writer[w] = "read"
    /\ prev' = [prev EXCEPT ![w] = LastHash]
    /\ Goes(w, "append")
    /\ UNCHANGED <<lockDir, aged, ledger, ended, written, stolen, torn>>

\* appendFileSync: after a torn line the new one becomes part of it.
Appended(line) ==
    IF ended THEN Append(ledger, line)
    ELSE [ledger EXCEPT ![Len(ledger)] = [line EXCEPT !.parses = FALSE]]

WriteLine(w) ==
    /\ writer[w] = "append"
    /\ written < MaxLine
    /\ written' = written + 1
    /\ ledger' = Appended([hash |-> written + 1, prev |-> prev[w], parses |-> TRUE])
    /\ ended' = TRUE
    /\ Goes(w, "unlock")
    /\ UNCHANGED <<lockDir, aged, prev, stolen, torn>>

\* The append throws and nothing is written: the receipt is refused.
AppendFails(w) ==
    /\ writer[w] = "append"
    /\ Goes(w, "unlock")
    /\ UNCHANGED <<lockDir, aged, ledger, ended, written, prev, stolen, torn>>

\* The finally removes the directory by name.
Unlock(w) ==
    /\ writer[w] = "unlock"
    /\ Removed(w)
    /\ Goes(w, "out")
    /\ UNCHANGED <<ledger, ended, written, prev, torn>>

-----------------------------------------------------------------------------
(* Killed anywhere; in the middle of an append with part of the line.      *)

Die(w) ==
    /\ writer[w] \in Place \ {"out", "dead"}
    /\ Goes(w, "dead")
    /\ UNCHANGED <<lockDir, aged, ledger, ended, written, prev, stolen, torn>>

Tear(w) ==
    /\ writer[w] = "append"
    /\ written < MaxLine
    /\ written' = written + 1
    /\ ledger' = Appended([hash |-> written + 1, prev |-> prev[w], parses |-> FALSE])
    /\ ended' = FALSE /\ torn' = TRUE
    /\ Goes(w, "dead")
    /\ UNCHANGED <<lockDir, aged, prev, stolen>>

\* Ten seconds pass, for a dead writer's directory or a suspended one's.
LockAges ==
    /\ lockDir # Nobody
    /\ aged' = TRUE
    /\ UNCHANGED <<lockDir, ledger, ended, written, writer, prev, stolen, torn>>

Step(w) ==
    \/ Begin(w) \/ Mkdir(w) \/ Overdue(w) \/ Stat(w) \/ Rmdir(w)
    \/ Read(w) \/ WriteLine(w) \/ AppendFails(w) \/ Unlock(w) \/ Die(w) \/ Tear(w)

EgressNext == LockAges \/ \E w \in Writer : Step(w)

EgressSpec == EgressInit /\ [][EgressNext]_egressVars

-----------------------------------------------------------------------------
EgressTypeOK ==
    /\ lockDir \in Writer \cup {Nobody} /\ aged \in BOOLEAN
    /\ ledger \in Seq(Line) /\ ended \in BOOLEAN /\ written \in 0..MaxLine
    /\ writer \in [Writer -> Place]
    /\ prev \in [Writer -> Hash]
    /\ stolen \in BOOLEAN /\ torn \in BOOLEAN

\* verifyLedger returns ok.
Verifies ==
    \A i \in 1..Len(ledger) :
        /\ ledger[i].parses
        /\ ledger[i].prev = IF i = 1 THEN Genesis ELSE ledger[i - 1].hash

(* Whoever writes, waits, reclaims and dies, the ledger verifies: what      *)
(* verifyLedger reports as tampering is tampering.  The exceptions are the *)
(* code's: a lock taken from a writer that was only slow                   *)
(* (egress-receipt.ts:163), and a line that was cut off.                   *)
ChainVerifies == ~stolen /\ ~torn => Verifies
=============================================================================
