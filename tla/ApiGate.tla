------------------------------ MODULE ApiGate ------------------------------
(***************************************************************************)
(* The cap on concurrent planner calls of several pi processes             *)
(* (packages/embodied/src/planner/api-gate.ts).                            *)
(*                                                                         *)
(* A model call needs one of n slot files in a directory all processes     *)
(* share.  A file is created exclusively and then gets the pid of its      *)
(* process; a file whose pid is gone is removed and created again.  The    *)
(* file operations of a caller are steps of its own: other processes come  *)
(* between any two of them, and a process may be killed there.  Within a   *)
(* process they are not interleaved (they are synchronous).                *)
(*                                                                         *)
(* Pids are not used twice, and directories are not swept by anyone else.  *)
(***************************************************************************)
EXTENDS Integers, FiniteSets

CONSTANTS
    Processes,   \* pi processes
    Callers,     \* what takes slots in them: planner turns, lanes, side calls
    ProcessOf,   \* the process of each caller
    N,           \* the number of slots
    Nobody,      \* no file, and the content of an empty one
    MaxKills     \* bound on killed processes

ASSUME GateAssumption ==
    /\ IsFiniteSet(Processes) /\ IsFiniteSet(Callers)
    /\ ProcessOf \in [Callers -> Processes]
    /\ Nobody \notin Processes \cup Callers
    /\ N \in Nat \ {0}
    /\ MaxKills \in Nat

VARIABLES
    at,     \* at[w]: the next operation of caller w
    slot,   \* slot[w]: the slot it is about
    seen,   \* seen[w]: the pid it read last
    file,   \* file[i]: the caller that created the file of slot i
    pid,    \* pid[i]: its content
    dead    \* the processes that were killed

gateVars == <<at, slot, seen, file, pid, dead>>

Slots == 1..N
Scanning == {"open", "read", "check", "remove", "reopen"}
Taken == {"write", "calling", "unlink"}
AtValue == Scanning \cup Taken \cup {"idle", "asleep", "killed"}

(* Where a caller waits for its event loop: all else is synchronous.       *)
Awaiting == {"idle", "asleep", "calling", "killed"}

GateTypeOK ==
    /\ at \in [Callers -> AtValue]
    /\ slot \in [Callers -> Slots]
    /\ seen \in [Callers -> Processes \cup {Nobody}]
    /\ file \in [Slots -> Callers \cup {Nobody}]
    /\ pid \in [Slots -> Processes \cup {Nobody}]
    /\ dead \in SUBSET Processes

GateInit ==
    /\ at = [w \in Callers |-> "idle"]
    /\ slot = [w \in Callers |-> 1]
    /\ seen = [w \in Callers |-> Nobody]
    /\ file = [i \in Slots |-> Nobody]
    /\ pid = [i \in Slots |-> Nobody]
    /\ dead = {}

Goto(w, where) == at' = [at EXCEPT ![w] = where]

(* The event loop of w's process can call w back.                          *)
LoopFree(w) == \A v \in Callers : ProcessOf[v] = ProcessOf[w] => at[v] \in Awaiting

(* The caller is done with its slot.                                       *)
Forget(w) == Goto(w, "idle") /\ slot' = [slot EXCEPT ![w] = 1]

PutFile(i, w, p) ==
    /\ file' = [file EXCEPT ![i] = w]
    /\ pid' = [pid EXCEPT ![i] = p]

---------------------------------------------------------------------------
(* acquire: the slots are tried in turn; when none was taken, the caller   *)
(* sleeps and begins again.                                                *)

Scan(w) ==
    /\ LoopFree(w)
    /\ slot' = [slot EXCEPT ![w] = 1]
    /\ Goto(w, "open")
    /\ UNCHANGED <<seen, file, pid, dead>>

Begin(w) == at[w] = "idle" /\ Scan(w)

Wake(w) == at[w] = "asleep" /\ Scan(w)

(* The signal of a sleeping caller aborts: acquire throws.                 *)
GiveUp(w) ==
    /\ at[w] = "asleep"
    /\ Goto(w, "idle")
    /\ UNCHANGED <<slot, seen, file, pid, dead>>

(* The next slot, or the end of the scan.                                  *)
Advance(w) ==
    /\ IF slot[w] < N
         THEN slot' = [slot EXCEPT ![w] = @ + 1] /\ Goto(w, "open")
         ELSE slot' = [slot EXCEPT ![w] = 1] /\ Goto(w, "asleep")
    /\ UNCHANGED <<file, pid, dead>>

(* Mutant: the file is opened without the exclusive flag.                  *)
CreateOver(w) ==
    /\ at[w] \in {"open", "reopen"}
    /\ PutFile(slot[w], w, Nobody)
    /\ Goto(w, "write")
    /\ UNCHANGED <<slot, seen, dead>>

(* openSync "wx" succeeds: an empty file of this caller.                   *)
Create(w) ==
    /\ at[w] \in {"open", "reopen"}
    /\ file[slot[w]] = Nobody
    /\ PutFile(slot[w], w, Nobody)
    /\ Goto(w, "write")
    /\ UNCHANGED <<slot, seen, dead>>

(* openSync "wx" fails: look at the owner, or after a takeover go on.      *)
Exists(w) ==
    /\ file[slot[w]] # Nobody
    /\ \/ /\ at[w] = "open"
          /\ Goto(w, "read")
          /\ UNCHANGED <<slot, seen, file, pid, dead>>
       \/ /\ at[w] = "reopen"
          /\ Advance(w)
          /\ UNCHANGED seen

(* Mutant: the file is left without a pid.                                 *)
WriteNothing(w) ==
    /\ at[w] = "write"
    /\ Goto(w, "calling")
    /\ UNCHANGED <<slot, seen, file, pid, dead>>

(* The pid goes to the file this caller opened, which another process may  *)
(* have removed meanwhile.                                                 *)
Write(w) ==
    /\ at[w] = "write"
    /\ IF file[slot[w]] = w
         THEN pid' = [pid EXCEPT ![slot[w]] = ProcessOf[w]]
         ELSE UNCHANGED pid
    /\ Goto(w, "calling")
    /\ UNCHANGED <<slot, seen, file, dead>>

(* Mutant: an empty file is taken for a dead one.                          *)
ReadEmptyAsDead(w) ==
    /\ at[w] = "read"
    /\ seen' = [seen EXCEPT ![w] = pid[slot[w]]]
    /\ Goto(w, IF pid[slot[w]] = Nobody THEN "remove" ELSE "check")
    /\ UNCHANGED <<slot, file, pid, dead>>

(* An empty file, or none any more, is passed over.                        *)
Read(w) ==
    /\ at[w] = "read"
    /\ seen' = [seen EXCEPT ![w] = pid[slot[w]]]
    /\ IF pid[slot[w]] = Nobody
         THEN Advance(w)
         ELSE Goto(w, "check") /\ UNCHANGED <<slot, file, pid, dead>>

(* Mutant: slots of dead processes are passed over.                        *)
CheckNothing(w) ==
    /\ at[w] = "check"
    /\ seen' = [seen EXCEPT ![w] = Nobody]
    /\ Advance(w)

(* kill(pid, 0): the process may have died since its pid was read.         *)
Check(w) ==
    /\ at[w] = "check"
    /\ seen' = [seen EXCEPT ![w] = Nobody]
    /\ IF seen[w] \in dead
         THEN Goto(w, "remove") /\ UNCHANGED <<slot, file, pid, dead>>
         ELSE Advance(w)

(* unlinkSync removes whatever file is there now.                          *)
Remove(w) ==
    /\ at[w] = "remove"
    /\ PutFile(slot[w], Nobody, Nobody)
    /\ Goto(w, "reopen")
    /\ UNCHANGED <<slot, seen, dead>>

---------------------------------------------------------------------------
(* release: the pid is read, and the file removed if it is this process's. *)

(* Mutant: a call that ends early does not give its slot back.             *)
ReturnNothing(w) ==
    /\ at[w] = "calling"
    /\ LoopFree(w)
    /\ Forget(w)
    /\ UNCHANGED <<seen, file, pid, dead>>

Return(w) ==
    /\ at[w] = "calling"
    /\ LoopFree(w)
    /\ IF pid[slot[w]] = ProcessOf[w]
         THEN Goto(w, "unlink") /\ UNCHANGED slot
         ELSE Forget(w)
    /\ UNCHANGED <<seen, file, pid, dead>>

Unlink(w) ==
    /\ at[w] = "unlink"
    /\ PutFile(slot[w], Nobody, Nobody)
    /\ Forget(w)
    /\ UNCHANGED <<seen, dead>>

(* A process is killed (a process that exits gives its slot back first).   *)
Kill(p) ==
    /\ p \notin dead
    /\ Cardinality(dead) < MaxKills
    /\ dead' = dead \cup {p}
    /\ at' = [w \in Callers |-> IF ProcessOf[w] = p THEN "killed" ELSE at[w]]
    /\ UNCHANGED <<slot, seen, file, pid>>

Synchronous(w) ==
    Create(w) \/ Exists(w) \/ Write(w) \/ Read(w) \/ Check(w) \/ Remove(w) \/ Unlink(w)

CallerStep(w) == Begin(w) \/ Wake(w) \/ GiveUp(w) \/ Synchronous(w) \/ Return(w)

GateNext == (\E w \in Callers : CallerStep(w)) \/ (\E p \in Processes : Kill(p))

GateSpec == GateInit /\ [][GateNext]_gateVars

---------------------------------------------------------------------------
(* Properties.                                                             *)

Holders == {w \in Callers : at[w] \in Taken}

(* As long as no process was killed, a caller that has a slot has its file *)
(* and no other caller has that slot: at most n model calls are made at    *)
(* once (api-gate.ts:2, :6-8).  Each killed process lets at most one call  *)
(* too many through in a slot for each other process that takes the slot   *)
(* over at the same time, less the one that may: two processes, one extra  *)
(* call (api-gate.ts:9-10).                                                *)
SlotsBoundCalls ==
    /\ dead = {} => \A w \in Holders : file[slot[w]] = w
    /\ \A i \in Slots :
          Cardinality({w \in Holders : slot[w] = i})
              <= 1 + Cardinality(dead) * (Cardinality(Processes) - 2)

(* No slot is lost while its process lives, whatever others removed and    *)
(* created in between: a file a live process created is in the hands of a  *)
(* caller that is going to remove it.  A slot is lost for good only to a   *)
(* process killed between creating its file and writing the pid, and each  *)
(* such process costs one: its file stays empty, and an empty file counts  *)
(* as being written (api-gate.ts:48).                                      *)
Lost == {i \in Slots : file[i] # Nobody /\ ProcessOf[file[i]] \in dead /\ pid[i] = Nobody}

NoSlotForgotten ==
    /\ \A i \in Slots :
          file[i] # Nobody /\ ProcessOf[file[i]] \notin dead
              => at[file[i]] \in Taken /\ slot[file[i]] = i
    /\ \A i, j \in Lost : ProcessOf[file[i]] = ProcessOf[file[j]] => i = j
=============================================================================
