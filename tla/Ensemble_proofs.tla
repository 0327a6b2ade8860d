-------------------------- MODULE Ensemble_proofs --------------------------
(***************************************************************************)
(* Proofs about the gate and the ensembles at it, for any finite sets of   *)
(* processes and callers, any number of slots, candidates and kills.       *)
(*                                                                         *)
(* The gate is proved for itself (GateIInv), whatever the callers do with  *)
(* their slots; the ensembles only take steps of it (EnsembleUsesGate).    *)
(*                                                                         *)
(* How many calls are made with one slot is counted over two kinds of      *)
(* callers: those whose file was removed under them (Robbed), and the      *)
(* processes with a caller that has yet to remove a file it takes for a    *)
(* dead process's (Stale).  A removal turns one of the second kind into    *)
(* one of the first; only a kill makes more, one for each other process.   *)
(***************************************************************************)
EXTENDS Ensemble, FiniteSetTheorems, TLAPS

---------------------------------------------------------------------------
(* The gate: its callers and files.                                        *)

(* One caller of a process at a time is between two awaits.                *)
OneAtATime ==
    \A v, w \in Callers :
        ProcessOf[v] = ProcessOf[w] /\ v # w => at[v] \in Awaiting \/ at[w] \in Awaiting

(* Only the callers of a killed process stop for good.                     *)
KilledAreDead == \A w \in Callers : at[w] = "killed" <=> ProcessOf[w] \in dead

(* The file of a live process is in the hands of the caller that created it. *)
Owned ==
    \A i \in Slots :
        file[i] # Nobody /\ ProcessOf[file[i]] \notin dead =>
            /\ at[file[i]] \in Taken /\ slot[file[i]] = i
            /\ at[file[i]] = "write" => pid[i] = Nobody
            /\ at[file[i]] # "write" => pid[i] = ProcessOf[file[i]]

(* A pid is that of the process that created the file.                     *)
Signed == \A i \in Slots : pid[i] # Nobody => file[i] # Nobody /\ pid[i] = ProcessOf[file[i]]

(* A caller about to remove a file found that of another process.          *)
NotItsOwn ==
    \A v \in Callers :
        at[v] = "remove" \/ (at[v] = "check" /\ seen[v] # ProcessOf[v]) =>
            file[slot[v]] = Nobody \/ ProcessOf[file[slot[v]]] # ProcessOf[v]

(* A process has one empty file at most.                                   *)
OneEmptyEach ==
    \A i, j \in Slots :
        /\ file[i] # Nobody /\ file[j] # Nobody /\ pid[i] = Nobody /\ pid[j] = Nobody
        /\ ProcessOf[file[i]] = ProcessOf[file[j]]
        => i = j

(* Every step keeps the types.                                             *)
LEMMA GateStepTypeOK == GateTypeOK /\ [GateNext]_gateVars => GateTypeOK'
<1> SUFFICES ASSUME GateTypeOK, [GateNext]_gateVars PROVE GateTypeOK'
  OBVIOUS
<1> USE GateAssumption DEF GateAssumption, GateTypeOK, Goto
<1>0. {"open", "read", "check", "remove", "reopen", "write", "calling", "unlink", "idle",
       "asleep", "killed"} \subseteq AtValue
  BY DEF AtValue, Scanning, Taken
<1>s. 1 \in Slots /\ \A k \in Slots : k < N => k + 1 \in Slots
  BY DEF Slots
<1>1. ASSUME NEW w \in Callers, Begin(w) \/ Wake(w) \/ GiveUp(w) PROVE GateTypeOK'
  BY <1>0, <1>1, <1>s DEF Begin, Wake, GiveUp, Scan
<1>2. ASSUME NEW w \in Callers, Create(w) \/ Remove(w) \/ Unlink(w) \/ Return(w) PROVE GateTypeOK'
  BY <1>0, <1>2, <1>s DEF Create, Remove, Unlink, Return, PutFile, Forget
<1>3. ASSUME NEW w \in Callers, Exists(w) \/ Read(w) \/ Check(w) PROVE GateTypeOK'
  BY <1>0, <1>3, <1>s DEF Exists, Read, Check, Advance
<1>4. ASSUME NEW w \in Callers, Write(w) PROVE GateTypeOK'
  BY <1>0, <1>4, <1>s DEF Write
<1>5. ASSUME NEW p \in Processes, Kill(p) PROVE GateTypeOK'
  BY <1>0, <1>5 DEF Kill
<1>6. CASE UNCHANGED gateVars
  BY <1>6 DEF gateVars
<1> QED
  BY <1>1, <1>2, <1>3, <1>4, <1>5, <1>6 DEF GateNext, CallerStep, Synchronous

(* A caller moves on only where no other of its process is between awaits. *)
LEMMA StepOneAtATime ==
    GateTypeOK /\ OneAtATime /\ [GateNext]_gateVars => OneAtATime'
<1> SUFFICES ASSUME GateTypeOK, OneAtATime, [GateNext]_gateVars PROVE OneAtATime'
  OBVIOUS
<1>1. ASSUME NEW w \in Callers, CallerStep(w) PROVE OneAtATime'
  <2>1. \A v \in Callers \ {w} : at'[v] = at[v]
    BY <1>1 DEF CallerStep, Synchronous, Begin, Wake, GiveUp, Scan, Create, Exists, Read, Check,
           Remove, Unlink, Write, Return, Advance, Forget, Goto, GateTypeOK
  <2>2. at[w] \notin Awaiting \/ LoopFree(w) \/ at'[w] \in Awaiting
    BY <1>1 DEF CallerStep, Synchronous, Begin, Wake, GiveUp, Scan, Create, Exists, Read, Check,
           Remove, Unlink, Write, Return, Advance, Forget, Goto, GateTypeOK, Awaiting
  <2> QED
    BY <2>1, <2>2 DEF OneAtATime, LoopFree
<1>2. ASSUME NEW p \in Processes, Kill(p) PROVE OneAtATime'
  BY <1>2 DEF Kill, OneAtATime, Awaiting
<1>3. CASE UNCHANGED gateVars
  BY <1>3 DEF gateVars, OneAtATime
<1> QED
  BY <1>1, <1>2, <1>3 DEF GateNext

(* A killed process stops all its callers, and nothing else does.          *)
LEMMA StepKilledAreDead ==
    GateTypeOK /\ KilledAreDead /\ [GateNext]_gateVars => KilledAreDead'
<1> SUFFICES ASSUME GateTypeOK, KilledAreDead, [GateNext]_gateVars PROVE KilledAreDead'
  OBVIOUS
<1>1. ASSUME NEW w \in Callers, CallerStep(w) PROVE KilledAreDead'
  <2>1. /\ \A v \in Callers \ {w} : at'[v] = at[v]
        /\ at[w] # "killed" /\ at'[w] # "killed" /\ dead' = dead
    BY <1>1 DEF CallerStep, Synchronous, Begin, Wake, GiveUp, Scan, Create, Exists, Read, Check,
           Remove, Unlink, Write, Return, Advance, Forget, Goto, GateTypeOK
  <2> QED
    BY <2>1 DEF KilledAreDead
<1>2. ASSUME NEW p \in Processes, Kill(p) PROVE KilledAreDead'
  BY <1>2 DEF Kill, KilledAreDead
<1>3. CASE UNCHANGED gateVars
  BY <1>3 DEF gateVars, KilledAreDead
<1> QED
  BY <1>1, <1>2, <1>3 DEF GateNext

(* What is true of the files in the slots.                                 *)
Files == Owned /\ Signed /\ NotItsOwn /\ OneEmptyEach
(* What is true of the callers' control.                                   *)
GateControl == GateTypeOK /\ OneAtATime /\ KilledAreDead

(* Every step keeps what the files say. The hard one is the creation of a  *)
(* file: no other empty file is of this process, as only one of its        *)
(* callers is between two awaits; and none of its callers is about to      *)
(* remove a file.                                                          *)
LEMMA StepFiles ==
    GateControl /\ Files /\ [GateNext]_gateVars => Files'
<1> SUFFICES ASSUME GateControl, Files, [GateNext]_gateVars PROVE Files'
  OBVIOUS
<1> USE GateAssumption DEF GateAssumption, GateControl
<1>1. ASSUME NEW w \in Callers, Begin(w) \/ Wake(w) \/ GiveUp(w) PROVE Files'
  BY <1>1 DEF Begin, Wake, GiveUp, Scan, Files, Owned, Signed, NotItsOwn, OneEmptyEach,
              GateTypeOK, Taken, Goto
<1>2. ASSUME NEW w \in Callers, Exists(w) PROVE Files'
  BY <1>2 DEF Exists, Advance, Files, Owned, Signed, NotItsOwn, OneEmptyEach,
              GateTypeOK, Taken, Goto
<1>3. ASSUME NEW w \in Callers, Read(w) PROVE Files'
  BY <1>3 DEF Read, Advance, Files, Owned, Signed, NotItsOwn, OneEmptyEach,
              GateTypeOK, Taken, Goto
<1>4. ASSUME NEW w \in Callers, Check(w) PROVE Files'
  BY <1>4 DEF Check, Advance, Files, Owned, Signed, NotItsOwn, OneEmptyEach, KilledAreDead,
              GateTypeOK, Taken, Goto
<1>5. ASSUME NEW w \in Callers, Create(w) PROVE Files'
  <2> DEFINE i == slot[w]
  <2>1. /\ i \in Slots /\ file[i] = Nobody /\ w # Nobody /\ at[w] \notin Awaiting \cup Taken
        /\ at' = [at EXCEPT ![w] = "write"] /\ UNCHANGED <<slot, seen, dead>>
        /\ file' = [file EXCEPT ![i] = w] /\ pid' = [pid EXCEPT ![i] = Nobody]
    BY <1>5 DEF Create, PutFile, Goto, GateTypeOK, Awaiting, Taken
  <2>2. \A v \in Callers : v # w /\ ProcessOf[v] = ProcessOf[w] => at[v] \in Awaiting
    BY <2>1 DEF OneAtATime
  <2>3. ProcessOf[w] \notin dead
    BY <2>1 DEF KilledAreDead, Awaiting
  <2>4. Owned'
    BY <2>1 DEF Files, Owned, GateTypeOK, Taken
  <2>5. Signed'
    BY <2>1 DEF Files, Signed, GateTypeOK
  <2>6. NotItsOwn'
    BY <2>1, <2>2 DEF Files, NotItsOwn, GateTypeOK, Awaiting
  <2>7. ASSUME NEW j \in Slots, j # i, file[j] # Nobody, pid[j] = Nobody
        PROVE  ProcessOf[file[j]] # ProcessOf[w]
    <3> SUFFICES ASSUME ProcessOf[file[j]] = ProcessOf[w] PROVE FALSE
      OBVIOUS
    <3>1. /\ file[j] \in Callers /\ at[file[j]] \in Taken
          /\ at[file[j]] # "write" => pid[j] = ProcessOf[file[j]]
      BY <2>3, <2>7 DEF Files, Owned, GateTypeOK
    <3>2. at[file[j]] = "write"
      BY <2>7, <3>1
    <3> QED
      BY <2>1, <2>2, <3>1, <3>2 DEF Awaiting
  <2>8. OneEmptyEach'
    BY <2>1, <2>7 DEF Files, OneEmptyEach, GateTypeOK
  <2> QED
    BY <2>4, <2>5, <2>6, <2>8 DEF Files
<1>6. ASSUME NEW w \in Callers, Remove(w) \/ Unlink(w) PROVE Files'
  BY <1>6 DEF Remove, Unlink, Files, Owned, Signed, NotItsOwn, OneEmptyEach,
              GateTypeOK, Taken, Goto, PutFile, Forget
<1>7. ASSUME NEW w \in Callers, Write(w) PROVE Files'
  BY <1>7 DEF Write, Files, Owned, Signed, NotItsOwn, OneEmptyEach,
              GateTypeOK, Taken, Goto
<1>8. ASSUME NEW w \in Callers, Return(w) PROVE Files'
  BY <1>8 DEF Return, Files, Owned, Signed, NotItsOwn, OneEmptyEach,
              GateTypeOK, Taken, Goto, Forget
<1>9. ASSUME NEW p \in Processes, Kill(p) PROVE Files'
  BY <1>9 DEF Kill, Files, Owned, Signed, NotItsOwn, OneEmptyEach, GateTypeOK, Taken
<1>10. CASE UNCHANGED gateVars
  BY <1>10 DEF gateVars, Files, Owned, Signed, NotItsOwn, OneEmptyEach
<1> QED
  BY <1>1, <1>2, <1>3, <1>4, <1>5, <1>6, <1>7, <1>8, <1>9, <1>10
     DEF GateNext, CallerStep, Synchronous

---------------------------------------------------------------------------
(* How many callers lose their file to a takeover.                         *)

(* The callers that have slot i without its file: their file was removed   *)
(* by one that took it for a dead process's.                               *)
Robbed(i) == {w \in Holders : slot[w] = i /\ file[i] # w}

(* A caller that may still remove the file of a live process: it saw a     *)
(* dead pid in the slot.                                                   *)
Suspects(w) == at[w] = "remove" \/ (at[w] = "check" /\ seen[w] \in dead)

(* The processes that have such a caller at slot i.                        *)
Stale(i) ==
    {p \in Processes : \E w \in Callers : ProcessOf[w] = p /\ slot[w] = i /\ Suspects(w)}

(* Seen from any live process p: the robbed callers at a slot, and the     *)
(* other processes that may still rob one, are at most P - 2 per dead      *)
(* process. While a dead pid is in the file, the suspects of that pid are  *)
(* yet to come: the robbed ones are at most P - 2 for each of the others.  *)
BoundAt(i) ==
    \A p \in Processes \ dead :
        IF pid[i] \in dead
          THEN Cardinality(Robbed(i)) <= (Cardinality(dead) - 1) * (Cardinality(Processes) - 2)
          ELSE Cardinality(Robbed(i)) + Cardinality(Stale(i) \ {p})
                  <= Cardinality(dead) * (Cardinality(Processes) - 2)

Bounded == \A i \in Slots : BoundAt(i)

(* Everything that is counted is finite.                                   *)
LEMMA Counts ==
    ASSUME GateTypeOK, NEW i
    PROVE  /\ IsFiniteSet(Robbed(i)) /\ Cardinality(Robbed(i)) \in Nat
           /\ \A T \in SUBSET Processes : IsFiniteSet(T) /\ Cardinality(T) \in Nat
           /\ Robbed(i) \subseteq Callers /\ Stale(i) \subseteq Processes
<1>1. Robbed(i) \subseteq Callers /\ Stale(i) \subseteq Processes
  BY DEF Robbed, Holders, Stale
<1>2. IsFiniteSet(Robbed(i))
  BY <1>1, GateAssumption, FS_Subset DEF GateAssumption
<1>3. ASSUME NEW T \in SUBSET Processes PROVE IsFiniteSet(T) /\ Cardinality(T) \in Nat
  BY GateAssumption, FS_Subset, FS_CardinalityType DEF GateAssumption
<1> QED
  BY <1>1, <1>2, <1>3, FS_CardinalityType

(* A part counts no more than the whole.                                   *)
LEMMA SmallerCount ==
    ASSUME NEW S, IsFiniteSet(S), NEW T, T \subseteq S
    PROVE  Cardinality(T) \in Nat /\ Cardinality(S) \in Nat /\ Cardinality(T) <= Cardinality(S)
  BY FS_Subset, FS_CardinalityType

(* Live processes other than p: at least one is dead, so P - 2 at most. *)
LEMMA LiveOthers ==
    ASSUME GateTypeOK, NEW p \in Processes, NEW q \in Processes, p # q,
           NEW T, T \subseteq Processes \ {p, q}
    PROVE  Cardinality(T) \in Nat /\ Cardinality(T) <= Cardinality(Processes) - 2
<1>1. IsFiniteSet(Processes) /\ Cardinality(Processes) \in Nat
  BY GateAssumption, FS_CardinalityType DEF GateAssumption
<1>2. IsFiniteSet(Processes \ {p}) /\ Cardinality(Processes \ {p}) = Cardinality(Processes) - 1
  BY <1>1, FS_RemoveElement
<1>3. /\ IsFiniteSet((Processes \ {p}) \ {q})
      /\ Cardinality((Processes \ {p}) \ {q}) = Cardinality(Processes) - 2
  <2>1. q \in Processes \ {p}
    OBVIOUS
  <2>2. /\ IsFiniteSet((Processes \ {p}) \ {q})
        /\ Cardinality((Processes \ {p}) \ {q}) = Cardinality(Processes \ {p}) - 1
    BY <1>2, <2>1, FS_RemoveElement
  <2> QED
    BY <1>1, <1>2, <2>2
<1>4. T \subseteq (Processes \ {p}) \ {q}
  OBVIOUS
<1> QED
  BY <1>3, <1>4, SmallerCount

(* While no file is removed and no process killed, nobody is robbed.       *)
LEMMA BoundKept ==
    ASSUME GateTypeOK, NEW i \in Slots, BoundAt(i), dead' = dead,
           pid'[i] \in dead <=> pid[i] \in dead,
           Cardinality(Robbed(i)') \in Nat, Cardinality(Robbed(i)') <= Cardinality(Robbed(i)),
           pid[i] \in dead \/ Stale(i)' \subseteq Stale(i)
    PROVE  BoundAt(i)'
<1> SUFFICES ASSUME NEW p \in Processes \ dead
             PROVE  IF pid'[i] \in dead'
                      THEN Cardinality(Robbed(i)')
                              <= (Cardinality(dead) - 1) * (Cardinality(Processes) - 2)
                      ELSE Cardinality(Robbed(i)') + Cardinality(Stale(i)' \ {p})
                              <= Cardinality(dead) * (Cardinality(Processes) - 2)
  BY DEF BoundAt
<1> DEFINE X == (Cardinality(dead) - 1) * (Cardinality(Processes) - 2)
           Y == Cardinality(dead) * (Cardinality(Processes) - 2)
<1>1. X \in Int /\ Y \in Int /\ Cardinality(Robbed(i)) \in Nat
  <2>1. Cardinality(dead) \in Nat /\ Cardinality(Processes) \in Nat
    BY Counts DEF GateTypeOK
  <2> QED
    BY <2>1, Counts
<1>2. CASE pid[i] \in dead
  <2>1. Cardinality(Robbed(i)) <= X
    BY <1>2 DEF BoundAt
  <2> HIDE DEF X
  <2> QED
    BY <1>1, <1>2, <2>1 DEF X
<1>3. CASE pid[i] \notin dead
  <2>1. Cardinality(Robbed(i)) + Cardinality(Stale(i) \ {p}) <= Y
    BY <1>3 DEF BoundAt
  <2>2. /\ Cardinality(Stale(i)' \ {p}) <= Cardinality(Stale(i) \ {p})
        /\ Cardinality(Stale(i)' \ {p}) \in Nat /\ Cardinality(Stale(i) \ {p}) \in Nat
    <3>1. IsFiniteSet(Stale(i) \ {p}) /\ Stale(i)' \ {p} \subseteq Stale(i) \ {p}
      BY <1>3, Counts
    <3> QED
      BY <3>1, SmallerCount
  <2> HIDE DEF Y
  <2>3. Cardinality(Robbed(i)') + Cardinality(Stale(i)' \ {p}) <= Y
    BY <1>1, <2>1, <2>2
  <2> QED
    BY <1>3, <2>3 DEF Y
<1> QED
  BY <1>2, <1>3

(* A step that robs nobody and makes no suspect keeps the bound.           *)
LEMMA QuietBound ==
    ASSUME GateTypeOK, GateControl', Bounded, dead' = dead,
           \A i \in Slots : /\ pid'[i] \in dead <=> pid[i] \in dead
                            /\ Robbed(i)' \subseteq Robbed(i)
                            /\ pid[i] \in dead \/ Stale(i)' \subseteq Stale(i)
    PROVE  Bounded'
<1> SUFFICES ASSUME NEW i \in Slots PROVE BoundAt(i)'
  BY DEF Bounded
<1>1. /\ Cardinality(Robbed(i)') \in Nat /\ Cardinality(Robbed(i)') <= Cardinality(Robbed(i))
  BY Counts, SmallerCount
<1> QED
  BY <1>1, BoundKept DEF Bounded

(* All steps of a caller but the two that remove a file are of this kind.  *)
LEMMA QuietStepBound ==
    ASSUME GateControl, Files, GateControl', Bounded, NEW w \in Callers,
           \/ Begin(w) \/ Wake(w) \/ GiveUp(w) \/ Create(w) \/ Exists(w) \/ Write(w)
           \/ Read(w) \/ Check(w) \/ Return(w)
    PROVE  Bounded'
<1> USE GateAssumption DEF GateAssumption, GateControl
<1>0. /\ dead' = dead
      /\ \A v \in Callers \ {w} : at'[v] = at[v] /\ slot'[v] = slot[v] /\ seen'[v] = seen[v]
  BY DEF Begin, Wake, GiveUp, Scan, Create, Exists, Write, Read, Check, Return, Advance, Goto,
         Forget, GateTypeOK
<1>1. ASSUME NEW i \in Slots PROVE pid'[i] \in dead <=> pid[i] \in dead
  <2>1. pid'[i] = pid[i] \/ (Create(w) /\ i = slot[w]) \/ (Write(w) /\ i = slot[w] /\ file[i] = w)
    BY DEF Begin, Wake, GiveUp, Scan, Create, Exists, Write, Read, Check, Return, Advance,
           PutFile, GateTypeOK
  <2>2. CASE Create(w) /\ i = slot[w]
    BY <2>2 DEF Create, PutFile, GateTypeOK, Files, Signed
  <2>3. CASE Write(w) /\ i = slot[w] /\ file[i] = w
    <3>1. pid'[i] = ProcessOf[w] /\ ProcessOf[w] \notin dead /\ pid[i] \in {Nobody, ProcessOf[w]}
      BY <2>3 DEF Write, GateTypeOK, KilledAreDead, Files, Signed
    <3> QED
      BY <3>1 DEF GateTypeOK
  <2> QED
    BY <2>1, <2>2, <2>3
<1>2. ASSUME NEW i \in Slots PROVE Robbed(i)' \subseteq Robbed(i)
  <2>1. ASSUME NEW v \in Callers, v # w, v \in Robbed(i)' PROVE v \in Robbed(i)
    BY <1>0, <2>1 DEF Robbed, Holders, Begin, Wake, GiveUp, Scan, Create, Exists, Write, Read,
           Check, Return, Advance, PutFile, GateTypeOK, Files, Owned
  <2>2. w \in Robbed(i)' => w \in Robbed(i)
    BY DEF Robbed, Holders, Begin, Wake, GiveUp, Scan, Create, Exists, Write, Read,
           Check, Return, Advance, PutFile, Goto, Forget, Taken, GateTypeOK
  <2> QED
    BY <2>1, <2>2 DEF Robbed, Holders
<1>3. ASSUME NEW i \in Slots, pid[i] \notin dead PROVE Stale(i)' \subseteq Stale(i)
  <2>1. Suspects(w)' =>
           slot'[w] = slot[w] /\ (Suspects(w) \/ (Read(w) /\ pid[slot[w]] \in dead))
    BY DEF Suspects, Begin, Wake, GiveUp, Scan, Create, Exists, Write, Read,
           Check, Return, Advance, Goto, Forget, GateTypeOK
  <2> QED
    BY <1>0, <1>3, <2>1 DEF Stale, Suspects
<1> QED
  BY <1>0, <1>1, <1>2, <1>3, QuietBound

(* The other slots are as they were when the file of slot s is removed.    *)
LEMMA ElsewhereBound ==
    ASSUME GateTypeOK, GateControl', Bounded, dead' = dead,
           NEW s \in Slots, BoundAt(s)',
           \A i \in Slots \ {s} : /\ pid'[i] = pid[i]
                                  /\ Robbed(i)' \subseteq Robbed(i)
                                  /\ Stale(i)' \subseteq Stale(i)
    PROVE  Bounded'
<1> SUFFICES ASSUME NEW i \in Slots \ {s} PROVE BoundAt(i)'
  BY DEF Bounded
<1>1. /\ Cardinality(Robbed(i)') \in Nat /\ Cardinality(Robbed(i)') <= Cardinality(Robbed(i))
  BY Counts, SmallerCount
<1> QED
  BY <1>1, BoundKept DEF Bounded

(* One more dead process raises the bound by the number of other           *)
(* processes.                                                              *)
LEMMA OneMoreTime ==
    ASSUME NEW k \in Int, NEW b \in Int
    PROVE  k * b \in Int /\ (k + 1) * b = k * b + b /\ (k - 1) * b = k * b - b
  OBVIOUS

(* A file whose pid is dead robs nobody when it is removed, and at least   *)
(* one process cannot take the slot over: its dead owner.                  *)
LEMMA DeadFileRemoved ==
    ASSUME GateControl, NEW i \in Slots, BoundAt(i), pid[i] \in dead,
           dead' = dead, pid'[i] = Nobody, GateControl',
           NEW q \in Processes \ dead, q \notin Stale(i)',
           Cardinality(Robbed(i)') \in Nat, Cardinality(Robbed(i)') <= Cardinality(Robbed(i))
    PROVE  BoundAt(i)'
<1> USE DEF GateControl
<1> SUFFICES ASSUME NEW p \in Processes \ dead
             PROVE  Cardinality(Robbed(i)') + Cardinality(Stale(i)' \ {p})
                       <= Cardinality(dead) * (Cardinality(Processes) - 2)
  BY GateAssumption DEF GateAssumption, BoundAt, GateTypeOK
<1>1. Cardinality(dead) \in Nat /\ Cardinality(Processes) \in Nat /\ Cardinality(Robbed(i)) \in Nat
  BY Counts DEF GateTypeOK
<1>2. Cardinality(Robbed(i)) <= (Cardinality(dead) - 1) * (Cardinality(Processes) - 2)
  BY DEF BoundAt
<1>3. Stale(i)' \ {p} \subseteq Processes \ {p, pid[i]} /\ pid[i] # p /\ pid[i] \in Processes
  BY Counts DEF GateTypeOK, Stale, Suspects, KilledAreDead
<1>4. Cardinality(Stale(i)' \ {p}) \in Nat
      /\ Cardinality(Stale(i)' \ {p}) <= Cardinality(Processes) - 2
  BY <1>3, LiveOthers
<1> DEFINE P == Cardinality(Processes) - 2
           K == Cardinality(dead)
<1>5. K * P = (K - 1) * P + P
  BY <1>1
<1> QED
  BY <1>1, <1>2, <1>4, <1>5

(* A takeover: the process that removes the file is a suspect no more, and *)
(* the file may be that of a live process, whose caller is robbed.         *)
LEMMA RemoveBound ==
    ASSUME GateControl, Files, GateControl', Bounded, NEW w \in Callers, Remove(w)
    PROVE  Bounded'
<1> USE GateAssumption DEF GateAssumption, GateControl
<1>i. PICK i \in Slots : i = slot[w]
  BY DEF GateTypeOK
<1> DEFINE q == ProcessOf[w]
           o == file[i]
<1>1. /\ i = slot[w] /\ at[w] = "remove" /\ at' = [at EXCEPT ![w] = "reopen"]
      /\ UNCHANGED <<slot, seen, dead>>
      /\ file' = [file EXCEPT ![i] = Nobody] /\ pid' = [pid EXCEPT ![i] = Nobody]
  BY <1>i DEF Remove, PutFile, Goto, GateTypeOK
<1>2. q \in Processes \ dead /\ q \in Stale(i)
  BY <1>1 DEF GateTypeOK, KilledAreDead, Stale, Suspects
<1>3. Stale(i)' \subseteq Stale(i) \ {q}
  <2>1. \A v \in Callers : ProcessOf[v] = q /\ v # w => at[v] \in Awaiting
    BY <1>1 DEF OneAtATime, Awaiting
  <2>2. \A v \in Callers :
           Suspects(v)' => v # w /\ Suspects(v) /\ slot'[v] = slot[v] /\ at[v] \notin Awaiting
    BY <1>1 DEF Suspects, GateTypeOK, Awaiting
  <2> QED
    BY <2>1, <2>2 DEF Stale
<1>4. Robbed(i)' \subseteq Robbed(i) \cup {o}
  BY <1>1 DEF Robbed, Holders, GateTypeOK, Taken
<1>5. Cardinality(Robbed(i)') \in Nat
  <2>1. Robbed(i)' \subseteq Callers
    BY DEF Robbed, Holders
  <2> QED
    BY <2>1, SmallerCount
<1>6. \A j \in Slots \ {i} : /\ pid'[j] = pid[j]
                             /\ Robbed(j)' \subseteq Robbed(j)
                             /\ Stale(j)' \subseteq Stale(j)
  BY <1>1 DEF Robbed, Holders, Stale, Suspects, GateTypeOK, Taken
<1>7. pid'[i] = Nobody /\ Nobody \notin dead
  BY <1>1 DEF GateTypeOK
<1>8. CASE o = Nobody \/ ProcessOf[o] \in dead
  <2>1. Robbed(i)' \subseteq Robbed(i)
    BY <1>1, <1>4, <1>8 DEF Robbed, Holders, Taken, KilledAreDead, GateTypeOK
  <2>2. Cardinality(Robbed(i)') <= Cardinality(Robbed(i))
    BY <2>1, Counts, SmallerCount
  <2>3. BoundAt(i)'
    <3>1. CASE pid[i] \in dead
      BY <1>1, <1>2, <1>3, <1>5, <1>7, <2>2, <3>1, DeadFileRemoved DEF Bounded
    <3>2. CASE pid[i] \notin dead
      BY <1>1, <1>3, <1>5, <1>7, <2>2, <3>2, BoundKept DEF Bounded
    <3> QED
      BY <3>1, <3>2
  <2> QED
    BY <1>1, <1>6, <2>3, ElsewhereBound
<1>9. CASE o # Nobody /\ ProcessOf[o] \notin dead
  <2> DEFINE s == ProcessOf[o]
  <2>1. o \in Callers /\ s \in Processes \ dead /\ pid[i] \notin dead
    BY <1>1, <1>9 DEF GateTypeOK, Files, Signed
  <2>2. s \notin Stale(i)
    BY <1>1, <1>9, <2>1 DEF Stale, Suspects, Files, NotItsOwn
  <2>3. Cardinality(Robbed(i)) + Cardinality(Stale(i))
           <= Cardinality(dead) * (Cardinality(Processes) - 2)
    <3>1. Stale(i) \ {s} = Stale(i)
      BY <2>2
    <3> QED
      BY <1>1, <2>1, <3>1 DEF Bounded, BoundAt
  <2>4. Cardinality(Robbed(i)') <= Cardinality(Robbed(i)) + 1
    <3>1. /\ IsFiniteSet(Robbed(i) \cup {o})
          /\ Cardinality(Robbed(i) \cup {o}) <= Cardinality(Robbed(i)) + 1
      BY Counts, FS_AddElement
    <3> QED
      BY <1>4, <3>1, Counts, SmallerCount
  <2>5. ASSUME NEW p \in Processes
        PROVE  /\ Cardinality(Stale(i)' \ {p}) \in Nat
               /\ Cardinality(Stale(i)' \ {p}) <= Cardinality(Stale(i)) - 1
    <3>1. IsFiniteSet(Stale(i)) /\ Cardinality(Stale(i)) \in Nat
      BY Counts
    <3>2. IsFiniteSet(Stale(i) \ {q}) /\ Cardinality(Stale(i) \ {q}) = Cardinality(Stale(i)) - 1
      BY <1>2, <3>1, FS_RemoveElement
    <3>3. Stale(i)' \ {p} \subseteq Stale(i) \ {q}
      BY <1>3
    <3> QED
      BY <3>2, <3>3, SmallerCount
  <2>6. BoundAt(i)'
    <3> SUFFICES ASSUME NEW p \in Processes \ dead
                 PROVE  Cardinality(Robbed(i)') + Cardinality(Stale(i)' \ {p})
                           <= Cardinality(dead) * (Cardinality(Processes) - 2)
      BY <1>1, <1>7 DEF BoundAt
    <3>1. /\ Cardinality(Robbed(i)) \in Nat /\ Cardinality(Stale(i)) \in Nat
          /\ Cardinality(dead) * (Cardinality(Processes) - 2) \in Int
      BY Counts DEF GateTypeOK
    <3> QED
      BY <1>5, <2>3, <2>4, <2>5, <3>1
  <2> QED
    BY <1>1, <1>6, <2>6, ElsewhereBound
<1> QED
  BY <1>8, <1>9

(* A release may remove a file another process created meanwhile: a robbed *)
(* caller gives its slot back and robs another one.                        *)
LEMMA UnlinkBound ==
    ASSUME GateControl, Files, GateControl', Bounded, NEW w \in Callers, Unlink(w)
    PROVE  Bounded'
<1> USE GateAssumption DEF GateAssumption, GateControl
<1>i. PICK i \in Slots : i = slot[w]
  BY DEF GateTypeOK
<1> DEFINE q == ProcessOf[w]
           o == file[i]
<1>1. /\ i = slot[w] /\ at[w] = "unlink" /\ at' = [at EXCEPT ![w] = "idle"]
      /\ slot' = [slot EXCEPT ![w] = 1] /\ UNCHANGED <<seen, dead>>
      /\ file' = [file EXCEPT ![i] = Nobody] /\ pid' = [pid EXCEPT ![i] = Nobody]
  BY <1>i DEF Unlink, PutFile, Forget, Goto, GateTypeOK
<1>2. q \in Processes \ dead
  BY <1>1 DEF GateTypeOK, KilledAreDead
<1>3. \A j \in Slots : Stale(j)' \subseteq Stale(j)
  BY <1>1 DEF Stale, Suspects, GateTypeOK
<1>4. q \notin Stale(i)'
  <2>1. \A v \in Callers : ProcessOf[v] = q => at'[v] \in Awaiting
    BY <1>1 DEF OneAtATime, Awaiting, GateTypeOK
  <2> QED
    BY <2>1 DEF Stale, Suspects, Awaiting
<1>5. Cardinality(Robbed(i)') \in Nat /\ Cardinality(Robbed(i)) \in Nat
  <2>1. Robbed(i)' \subseteq Callers
    BY DEF Robbed, Holders
  <2> QED
    BY <2>1, Counts, SmallerCount
<1>6. \A j \in Slots \ {i} : /\ pid'[j] = pid[j]
                             /\ Robbed(j)' \subseteq Robbed(j)
  BY <1>1 DEF Robbed, Holders, GateTypeOK, Taken
<1>7. pid'[i] = Nobody /\ Nobody \notin dead
  BY <1>1 DEF GateTypeOK
<1>8. Cardinality(Robbed(i)') <= Cardinality(Robbed(i))
  <2>1. CASE o = w
    <3>1. Robbed(i)' \subseteq Robbed(i)
      BY <1>1, <2>1 DEF Robbed, Holders, GateTypeOK, Taken
    <3> QED
      BY <3>1, Counts, SmallerCount
  <2>2. CASE o # w
    <3> DEFINE A == Robbed(i) \ {w}
    <3>1. w \in Robbed(i) /\ Robbed(i)' \subseteq A \cup {o}
      BY <1>1, <2>2 DEF Robbed, Holders, GateTypeOK, Taken
    <3>2. IsFiniteSet(A) /\ Cardinality(A) = Cardinality(Robbed(i)) - 1
      BY <3>1, Counts, FS_RemoveElement
    <3> HIDE DEF A
    <3>5. Cardinality(A) \in Nat
      BY <3>2, FS_CardinalityType
    <3>3. IsFiniteSet(A \cup {o}) /\ Cardinality(A \cup {o}) <= Cardinality(A) + 1
      <4>1. IsFiniteSet(A)
        BY <3>2
      <4>2. /\ IsFiniteSet(A \cup {o})
            /\ Cardinality(A \cup {o}) = IF o \in A THEN Cardinality(A) ELSE Cardinality(A) + 1
        BY ONLY <4>1, FS_AddElement
      <4> QED
        BY <3>5, <4>2
    <3>4. Cardinality(Robbed(i)') <= Cardinality(A \cup {o}) /\ Cardinality(A \cup {o}) \in Nat
      BY <3>1, <3>3, SmallerCount
    <3> QED
      BY <1>5, <3>2, <3>3, <3>4
  <2> QED
    BY <2>1, <2>2
<1>9. BoundAt(i)'
  <2>1. CASE pid[i] \in dead
    BY <1>1, <1>2, <1>4, <1>5, <1>7, <1>8, <2>1, DeadFileRemoved DEF Bounded
  <2>2. CASE pid[i] \notin dead
    BY <1>1, <1>3, <1>5, <1>7, <1>8, <2>2, BoundKept DEF Bounded
  <2> QED
    BY <2>1, <2>2
<1> QED
  BY <1>1, <1>3, <1>6, <1>9, ElsewhereBound

(* A killed process makes suspects of all the other processes at most.     *)
LEMMA KillBound ==
    ASSUME GateControl, Files, GateControl', Bounded, NEW s \in Processes, Kill(s)
    PROVE  Bounded'
<1> USE GateAssumption DEF GateAssumption, GateControl
<1> SUFFICES ASSUME NEW i \in Slots, NEW p \in Processes \ dead'
             PROVE  IF pid'[i] \in dead'
                      THEN Cardinality(Robbed(i)')
                              <= (Cardinality(dead') - 1) * (Cardinality(Processes) - 2)
                      ELSE Cardinality(Robbed(i)') + Cardinality(Stale(i)' \ {p})
                              <= Cardinality(dead') * (Cardinality(Processes) - 2)
  BY DEF Bounded, BoundAt
<1> DEFINE K == Cardinality(dead)
           P == Cardinality(Processes) - 2
<1>1. /\ s \notin dead /\ dead' = dead \cup {s} /\ UNCHANGED <<slot, seen, file, pid>>
      /\ \A v \in Callers : at'[v] = at[v] \/ at'[v] = "killed"
  BY DEF Kill, GateTypeOK
<1>2. Cardinality(dead') = K + 1 /\ K \in Nat
  BY <1>1, Counts, FS_AddElement DEF GateTypeOK
<1>3. /\ Cardinality(Robbed(i)') <= Cardinality(Robbed(i))
      /\ Cardinality(Robbed(i)') \in Nat /\ Cardinality(Robbed(i)) \in Nat
  <2>1. Robbed(i)' \subseteq Robbed(i)
    BY <1>1 DEF Robbed, Holders, Taken
  <2> QED
    BY <2>1, Counts, SmallerCount
<1>4. /\ Cardinality(Stale(i)' \ {p}) \in Nat
      /\ Cardinality(Stale(i)' \ {p}) <= P
  <2>1. Stale(i)' \ {p} \subseteq Processes \ {p, s} /\ p # s
    BY <1>1 DEF Stale, Suspects, KilledAreDead
  <2> QED
    BY <2>1, LiveOthers
<1>5. p \in Processes \ dead /\ P \in Int /\ 0 <= P
  BY <1>1, <1>4, Counts
<1>6. Cardinality(Robbed(i)) <= K * P
  <2>1. CASE pid[i] \in dead
    <3>1. Cardinality(Robbed(i)) <= (K - 1) * P
      BY <1>5, <2>1 DEF Bounded, BoundAt
    <3>2. K * P = (K - 1) * P + P
      BY <1>2, <1>5
    <3> QED
      BY <1>2, <1>3, <1>5, <3>1, <3>2
  <2>2. CASE pid[i] \notin dead
    <3>1. Cardinality(Robbed(i)) + Cardinality(Stale(i) \ {p}) <= K * P
      BY <1>5, <2>2 DEF Bounded, BoundAt
    <3>2. Cardinality(Stale(i) \ {p}) \in Nat
      BY Counts
    <3>3. K * P \in Int
      BY <1>2, <1>5, OneMoreTime
    <3> QED
      BY <1>3, <3>1, <3>2, <3>3
  <2> QED
    BY <2>1, <2>2
<1>7. (K + 1) * P = K * P + P /\ K * P \in Int
  <2>1. K \in Int /\ P \in Int
    BY <1>2, <1>5
  <2> QED
    BY ONLY <2>1, OneMoreTime
<1>8. ((K + 1) - 1) * P = K * P
  <2>1. (K + 1) - 1 = K
    BY <1>2
  <2> QED
    BY <2>1
<1> QED
  BY <1>2, <1>3, <1>4, <1>5, <1>6, <1>7, <1>8

---------------------------------------------------------------------------
(* What the gate guarantees.                                               *)

(* The inductive invariant of the gate.                                    *)
GateIInv == GateControl /\ Files /\ Bounded

(* No file, no call, nobody dead.                                          *)
LEMMA InitGateIInv == GateInit => GateIInv
<1> SUFFICES ASSUME GateInit PROVE GateIInv
  OBVIOUS
<1> USE GateAssumption DEF GateAssumption
<1>1. GateTypeOK
  <2>1. "idle" \in AtValue /\ 1 \in Slots
    BY DEF AtValue, Slots
  <2> QED
    BY <2>1 DEF GateInit, GateTypeOK
<1>2. OneAtATime /\ KilledAreDead
  BY DEF GateInit, OneAtATime, KilledAreDead, Awaiting
<1>3. Files
  BY DEF GateInit, Files, Owned, Signed, NotItsOwn, OneEmptyEach
<1>4. Bounded
  <2> SUFFICES ASSUME NEW i \in Slots, NEW p \in Processes
               PROVE  Cardinality(Robbed(i)) + Cardinality(Stale(i) \ {p})
                         <= Cardinality(dead) * (Cardinality(Processes) - 2)
    BY DEF GateInit, Bounded, BoundAt
  <2>1. Robbed(i) = {} /\ Stale(i) \ {p} = {} /\ dead = {}
    BY DEF GateInit, Robbed, Holders, Taken, Stale, Suspects
  <2>2. Cardinality(Robbed(i)) = 0 /\ Cardinality(Stale(i) \ {p}) = 0 /\ Cardinality(dead) = 0
    BY <2>1, FS_EmptySet
  <2>3. Cardinality(Processes) - 2 \in Int
    BY FS_CardinalityType
  <2>4. 0 * (Cardinality(Processes) - 2) = 0
    BY <2>3
  <2> QED
    BY ONLY <2>2, <2>4
<1> QED
  BY <1>1, <1>2, <1>3, <1>4 DEF GateIInv, GateControl

(* Every step of the gate keeps the invariant.                             *)
LEMMA StepGateIInv == GateIInv /\ [GateNext]_gateVars => GateIInv'
<1> SUFFICES ASSUME GateIInv, [GateNext]_gateVars PROVE GateIInv'
  OBVIOUS
<1>1. GateControl' /\ Files'
  BY GateStepTypeOK, StepOneAtATime, StepKilledAreDead, StepFiles DEF GateIInv, GateControl
<1>2. ASSUME NEW w \in Callers, CallerStep(w) PROVE Bounded'
  BY <1>1, <1>2, QuietStepBound, RemoveBound, UnlinkBound DEF GateIInv, CallerStep, Synchronous
<1>3. ASSUME NEW p \in Processes, Kill(p) PROVE Bounded'
  BY <1>1, <1>3, KillBound DEF GateIInv
<1>4. CASE UNCHANGED gateVars
  <2>1. UNCHANGED <<at, slot, seen, file, pid, dead>>
    BY <1>4 DEF gateVars
  <2>2. \A i \in Slots : Robbed(i)' = Robbed(i) /\ Stale(i)' = Stale(i)
    BY <2>1 DEF Robbed, Stale, Holders, Suspects
  <2> QED
    BY <1>1, <2>1, <2>2, QuietBound DEF GateIInv, GateControl
<1> QED
  BY <1>1, <1>2, <1>3, <1>4 DEF GateIInv, GateNext

(* The invariant holds for the gate, whoever uses it.                      *)
LEMMA GateIInvHolds == GateSpec => []GateIInv
  BY InitGateIInv, StepGateIInv, PTL DEF GateSpec

(* The bound on the calls made with one slot, from that on the robbed ones. *)
LEMMA BoundedCalls == GateIInv => SlotsBoundCalls
<1> SUFFICES ASSUME GateIInv PROVE SlotsBoundCalls
  OBVIOUS
<1> USE GateAssumption DEF GateAssumption, GateIInv, GateControl
<1> DEFINE K == Cardinality(dead)
           P == Cardinality(Processes)
<1>1. /\ K \in Nat /\ P \in Nat /\ K <= P
      /\ IsFiniteSet(Callers) /\ IsFiniteSet(Processes)
  BY SmallerCount DEF GateTypeOK
<1>m. /\ K * (P - 2) \in Int /\ (K - 1) * (P - 2) = K * (P - 2) - (P - 2)
      /\ K * (P - 2) >= -1
  <2>1. K \in Int /\ P - 2 \in Int
    BY <1>1
  <2>2. K * (P - 2) \in Int /\ (K - 1) * (P - 2) = K * (P - 2) - (P - 2)
    BY ONLY <2>1, OneMoreTime
  <2>3. CASE P >= 2
    <3>1. \A k, b \in Nat : k * b >= 0
      OBVIOUS
    <3>2. P - 2 \in Nat
      BY <1>1, <2>3
    <3> HIDE DEF K, P
    <3> QED
      BY <1>1, <2>2, <3>1, <3>2
  <2>4. CASE P = 1
    <3> HIDE DEF K, P
    <3>1. K * (P - 2) = -K /\ K \in 0 .. 1
      BY <1>1, <2>4
    <3> QED
      BY <2>2, <3>1
  <2>5. CASE P = 0
    <3> HIDE DEF K, P
    <3>1. K = 0
      BY <1>1, <2>5
    <3> QED
      BY <2>2, <2>5, <3>1
  <2> HIDE DEF K, P
  <2>6. P >= 2 \/ P = 1 \/ P = 0
    BY <1>1
  <2> QED
    BY <2>2, <2>3, <2>4, <2>5, <2>6
<1>2. ASSUME NEW w \in Holders
      PROVE  /\ w \in Callers /\ slot[w] \in Slots /\ ProcessOf[w] \in Processes \ dead
  BY <1>2 DEF Holders, Taken, GateTypeOK, KilledAreDead
<1>3. ASSUME dead = {}, NEW w \in Holders PROVE file[slot[w]] = w
  <2> DEFINE i == slot[w]
             p == ProcessOf[w]
  <2>1. K = 0
    BY <1>3, FS_EmptySet
  <2>2. Cardinality(Robbed(i)) + Cardinality(Stale(i) \ {p}) <= K * (P - 2)
    BY <1>2, <1>3 DEF Bounded, BoundAt
  <2>3. /\ Cardinality(Robbed(i)) \in Nat /\ Cardinality(Stale(i) \ {p}) \in Nat
        /\ IsFiniteSet(Robbed(i))
    BY Counts
  <2>4. K * (P - 2) = 0
    <3> HIDE DEF K, P
    <3> QED
      BY <1>1, <2>1
  <2>5. Cardinality(Robbed(i)) = 0
    <3> HIDE DEF K, P
    <3> QED
      BY <2>2, <2>3, <2>4
  <2>6. Robbed(i) = {}
    BY <2>3, <2>5, FS_EmptySet
  <2> QED
    BY <2>6 DEF Robbed
<1>4. ASSUME NEW i \in Slots
      PROVE  Cardinality({w \in Holders : slot[w] = i}) <= 1 + K * (P - 2)
  <2> DEFINE H == {w \in Holders : slot[w] = i}
  <2>1. CASE H = {}
    <3>1. Cardinality(H) = 0
      BY <2>1, FS_EmptySet
    <3>2. K * (P - 2) \in Int /\ K * (P - 2) >= -1
      BY <1>m
    <3> DEFINE M == K * (P - 2)
    <3> HIDE DEF M
    <3>3. 0 <= 1 + M
      BY ONLY <3>2 DEF M
    <3> QED
      BY <3>1, <3>3 DEF M
  <2>2. CASE H # {}
    <3>1. PICK w \in Holders : slot[w] = i
      BY <2>2
    <3>2. ProcessOf[w] \in Processes \ dead
      BY <1>2
    <3>3. Cardinality(Robbed(i)) \in Nat /\ IsFiniteSet(Robbed(i))
      BY Counts
    <3>4. P >= 1
      <4>1. P # 0
        BY <1>1, <3>2, FS_EmptySet
      <4> HIDE DEF P
      <4> QED
        BY <1>1, <4>1
    <3>5. CASE pid[i] \in dead
      <4>1. H = Robbed(i)
        BY <3>5 DEF Robbed, Holders, Taken, Files, Signed, KilledAreDead, GateTypeOK
      <4>2. Cardinality(Robbed(i)) <= (K - 1) * (P - 2)
        BY <3>2, <3>5 DEF Bounded, BoundAt
      <4>3. (K - 1) * (P - 2) <= 1 + K * (P - 2)
        <5> DEFINE M == K * (P - 2)
        <5>1. M \in Int /\ (K - 1) * (P - 2) = M - (P - 2) /\ P - 2 >= -1 /\ P - 2 \in Int
          BY <1>1, <1>m, <3>4
        <5> DEFINE D == P - 2
        <5> HIDE DEF M
        <5>2. M - D <= 1 + M
          <6> HIDE DEF D
          <6>1. M \in Int /\ D \in Int /\ D >= -1
            BY <5>1 DEF D
          <6> QED
            BY ONLY <6>1
        <5> QED
          BY ONLY <5>1, <5>2 DEF M
      <4>4. (K - 1) * (P - 2) \in Int /\ 1 + K * (P - 2) \in Int
        BY <1>1, <1>m
      <4> DEFINE A == (K - 1) * (P - 2)
                 B == 1 + K * (P - 2)
      <4>5. A \in Int /\ B \in Int /\ A <= B /\ Cardinality(H) \in Nat /\ Cardinality(H) <= A
        BY <3>3, <4>1, <4>2, <4>3, <4>4
      <4> HIDE DEF A, B
      <4>6. Cardinality(H) <= B
        BY ONLY <4>5
      <4> QED
        BY <4>6 DEF B
    <3>6. CASE pid[i] \notin dead
      <4>1. H \subseteq Robbed(i) \cup {file[i]}
        BY DEF Robbed
      <4>2. /\ IsFiniteSet(Robbed(i) \cup {file[i]})
            /\ Cardinality(Robbed(i) \cup {file[i]}) <= Cardinality(Robbed(i)) + 1
        <5>1. IsFiniteSet(Robbed(i))
          BY <3>3
        <5>2. /\ IsFiniteSet(Robbed(i) \cup {file[i]})
              /\ Cardinality(Robbed(i) \cup {file[i]}) = IF file[i] \in Robbed(i)
                    THEN Cardinality(Robbed(i)) ELSE Cardinality(Robbed(i)) + 1
          BY ONLY <5>1, FS_AddElement
        <5> QED
          BY <3>3, <5>2
      <4>3. /\ Cardinality(H) <= Cardinality(Robbed(i) \cup {file[i]})
            /\ Cardinality(H) \in Nat /\ Cardinality(Robbed(i) \cup {file[i]}) \in Nat
        BY <4>1, <4>2, SmallerCount
      <4>4. Cardinality(Robbed(i)) + Cardinality(Stale(i) \ {ProcessOf[w]}) <= K * (P - 2)
        BY <3>2, <3>6 DEF Bounded, BoundAt
      <4>5. Cardinality(Stale(i) \ {ProcessOf[w]}) \in Nat
        BY Counts
      <4> DEFINE M == K * (P - 2)
                 R == Cardinality(Robbed(i))
                 U == Cardinality(Robbed(i) \cup {file[i]})
                 S == Cardinality(Stale(i) \ {ProcessOf[w]})
      <4>6. /\ M \in Int /\ R \in Nat /\ U \in Nat /\ S \in Nat /\ Cardinality(H) \in Nat
            /\ Cardinality(H) <= U /\ U <= R + 1 /\ R + S <= M
        BY <1>m, <3>3, <4>2, <4>3, <4>4, <4>5
      <4> HIDE DEF M, R, U, S
      <4>7. Cardinality(H) <= 1 + M
        BY ONLY <4>6
      <4> QED
        BY <4>7 DEF M
    <3> QED
      BY <3>5, <3>6
  <2> QED
    BY <2>1, <2>2
<1> QED
  BY <1>3, <1>4 DEF SlotsBoundCalls

(* What the files say, as the run states it.                               *)
LEMMA FilesInHand == GateIInv => NoSlotForgotten
  BY DEF GateIInv, Files, Owned, OneEmptyEach, NoSlotForgotten, Lost

---------------------------------------------------------------------------
(* The ensembles at the gate.                                              *)

(* A caller is a turn, a lane of an ensemble, or neither.                  *)
LEMMA CallersSplit ==
    /\ Turns \subseteq Callers /\ Lanes \subseteq Callers /\ Plain \subseteq Callers
    /\ Turns \cap Lanes = {} /\ Plain \cap (Turns \cup Lanes) = {}
    /\ \A p \in Ensembles : /\ p \in Processes /\ TurnOf[p] \in Turns /\ ProcessOf[TurnOf[p]] = p
                            /\ LanesOf(p) \subseteq Lanes
    /\ \A w \in Turns \cup Lanes : ProcessOf[w] \in Ensembles
    /\ \A w \in Turns : w = TurnOf[ProcessOf[w]]
  BY EnsembleAssumption DEF EnsembleAssumption, Turns, Lanes, Plain, LanesOf

(* Each step of a turn or lane takes one step at the gate or none.         *)
LEMMA StepIsGateStep == [Next]_vars => [GateNext]_gateVars
<1> SUFFICES ASSUME [Next]_vars PROVE [GateNext]_gateVars
  OBVIOUS
<1>1. ASSUME NEW w \in Plain, CallerStep(w) PROVE GateNext
  BY <1>1, CallersSplit DEF GateNext
<1>2. ASSUME NEW w \in Turns \cup Lanes, TryAgain(w) \/ CallEnds(w) \/ Synchronous(w)
      PROVE  [GateNext]_gateVars
  BY <1>2, CallersSplit DEF GateNext, CallerStep, TryAgain, CallEnds
<1>3. ASSUME NEW w \in Lanes, LaneStep(w) \/ Pull(w) PROVE [GateNext]_gateVars
  BY <1>3, CallersSplit DEF GateNext, CallerStep, LaneStep, LaneBegin, LaneReturn, LaneGiveUp, Pull
<1>4. ASSUME NEW p \in Ensembles, TurnStep(p) PROVE [GateNext]_gateVars
  <2>1. TurnOf[p] \in Callers
    BY CallersSplit
  <2> QED
    BY <1>4, <2>1 DEF GateNext, CallerStep, TurnStep, FanOut, Synthesize, EndTurn, Abort, TurnGiveUp
<1>5. ASSUME NEW p \in Processes, Kill(p) PROVE GateNext
  BY <1>5 DEF GateNext
<1>6. CASE UNCHANGED vars
  BY <1>6 DEF vars
<1> QED
  BY <1>1, <1>2, <1>3, <1>4, <1>5, <1>6 DEF Next

(* Turns and lanes use the gate by its operations alone: acquire and       *)
(* release are called by ensemble.ts and the turn hooks in no other order  *)
(* than api-gate.ts allows, so what is proved of the gate is true of them. *)
THEOREM EnsembleUsesGate == Spec => GateSpec
<1>1. Init => GateInit
  BY DEF Init
<1> QED
  BY <1>1, StepIsGateStep, PTL DEF Spec, GateSpec

(* At most n model calls are made at once while no process was killed, and *)
(* each killed process lets at most P - 2 calls too many through in a      *)
(* slot, for any number P of processes, callers and slots (api-gate.ts:2,  *)
(* :6-10).                                                                 *)
THEOREM SlotsBoundCallsHolds == Spec => []SlotsBoundCalls
  BY EnsembleUsesGate, GateIInvHolds, BoundedCalls, PTL

(* No slot is lost while its process lives, and each killed process loses  *)
(* at most one for good (api-gate.ts:48), for any processes, callers and   *)
(* slots.                                                                  *)
THEOREM NoSlotForgottenHolds == Spec => []NoSlotForgotten
  BY EnsembleUsesGate, GateIInvHolds, FilesInHand, PTL

(* Types of the turns' state, the signals' apart.                          *)
PhaseTypeOK ==
    /\ phase \in [Ensembles -> {"none", "candidates", "synthesis"}]
    /\ left \in [Ensembles -> 0..Candidates]
    /\ doing \in SUBSET (Turns \cup Lanes)
    /\ begun \in SUBSET Lanes

SignalTypeOK == aborted \in [Ensembles -> BOOLEAN]

(* A turn under way has its slot.                                          *)
TurnHasSlot ==
    \A p \in Ensembles : phase[p] # "none" => at[TurnOf[p]] \in {"calling", "killed"}

(* The inductive invariant of the ensembles.                               *)
TurnIInv == GateIInv /\ PhaseTypeOK /\ SignalTypeOK /\ TurnOK /\ TurnHasSlot

(* No turn has begun.                                                      *)
LEMMA InitTurnIInv == Init => TurnIInv
<1> SUFFICES ASSUME Init PROVE TurnIInv
  OBVIOUS
<1>1. GateIInv
  BY InitGateIInv DEF Init
<1>2. PhaseTypeOK
  BY EnsembleAssumption DEF EnsembleAssumption, Init, PhaseTypeOK
<1>3. SignalTypeOK
  BY DEF Init, SignalTypeOK
<1>4. TurnOK /\ TurnHasSlot
  BY DEF Init, TurnOK, TurnHasSlot
<1> QED
  BY <1>1, <1>2, <1>3, <1>4 DEF TurnIInv

(* The turns' signals.                                                     *)
LEMMA StepSignalTypeOK == SignalTypeOK /\ [Next]_vars => SignalTypeOK'
<1> SUFFICES ASSUME SignalTypeOK, [Next]_vars PROVE SignalTypeOK'
  OBVIOUS
<1>1. ASSUME NEW w \in Callers,
             TryAgain(w) \/ CallEnds(w) \/ LaneStep(w) \/ Pull(w)
      PROVE  SignalTypeOK'
  BY <1>1 DEF SignalTypeOK, TryAgain, CallEnds, LaneStep, LaneBegin, LaneReturn, LaneGiveUp, Pull,
              turnVars
<1>2. ASSUME NEW p \in Ensembles, TurnStep(p) PROVE SignalTypeOK'
  BY <1>2 DEF SignalTypeOK, TurnStep, FanOut, Synthesize, EndTurn, Abort, TurnGiveUp, turnVars
<1>3. CASE UNCHANGED turnVars
  BY <1>3 DEF SignalTypeOK, turnVars
<1> QED
  BY <1>1, <1>2, <1>3, CallersSplit DEF Next, vars

(* A turn keeps its slot to its end, its candidates are pulled within it,  *)
(* and a call of a turn or lane is made by one that has a slot.            *)
LEMMA StepPhase ==
    GateIInv /\ PhaseTypeOK /\ TurnOK /\ TurnHasSlot /\ [Next]_vars
        => PhaseTypeOK' /\ TurnOK' /\ TurnHasSlot'
<1> SUFFICES ASSUME GateIInv, PhaseTypeOK, TurnOK, TurnHasSlot, [Next]_vars
             PROVE  PhaseTypeOK' /\ TurnOK' /\ TurnHasSlot'
  OBVIOUS
<1> USE DEF GateIInv, GateControl, PhaseTypeOK, TurnOK, TurnHasSlot
<1>0. GateTypeOK
  OBVIOUS
<1>c. Candidates \in Nat \ {0}
  BY EnsembleAssumption
<1>1. ASSUME NEW w \in Callers, CallerStep(w), UNCHANGED turnVars,
             at[w] # "calling" \/ (w \notin doing /\ \A p \in Ensembles : w # TurnOf[p])
      PROVE  PhaseTypeOK' /\ TurnOK' /\ TurnHasSlot'
  <2>1. /\ UNCHANGED <<phase, left, doing, begun>>
        /\ \A v \in Callers \ {w} : at'[v] = at[v]
        /\ at[w] # "killed"
    BY <1>1, <1>0 DEF turnVars, CallerStep, Synchronous, Begin, Wake, GiveUp, Scan, Create, Exists,
           Read, Check, Remove, Unlink, Write, Return, Advance, Forget, Goto, GateTypeOK
  <2> QED
    BY <1>1, <2>1, CallersSplit
<1>2. ASSUME NEW w \in Turns \cup Lanes, CallEnds(w)
      PROVE  PhaseTypeOK' /\ TurnOK' /\ TurnHasSlot'
  <2>1. ProcessOf[w] \in Ensembles
    BY CallersSplit
  <2> QED
    BY <1>2, <1>c, <2>1 DEF CallEnds, gateVars
<1>3. ASSUME NEW w \in Lanes, Pull(w) PROVE PhaseTypeOK' /\ TurnOK' /\ TurnHasSlot'
  <2>1. ProcessOf[w] \in Ensembles
    BY CallersSplit
  <2> QED
    BY <1>3, <1>c, <2>1 DEF Pull, gateVars
<1>4. ASSUME NEW w \in Lanes, LaneBegin(w) PROVE PhaseTypeOK' /\ TurnOK' /\ TurnHasSlot'
  <2>1. \A v \in Callers : at'[v] = at[v] \/ (at[v] \in {"idle"} /\ v = w)
    BY <1>4, <1>0 DEF LaneBegin, Begin, Scan, Goto, GateTypeOK, gateVars
  <2> QED
    BY <1>4, <2>1, CallersSplit DEF LaneBegin
<1>5. ASSUME NEW p \in Ensembles, FanOut(p) PROVE PhaseTypeOK' /\ TurnOK' /\ TurnHasSlot'
  BY <1>5, <1>c, CallersSplit DEF FanOut, gateVars
<1>6. ASSUME NEW p \in Ensembles, Synthesize(p) PROVE PhaseTypeOK' /\ TurnOK' /\ TurnHasSlot'
  <2>1. at[TurnOf[p]] = "calling"
    BY <1>6, <1>0, CallersSplit DEF Synthesize, Drained, KilledAreDead
  <2> QED
    BY <1>6, <2>1, CallersSplit DEF Synthesize, Drained, gateVars, LanesOf
<1>7. ASSUME NEW p \in Ensembles, EndTurn(p) PROVE PhaseTypeOK' /\ TurnOK' /\ TurnHasSlot'
  <2>1. /\ phase[p] = "synthesis" /\ phase' = [phase EXCEPT ![p] = "none"]
        /\ doing' = doing \ {TurnOf[p]} /\ UNCHANGED <<left, begun>>
        /\ \A v \in Callers \ {TurnOf[p]} : at'[v] = at[v]
    BY <1>7, <1>0 DEF EndTurn, Return, Forget, Goto, GateTypeOK
  <2> QED
    BY <2>1, CallersSplit
<1>8. ASSUME NEW p \in Ensembles, Abort(p) PROVE PhaseTypeOK' /\ TurnOK' /\ TurnHasSlot'
  BY <1>8 DEF Abort, gateVars
<1>9. ASSUME NEW p \in Ensembles, TurnGiveUp(p) PROVE PhaseTypeOK' /\ TurnOK' /\ TurnHasSlot'
  <2>1. /\ UNCHANGED <<phase, left, doing, begun>> /\ at[TurnOf[p]] = "asleep"
        /\ \A v \in Callers \ {TurnOf[p]} : at'[v] = at[v]
    BY <1>9, <1>0 DEF TurnGiveUp, GiveUp, Goto, GateTypeOK
  <2> QED
    BY <2>1, CallersSplit
<1>10. ASSUME NEW p \in Processes, Kill(p), UNCHANGED turnVars
       PROVE  PhaseTypeOK' /\ TurnOK' /\ TurnHasSlot'
  BY <1>10, CallersSplit DEF Kill, turnVars
<1>11. CASE UNCHANGED vars
  BY <1>11 DEF vars, gateVars, turnVars
<1> HIDE DEF PhaseTypeOK, TurnOK, TurnHasSlot, GateIInv
<1>12. ASSUME NEW w \in Plain, CallerStep(w), UNCHANGED turnVars
       PROVE  PhaseTypeOK' /\ TurnOK' /\ TurnHasSlot'
  <2>1. w \in Callers /\ w \notin doing /\ \A p \in Ensembles : w # TurnOf[p]
    BY CallersSplit DEF PhaseTypeOK
  <2> QED
    BY <1>1, <1>12, <2>1
<1>13. ASSUME NEW w \in Turns \cup Lanes, Synchronous(w) \/ Wake(w) \/ Begin(w) \/ GiveUp(w),
             UNCHANGED turnVars
       PROVE  PhaseTypeOK' /\ TurnOK' /\ TurnHasSlot'
  <2>1. w \in Callers /\ CallerStep(w) /\ at[w] # "calling"
    BY <1>13, CallersSplit DEF CallerStep, Synchronous, Begin, Wake, GiveUp, Create, Exists,
           Read, Check, Remove, Unlink, Write
  <2>2. UNCHANGED turnVars
    BY <1>13
  <2>3. at[w] # "calling" \/ (w \notin doing /\ \A p \in Ensembles : w # TurnOf[p])
    BY <2>1
  <2>4. w \in Callers /\ CallerStep(w)
    BY <2>1
  <2> QED
    BY <1>1, <2>2, <2>3, <2>4
<1>14. ASSUME NEW w \in Lanes, LaneReturn(w) PROVE PhaseTypeOK' /\ TurnOK' /\ TurnHasSlot'
  BY <1>1, <1>14, CallersSplit DEF LaneReturn, CallerStep
<1>15. ASSUME NEW p \in Ensembles, TurnStep(p) PROVE PhaseTypeOK' /\ TurnOK' /\ TurnHasSlot'
  <2>1. TurnOf[p] \in Turns \cup Lanes
    BY CallersSplit
  <2> QED
    BY <1>15, <1>5, <1>6, <1>7, <1>8, <1>9, <1>13, <2>1 DEF TurnStep
<1>16. ASSUME NEW w \in Lanes, LaneStep(w) \/ Pull(w) PROVE PhaseTypeOK' /\ TurnOK' /\ TurnHasSlot'
  BY <1>16, <1>3, <1>4, <1>13, <1>14 DEF LaneStep, LaneGiveUp
<1>17. ASSUME NEW w \in Turns \cup Lanes,
              TryAgain(w) \/ CallEnds(w) \/ (Synchronous(w) /\ UNCHANGED turnVars)
       PROVE  PhaseTypeOK' /\ TurnOK' /\ TurnHasSlot'
  BY <1>17, <1>2, <1>13 DEF TryAgain
<1> QED
  BY <1>10, <1>11, <1>12, <1>15, <1>16, <1>17 DEF Next

(* The invariant holds for the ensembles.                                  *)
LEMMA TurnIInvHolds == Spec => []TurnIInv
<1>1. TurnIInv /\ [Next]_vars => TurnIInv'
  BY StepIsGateStep, StepGateIInv, StepSignalTypeOK, StepPhase DEF TurnIInv
<1> QED
  BY <1>1, InitTurnIInv, PTL DEF Spec

(* Every variable keeps its type, a call of an ensemble is made with a     *)
(* slot, and candidates are pulled and lanes begun only within a turn      *)
(* (ensemble.ts:242-282).                                                  *)
THEOREM EnsembleTypeCorrect == Spec => []TypeOK
<1>1. TurnIInv => TypeOK
  BY DEF TurnIInv, GateIInv, GateControl, PhaseTypeOK, SignalTypeOK, TypeOK
<1> QED
  BY <1>1, TurnIInvHolds, PTL
=============================================================================
