--------------------------- MODULE SchedulerProofs --------------------------
(***************************************************************************)
(* Proofs about calls of the scheduler, for any number of processes, versions*)
(* and crashes, and any program.  The disk cache: one lookup at a time is  *)
(* inside a file's locked section, none of them calls the scheduler while a*)
(* usable answer is on disk, and no store puts a file back in time.  The   *)
(* command that makes the call: it answers whole and leaves nothing behind.*)
(* The two specifications share no state.                                  *)
(***************************************************************************)
EXTENDS SchedulerCache, CommandRunner, TLAPS

-----------------------------------------------------------------------------
(* The disk cache (module SchedulerCache).                                 *)

(* What the flock protects: a lookup in its locked section holds the lock  *)
(* of its file.  SingleFlight alone is not inductive.                      *)
LockHeld ==
    \A p \in Procs, part \in Parts :
        listing[p].phase = "slow" /\ Part(p, part) \in Locked
            => lock[FileOf(p, part)] = p

Inv == TypeOK /\ LockHeld /\ NoWastedCall

Slow(p) == listing[p].phase = "slow"

(* The record of a process whose listing has begun. *)
Record == [phase: {"purge", "fast", "slow"}, archive: BOOLEAN, forced: BOOLEAN,
           at: [Parts -> PartStates], got: [Parts -> Nat], since: Nat]

LEMMA InRecord ==
    ASSUME TypeOK, NEW p \in Procs, listing[p].phase \in {"purge", "fast", "slow"}
    PROVE  listing[p] \in Record
  BY DEF TypeOK, Listings, Idle, Record

LEMMA RecordIsListing == Record \subseteq Listings
  BY DEF Record, Listings

(* The two lookups of a listing work on different files. *)
LEMMA FilesDiffer ==
    ASSUME NEW p, NEW part \in Parts, NEW other \in Parts, FileOf(p, part) = FileOf(p, other)
    PROVE  part = other
  BY DEF FileOf, NameOf, Parts

LEMMA FileIsName ==
    ASSUME NEW p, NEW part
    PROVE  FileOf(p, part) \in Names
  BY DEF FileOf, NameOf, Names

(* A lookup that moves on changes its own state and its answer, no more. *)
LEMMA Step ==
    ASSUME TypeOK, NEW p \in Procs, NEW part \in Parts, Slow(p),
           NEW state \in PartStates, NEW ver \in Nat,
           \/ listing' = Moved(p, part, state)
           \/ listing' = [listing EXCEPT ![p].at[part] = state, ![p].got[part] = ver]
    PROVE  /\ listing' \in [Procs -> Listings]
           /\ \A q \in Procs \ {p} : listing'[q] = listing[q]
           /\ listing'[p].phase = "slow" /\ listing'[p].archive = listing[p].archive
           /\ listing'[p].at[part] = state
           /\ \A other \in Parts \ {part} : listing'[p].at[other] = listing[p].at[other]
  <1>1. listing[p] \in Record
    BY InRecord DEF Slow
  <1>2. \E r \in Record : /\ listing' = [listing EXCEPT ![p] = r]
                          /\ r.phase = "slow" /\ r.archive = listing[p].archive
                          /\ r.at[part] = state
                          /\ \A other \in Parts \ {part} : r.at[other] = listing[p].at[other]
    <2>1. CASE listing' = Moved(p, part, state)
      <3> DEFINE r == [listing[p] EXCEPT !.at[part] = state]
      <3>1. r \in Record
        BY <1>1 DEF Record
      <3>2. /\ r.phase = "slow" /\ r.archive = listing[p].archive
            /\ r.at[part] = state
            /\ \A other \in Parts \ {part} : r.at[other] = listing[p].at[other]
        BY <1>1 DEF Record, Slow
      <3>3. listing' = [listing EXCEPT ![p] = r]
        BY <2>1 DEF Moved
      <3> QED BY <3>1, <3>2, <3>3
    <2>2. CASE listing' = [listing EXCEPT ![p].at[part] = state, ![p].got[part] = ver]
      <3> DEFINE r == [listing[p] EXCEPT !.at[part] = state, !.got[part] = ver]
      <3>1. r \in Record
        BY <1>1 DEF Record
      <3>2. /\ r.phase = "slow" /\ r.archive = listing[p].archive
            /\ r.at[part] = state
            /\ \A other \in Parts \ {part} : r.at[other] = listing[p].at[other]
        BY <1>1 DEF Record, Slow
      <3>3. listing' = [listing EXCEPT ![p] = r]
        BY <2>2 DEF TypeOK
      <3> QED BY <3>1, <3>2, <3>3
    <2> QED BY <2>1, <2>2
  <1> QED BY <1>2, RecordIsListing DEF TypeOK

(* The same in the vocabulary of the invariant. *)
LEMMA StepParts ==
    ASSUME TypeOK, NEW p \in Procs, NEW part \in Parts, Slow(p),
           NEW state \in PartStates, NEW ver \in Nat,
           \/ listing' = Moved(p, part, state)
           \/ listing' = [listing EXCEPT ![p].at[part] = state, ![p].got[part] = ver]
    PROVE  /\ listing' \in [Procs -> Listings]
           /\ \A q \in Procs, other \in Parts :
                 /\ FileOf(q, other)' = FileOf(q, other)
                 /\ (listing[q].phase = "slow")' = (listing[q].phase = "slow")
                 /\ ~(q = p /\ other = part) => Part(q, other)' = Part(q, other)
           /\ Part(p, part)' = state
  BY Step DEF FileOf, Part, Slow

-----------------------------------------------------------------------------
LEMMA InitInv == Init => Inv
  <1> SUFFICES ASSUME Init PROVE Inv
    OBVIOUS
  <1>1. TypeOK
    <2>1. \A n \in Names : Absent(n) \in [ver: Nat, age: Nat]
      BY ConstantsAssumption DEF Absent, TtlOf
    <2> QED BY <2>1 DEF Init, TypeOK, Listings
  <1>2. \A p \in Procs : listing[p].phase = "idle"
    BY DEF Init, Idle
  <1> QED BY <1>1, <1>2 DEF Inv, LockHeld, NoWastedCall, InPart

(* Steps that start, end or prepare a listing leave the locked sections of *)
(* the others alone and have none of their own.                            *)
LEMMA OutsideStep ==
    ASSUME Inv, NEW p \in Procs, TypeOK',
           \A q \in Procs \ {p} : listing'[q] = listing[q],
           listing'[p].phase = "slow" => \A part \in Parts : listing'[p].at[part] \notin Locked,
           \A n \in Names : lock[n] # p => lock'[n] = lock[n],
           \A n \in Names : ~Usable(n) => ~Usable(n)'
    PROVE  Inv'
  <1>1. LockHeld'
    <2> SUFFICES ASSUME NEW q \in Procs, NEW part \in Parts,
                        (listing[q].phase = "slow" /\ Part(q, part) \in Locked)'
                 PROVE  (lock[FileOf(q, part)] = q)'
      BY DEF LockHeld
    <2>1. q # p /\ listing'[q] = listing[q]
      BY DEF Part
    <2>2. lock[FileOf(q, part)] = q
      BY <2>1 DEF Inv, LockHeld, Part
    <2> QED BY <2>1, <2>2, FileIsName DEF FileOf
  <1>2. NoWastedCall'
    <2> SUFFICES ASSUME NEW q \in Procs, NEW part \in Parts,
                        (InPart(q, part, "call") \/ InPart(q, part, "store"))'
                 PROVE  ~Usable(FileOf(q, part))'
      BY DEF NoWastedCall
    <2>1. q # p /\ listing'[q] = listing[q]
      BY DEF InPart, Part, Locked
    <2>2. ~Usable(FileOf(q, part)) /\ FileOf(q, part)' = FileOf(q, part)
      BY <2>1 DEF Inv, NoWastedCall, InPart, Part, FileOf
    <2> QED BY <2>2, FileIsName
  <1> QED BY <1>1, <1>2 DEF Inv

LEMMA StartInv ==
    ASSUME Inv, NEW p \in Procs, NEW archive \in BOOLEAN, NEW forced \in BOOLEAN,
           Start(p, archive, forced)
    PROVE  Inv'
  <1> DEFINE r == [phase |-> IF forced THEN "purge" ELSE "fast",
                   archive |-> archive, forced |-> forced,
                   at |-> [part \in Parts |-> "check"],
                   got |-> [part \in Parts |-> 0],
                   since |-> IF forced THEN world ELSE 0]
  <1>1. r \in Record
    BY DEF Inv, TypeOK, Record, PartStates
  <1>2. listing' = [listing EXCEPT ![p] = r]
    BY DEF Start
  <1>3. TypeOK'
    BY <1>1, <1>2, RecordIsListing DEF Start, Inv, TypeOK
  <1>4. listing'[p].phase # "slow"
    BY <1>2 DEF Inv, TypeOK
  <1>5. \A q \in Procs \ {p} : listing'[q] = listing[q]
    BY <1>2 DEF Inv, TypeOK
  <1> QED BY <1>3, <1>4, <1>5, OutsideStep DEF Start, Usable

LEMMA PurgeInv ==
    ASSUME Inv, NEW p \in Procs, Purge(p)
    PROVE  Inv'
  <1>1. listing[p] \in Record
    BY InRecord DEF Purge, Inv
  <1>2. [listing[p] EXCEPT !.phase = "fast"] \in Record
    BY <1>1 DEF Record
  <1>3. listing' = [listing EXCEPT ![p] = [listing[p] EXCEPT !.phase = "fast"]]
    BY DEF Purge
  <1>4. \A n \in Names : Absent(n) \in [ver: Nat, age: Nat] /\ Absent(n).age > TtlOf(n)
    BY ConstantsAssumption DEF Absent, TtlOf
  <1>5. TypeOK'
    BY <1>2, <1>3, <1>4, RecordIsListing DEF Purge, Inv, TypeOK
  <1>6. \A n \in Names : ~Usable(n) => ~Usable(n)'
    <2> SUFFICES ASSUME NEW n \in Names, ~Usable(n) PROVE ~Usable(n)'
      OBVIOUS
    <2>1. file'[n] = Absent(n) \/ file'[n] = file[n]
      BY DEF Purge
    <2>2. TtlOf(n) \in Nat /\ Absent(n).age \in Nat
      BY <1>4, ConstantsAssumption DEF TtlOf
    <2> QED BY <2>1, <2>2, <1>4 DEF Usable
  <1>7. /\ listing'[p].phase # "slow"
        /\ \A q \in Procs \ {p} : listing'[q] = listing[q]
    BY <1>3, <1>1 DEF Inv, TypeOK, Record
  <1> QED BY <1>5, <1>6, <1>7, OutsideStep DEF Purge

LEMMA FastPathInv ==
    ASSUME Inv, NEW p \in Procs, FastPath(p)
    PROVE  Inv'
  <1> DEFINE states == [part \in Parts |->
                          IF FastHit(p) \/ (part = "accounting" /\ ~Accounting)
                          THEN "done" ELSE "check"]
             vers == [part \in Parts |->
                        IF FastHit(p) /\ (part = "accounting" => Accounting)
                        THEN file[FastNameOf(part, listing[p].archive)].ver
                        ELSE listing[p].since]
             r == [listing[p] EXCEPT !.phase = "slow", !.at = states, !.got = vers]
  <1>1. listing[p] \in Record
    BY InRecord DEF FastPath, Inv
  <1>2. states \in [Parts -> PartStates]
    BY DEF PartStates
  <1>3. vers \in [Parts -> Nat]
    <2>1. \A part \in Parts : FastNameOf(part, listing[p].archive) \in Names
      BY DEF FastNameOf, Names
    <2>2. listing[p].since \in Nat
      BY <1>1 DEF Record
    <2> QED BY <2>1, <2>2 DEF Inv, TypeOK
  <1>4. r \in Record
    <2> HIDE DEF states, vers
    <2> QED BY <1>1, <1>2, <1>3 DEF Record
  <1>5. listing' = [listing EXCEPT ![p] = r]
    BY DEF FastPath
  <1>6. TypeOK'
    <2> HIDE DEF r
    <2> QED BY <1>4, <1>5, RecordIsListing DEF FastPath, Inv, TypeOK
  <1>7. \A part \in Parts : listing'[p].at[part] \notin Locked
    <2>1. listing'[p].at = states
      <3>1. r.at = states
        BY <1>1 DEF Record
      <3> HIDE DEF r, states
      <3> QED BY <1>5, <3>1 DEF Inv, TypeOK
    <2> QED BY <2>1 DEF Locked
  <1>8. \A q \in Procs \ {p} : listing'[q] = listing[q]
    BY <1>5 DEF Inv, TypeOK
  <1>9. \A n \in Names : (lock[n] # p => lock'[n] = lock[n]) /\ (~Usable(n) => ~Usable(n)')
    BY DEF FastPath, Usable
  <1> QED BY <1>6, <1>7, <1>8, <1>9, OutsideStep

LEMMA EndInv ==
    ASSUME Inv, NEW p \in Procs, Finish(p) \/ Crash(p)
    PROVE  Inv'
  <1>1. listing' = [listing EXCEPT ![p] = Idle]
    BY DEF Finish, Crash
  <1>2. lock' \in [Names -> Procs \cup {NoProc}]
    BY DEF Finish, Crash, Inv, TypeOK
  <1>3. TypeOK'
    BY <1>1, <1>2 DEF Finish, Crash, Inv, TypeOK, Listings
  <1>4. listing'[p].phase # "slow" /\ \A q \in Procs \ {p} : listing'[q] = listing[q]
    BY <1>1 DEF Inv, TypeOK, Idle
  <1>5. \A n \in Names : (lock[n] # p => lock'[n] = lock[n]) /\ (~Usable(n) => ~Usable(n)')
    BY DEF Finish, Crash, Usable
  <1> QED BY <1>3, <1>4, <1>5, OutsideStep

LEMMA LookupInv ==
    ASSUME Inv, NEW p \in Procs, NEW part \in Parts, LookupStep(p, part)
    PROVE  Inv'
  <1> USE DEF Inv
  <1> DEFINE n == FileOf(p, part)
  <1>0. Slow(p) /\ n \in Names
    BY FileIsName DEF LookupStep, Check, Lock, Recheck, Respond, CallFails, Store, InPart, Slow
  <1>a. listing[p] \in Record
    BY <1>0, InRecord DEF Slow
  (* A lookup that stays outside the locked section. *)
  <1>1. CASE Check(p, part)
    <2>1. PICK state \in PartStates, ver \in Nat :
            /\ state \notin Locked
            /\ \/ listing' = Moved(p, part, state)
               \/ listing' = [listing EXCEPT ![p].at[part] = state, ![p].got[part] = ver]
      <3>1. file[n].ver \in Nat
        BY <1>0 DEF TypeOK
      <3> QED BY <1>1, <3>1 DEF Check, Answered, PartStates, Locked
    <2>2. /\ listing' \in [Procs -> Listings]
          /\ \A q \in Procs, other \in Parts :
                /\ FileOf(q, other)' = FileOf(q, other)
                /\ (listing[q].phase = "slow")' = (listing[q].phase = "slow")
                /\ ~(q = p /\ other = part) => Part(q, other)' = Part(q, other)
          /\ Part(p, part)' = state
      BY <2>1, <1>0, StepParts
    <2>3. TypeOK'
      BY <1>1, <2>2 DEF Check, TypeOK
    <2>4. LockHeld'
      BY <1>1, <2>1, <2>2 DEF Check, LockHeld
    <2>5. NoWastedCall'
      BY <1>1, <2>1, <2>2 DEF Check, NoWastedCall, InPart, Usable, Locked
    <2> QED BY <2>3, <2>4, <2>5
  (* A lookup that takes the free lock. *)
  <1>2. CASE Lock(p, part)
    <2>1. /\ listing' \in [Procs -> Listings]
          /\ \A q \in Procs, other \in Parts :
                /\ FileOf(q, other)' = FileOf(q, other)
                /\ (listing[q].phase = "slow")' = (listing[q].phase = "slow")
                /\ ~(q = p /\ other = part) => Part(q, other)' = Part(q, other)
          /\ Part(p, part)' = "recheck"
      <3>1. listing' = Moved(p, part, "recheck") /\ "recheck" \in PartStates /\ 0 \in Nat
        BY <1>2 DEF Lock, PartStates
      <3> QED BY <3>1, <1>0, StepParts
    <2>2. TypeOK'
      BY <1>2, <2>1 DEF Lock, TypeOK
    <2>3. LockHeld'
      <3> SUFFICES ASSUME NEW q \in Procs, NEW other \in Parts,
                          (listing[q].phase = "slow" /\ Part(q, other) \in Locked)'
                   PROVE  (lock[FileOf(q, other)] = q)'
        BY DEF LockHeld
      <3>1. CASE q = p /\ other = part
        BY <1>2, <1>0, <2>1, <3>1 DEF Lock, TypeOK
      <3>2. CASE ~(q = p /\ other = part)
        <4>1. lock[FileOf(q, other)] = q
          BY <2>1, <3>2 DEF LockHeld
        <4>2. FileOf(q, other) # n
          BY <4>1, <1>2, ConstantsAssumption DEF Lock
        <4> QED BY <4>1, <4>2, <2>1, <1>2, FileIsName DEF Lock, TypeOK
      <3> QED BY <3>1, <3>2
    <2>4. NoWastedCall'
      BY <1>2, <2>1 DEF Lock, NoWastedCall, InPart, Usable
    <2> QED BY <2>2, <2>3, <2>4
  (* A lookup that stays inside, its file being unusable. *)
  <1>3. CASE (Recheck(p, part) /\ ~Usable(n)) \/ Respond(p, part)
    <2>1. PICK state \in {"call", "store"}, ver \in Nat :
            \/ listing' = Moved(p, part, state)
            \/ listing' = [listing EXCEPT ![p].at[part] = state, ![p].got[part] = ver]
      BY <1>3 DEF Recheck, Respond, TypeOK
    <2>2. /\ listing' \in [Procs -> Listings]
          /\ \A q \in Procs, other \in Parts :
                /\ FileOf(q, other)' = FileOf(q, other)
                /\ (listing[q].phase = "slow")' = (listing[q].phase = "slow")
                /\ ~(q = p /\ other = part) => Part(q, other)' = Part(q, other)
          /\ Part(p, part)' = state
      <3>1. state \in PartStates
        BY DEF PartStates
      <3> QED BY <2>1, <3>1, <1>0, StepParts
    <2>3. UNCHANGED <<file, lock, world, newest>>
      BY <1>3 DEF Recheck, Respond
    <2>4. Part(p, part) \in Locked /\ ~Usable(n)
      BY <1>3, <1>0 DEF Recheck, Respond, InPart, Locked, NoWastedCall
    <2>5. TypeOK'
      BY <2>2, <2>3 DEF TypeOK
    <2>6. LockHeld'
      BY <2>2, <2>3, <2>4, <1>0 DEF LockHeld, Slow
    <2>7. NoWastedCall'
      BY <2>2, <2>3, <2>4 DEF NoWastedCall, InPart, Usable
    <2> QED BY <2>5, <2>6, <2>7
  (* A lookup that leaves the locked section and unlocks. *)
  <1>4. CASE (Recheck(p, part) /\ Usable(n)) \/ CallFails(p, part) \/ Store(p, part)
    <2>1. PICK state \in {"done", "failed"}, ver \in Nat :
            \/ listing' = Moved(p, part, state)
            \/ listing' = [listing EXCEPT ![p].at[part] = state, ![p].got[part] = ver]
      <3>1. file[n].ver \in Nat /\ world \in Nat
        BY <1>0 DEF TypeOK
      <3> QED BY <1>4, <3>1 DEF Recheck, CallFails, Store, Answered
    <2>2. /\ listing' \in [Procs -> Listings]
          /\ \A q \in Procs, other \in Parts :
                /\ FileOf(q, other)' = FileOf(q, other)
                /\ (listing[q].phase = "slow")' = (listing[q].phase = "slow")
                /\ ~(q = p /\ other = part) => Part(q, other)' = Part(q, other)
          /\ Part(p, part)' = state
      <3>1. state \in PartStates
        BY DEF PartStates
      <3> QED BY <2>1, <3>1, <1>0, StepParts
    <2>3. lock' = [lock EXCEPT ![n] = NoProc] /\ world' = world
      BY <1>4 DEF Recheck, CallFails, Store, Unlock
    <2>4. lock[n] = p
      <3>1. Part(p, part) \in Locked
        BY <1>4 DEF Recheck, CallFails, Store, InPart, Locked
      <3> QED BY <3>1, <1>0 DEF LockHeld, Slow
    <2>5. /\ file' \in [Names -> [ver: Nat, age: Nat]]
          /\ newest' \in [Names -> Nat]
          /\ \A m \in Names \ {n} : file'[m] = file[m]
      <3>1. CASE UNCHANGED <<file, newest>>
        BY <3>1 DEF TypeOK
      <3>2. CASE Store(p, part) /\ ~UNCHANGED <<file, newest>>
        <4> DEFINE v == listing[p].got[part]
        <4>1. v \in Nat
          BY <1>a DEF Record
        <4>2. file' = [file EXCEPT ![n] = [ver |-> v, age |-> 0]]
          BY <3>2 DEF Store
        <4>3. newest' = [newest EXCEPT ![n] = IF v > newest[n] THEN v ELSE newest[n]]
          BY <3>2 DEF Store
        <4> HIDE DEF v, n
        <4> QED BY <4>1, <4>2, <4>3, <1>0 DEF TypeOK
      <3> QED BY <1>4, <3>1, <3>2 DEF Recheck, CallFails
    <2>6. TypeOK'
      BY <2>2, <2>3, <2>5 DEF TypeOK
    <2>7. ASSUME NEW q \in Procs, NEW other \in Parts,
                 (listing[q].phase = "slow" /\ Part(q, other) \in Locked)'
          PROVE  /\ FileOf(q, other) # n
                 /\ listing[q].phase = "slow" /\ Part(q, other) \in Locked
                 /\ Part(q, other)' = Part(q, other)
      <3>1. ~(q = p /\ other = part)
        BY <2>2, <2>7 DEF Locked
      <3>2. listing[q].phase = "slow" /\ Part(q, other) \in Locked
            /\ Part(q, other)' = Part(q, other)
        BY <2>2, <2>7, <3>1
      <3>3. lock[FileOf(q, other)] = q
        BY <3>2 DEF LockHeld
      <3>4. FileOf(q, other) # n
        BY <3>1, <3>3, <2>4, FilesDiffer
      <3> QED BY <3>2, <3>4
    <2>8. LockHeld'
      <3> SUFFICES ASSUME NEW q \in Procs, NEW other \in Parts,
                          (listing[q].phase = "slow" /\ Part(q, other) \in Locked)'
                   PROVE  (lock[FileOf(q, other)] = q)'
        BY DEF LockHeld
      <3>1. FileOf(q, other) # n /\ lock[FileOf(q, other)] = q
        BY <2>7 DEF LockHeld
      <3> QED BY <3>1, <2>2, <2>3, FileIsName DEF TypeOK
    <2>9. NoWastedCall'
      <3> SUFFICES ASSUME NEW q \in Procs, NEW other \in Parts,
                          (InPart(q, other, "call") \/ InPart(q, other, "store"))'
                   PROVE  ~Usable(FileOf(q, other))'
        BY DEF NoWastedCall
      <3>1. (listing[q].phase = "slow" /\ Part(q, other) \in Locked)'
        BY DEF InPart, Locked
      <3>2. FileOf(q, other) # n /\ ~Usable(FileOf(q, other))
        BY <2>7, <3>1 DEF InPart, NoWastedCall
      <3> QED BY <3>2, <2>2, <2>5, FileIsName DEF Usable
    <2> QED BY <2>6, <2>8, <2>9
  <1> QED BY <1>1, <1>2, <1>3, <1>4 DEF LookupStep

LEMMA TickInv ==
    ASSUME Inv, Tick
    PROVE  Inv'
  <1>1. TypeOK'
    BY DEF Tick, Inv, TypeOK
  <1>2. \A n \in Names : ~Usable(n) => ~Usable(n)'
    <2> SUFFICES ASSUME NEW n \in Names, ~Usable(n) PROVE ~Usable(n)'
      OBVIOUS
    <2>1. file'[n].age = file[n].age
      BY DEF Tick, Usable, Inv, TypeOK
    <2> QED BY <2>1 DEF Usable
  <1>3. LockHeld'
    BY DEF Tick, Inv, LockHeld, Part, FileOf
  <1>4. NoWastedCall'
    BY <1>2, FileIsName DEF Tick, Inv, NoWastedCall, InPart, Part, FileOf
  <1> QED BY <1>1, <1>3, <1>4 DEF Inv

LEMMA NextInv == Inv /\ [Next]_vars => Inv'
  <1> SUFFICES ASSUME Inv, [Next]_vars PROVE Inv'
    OBVIOUS
  <1>1. CASE WorldMoves \/ UNCHANGED vars
    BY <1>1 DEF WorldMoves, vars, Inv, TypeOK, LockHeld, NoWastedCall, InPart, Part, FileOf, Usable
  <1>2. ASSUME NEW p \in Procs, NEW archive \in Archives, NEW forced \in BOOLEAN,
               Start(p, archive, forced)
        PROVE  Inv'
    BY <1>2, StartInv, ConstantsAssumption
  <1> QED BY <1>1, <1>2, TickInv, PurgeInv, FastPathInv, EndInv, LookupInv DEF Next

LEMMA InvImplies == Inv => SingleFlight
  BY DEF Inv, LockHeld, SingleFlight, Inside

(* One lookup at a time in a file's locked section, and no scheduler call  *)
(* while a usable answer exists (slurm.rs, queued and recent).             *)
THEOREM SchedulerCallsCoalesce == Spec => [](TypeOK /\ SingleFlight /\ NoWastedCall)
  <1>1. Inv => TypeOK /\ SingleFlight /\ NoWastedCall
    BY InvImplies DEF Inv
  <1> QED BY <1>1, InitInv, NextInv, PTL DEF Spec

-----------------------------------------------------------------------------
(* The order of the stores.  An answer that waits to be stored is no older *)
(* than anything ever stored under its name: it was the scheduler's state  *)
(* of a moment inside the locked section, and nobody else stored since.    *)
StoresAreNewest ==
    /\ \A n \in Names : newest[n] <= world
    /\ \A p \in Procs, part \in Parts :
          InPart(p, part, "store")
            => listing[p].got[part] \in newest[FileOf(p, part)] .. world

LEMMA InitNewest == Init => StoresAreNewest
  BY DEF Init, StoresAreNewest, InPart, Idle

(* A lookup that is about to store after a step either was so before, with *)
(* the same answer and not the one that stored, or has just been answered. *)
LEMMA WhoStores ==
    ASSUME TypeOK, [Next]_vars, NEW q \in Procs, NEW other \in Parts,
           InPart(q, other, "store")'
    PROVE  /\ FileOf(q, other)' = FileOf(q, other)
           /\ \/ /\ InPart(q, other, "store")
                 /\ listing'[q].got[other] = listing[q].got[other]
                 /\ ~Store(q, other)
              \/ Respond(q, other) /\ listing'[q].got[other] = world
  <1> DEFINE Kept == /\ InPart(q, other, "store")
                     /\ listing'[q].got[other] = listing[q].got[other]
                     /\ ~Store(q, other)
             Goal == /\ FileOf(q, other)' = FileOf(q, other)
                     /\ Kept \/ (Respond(q, other) /\ listing'[q].got[other] = world)
  <1>0. listing'[q].phase = "slow" /\ listing'[q].at[other] = "store"
    BY DEF InPart, Part
  <1>a. Store(q, other) => listing'[q].at[other] = "done"
    <2> SUFFICES ASSUME Store(q, other) PROVE listing'[q].at[other] = "done"
      OBVIOUS
    <2>1. Slow(q) /\ listing' = Moved(q, other, "done") /\ "done" \in PartStates /\ 0 \in Nat
      BY DEF Store, InPart, Slow, PartStates
    <2> QED BY <2>1, Step
  <1>1. ASSUME listing'[q] = listing[q] PROVE Goal
    <2>1. InPart(q, other, "store") /\ FileOf(q, other)' = FileOf(q, other)
      BY <1>0, <1>1 DEF InPart, Part, FileOf
    <2>2. ~Store(q, other)
      BY <1>0, <1>a
    <2> QED BY <1>1, <2>1, <2>2
  <1>2. ASSUME NEW p \in Procs, NEW part \in Parts, LookupStep(p, part) PROVE Goal
    <2>1. Slow(p)
      BY <1>2 DEF LookupStep, Check, Lock, Recheck, Respond, CallFails, Store, InPart, Slow
    <2>2. PICK state \in PartStates, ver \in Nat :
            /\ state = "store" => Respond(p, part) /\ ver = world
            /\ \/ state # "store" /\ listing' = Moved(p, part, state)
               \/ listing' = [listing EXCEPT ![p].at[part] = state, ![p].got[part] = ver]
      <3>1. file[FileOf(p, part)].ver \in Nat /\ world \in Nat /\ 0 \in Nat
        BY FileIsName DEF TypeOK
      <3> QED BY <1>2, <3>1 DEF LookupStep, Check, Lock, Recheck, Respond, CallFails, Store,
                                Answered, PartStates
    <2>3. CASE p # q
      BY <2>1, <2>2, <2>3, <1>1, Step
    <2>4. CASE p = q
      <3>1. listing[q] \in Record
        BY <2>1, <2>4, InRecord DEF Slow
      <3>2. listing'[q].archive = listing[q].archive
        BY <2>1, <2>2, <2>4, Step
      <3>3. CASE part = other
        <4>1. state = "store"
          BY <2>1, <2>2, <2>4, <3>3, <1>0, Step
        <4>2. listing' = [listing EXCEPT ![q].at[other] = "store", ![q].got[other] = world]
          BY <2>2, <2>4, <3>3, <4>1
        <4>3. listing'[q].got[other] = world
          BY <3>1, <4>2 DEF TypeOK, Record
        <4> QED BY <2>2, <2>4, <3>2, <3>3, <4>1, <4>3 DEF FileOf
      <3>4. CASE part # other
        <4>1. listing'[q].at[other] = listing[q].at[other] /\ FileOf(q, other)' = FileOf(q, other)
          BY <2>1, <2>2, <2>4, <3>2, <3>4, Step DEF FileOf
        <4>2. listing'[q].got[other] = listing[q].got[other]
          <5>1. CASE listing' = Moved(p, part, state)
            BY <2>4, <3>1, <5>1 DEF Moved, TypeOK, Record
          <5>2. CASE listing' = [listing EXCEPT ![p].at[part] = state, ![p].got[part] = ver]
            BY <2>4, <3>1, <3>4, <5>2 DEF TypeOK, Record
          <5> QED BY <2>2, <5>1, <5>2
        <4>3. InPart(q, other, "store")
          BY <2>1, <2>4, <4>1, <1>0 DEF InPart, Part, Slow
        <4>4. ~Store(q, other)
          BY <1>0, <1>a
        <4> QED BY <4>1, <4>2, <4>3, <4>4
      <3> QED BY <3>3, <3>4
    <2> QED BY <2>3, <2>4
  <1>3. ASSUME NEW p \in Procs,
               \/ \E archive \in Archives, forced \in BOOLEAN : Start(p, archive, forced)
               \/ Purge(p) \/ Finish(p) \/ Crash(p) \/ FastPath(p)
        PROVE  Goal
    <2>1. CASE p # q
      <3>1. listing'[q] = listing[q]
        BY <1>3, <2>1 DEF Start, Purge, Finish, Crash, FastPath, TypeOK
      <3> QED BY <1>1, <3>1
    <2>2. CASE p = q
      <3>1. CASE \E archive \in Archives, forced \in BOOLEAN : Start(p, archive, forced)
        BY <3>1, <2>2, <1>0 DEF Start, TypeOK
      <3>2. CASE Purge(p)
        <4>1. listing[p] \in Record
          BY <3>2, InRecord DEF Purge
        <4>2. listing'[p] = [listing[p] EXCEPT !.phase = "fast"]
          BY <3>2 DEF Purge, TypeOK
        <4>3. listing'[p].phase = "fast"
          BY <4>1, <4>2 DEF Record
        <4> QED BY <4>3, <2>2, <1>0
      <3>3. CASE Finish(p) \/ Crash(p)
        BY <3>3, <2>2, <1>0 DEF Finish, Crash, TypeOK, Idle
      <3>4. CASE FastPath(p)
        <4>1. listing[p] \in Record
          BY <3>4, InRecord DEF FastPath
        <4> DEFINE at == [part \in Parts |->
                            IF FastHit(p) \/ (part = "accounting" /\ ~Accounting)
                            THEN "done" ELSE "check"]
                   got == [part \in Parts |->
                             IF FastHit(p) /\ (part = "accounting" => Accounting)
                             THEN file[FastNameOf(part, listing[p].archive)].ver
                             ELSE listing[p].since]
        <4>2. /\ listing'[p] = [listing[p] EXCEPT !.phase = "slow", !.at = at, !.got = got]
              /\ at[other] \in {"done", "check"}
          BY <3>4 DEF FastPath, TypeOK
        <4> HIDE DEF at, got
        <4>3. listing'[p].at = at
          BY <4>1, <4>2 DEF Record
        <4> QED BY <4>2, <4>3, <2>2, <1>0
      <3> QED BY <1>3, <3>1, <3>2, <3>3, <3>4
    <2> QED BY <2>1, <2>2
  <1>4. ASSUME Tick \/ WorldMoves \/ UNCHANGED vars PROVE Goal
    <2>1. listing'[q] = listing[q]
      BY <1>4 DEF Tick, WorldMoves, vars
    <2> QED BY <2>1, <1>1
  <1> HIDE DEF Goal
  <1>5. Goal
    BY <1>2, <1>3, <1>4 DEF Next
  <1> QED BY <1>5 DEF Goal

(* What a step does to the history of the names. *)
LEMMA NewestMoves ==
    ASSUME TypeOK, [Next]_vars
    PROVE  /\ world' \in Nat /\ world <= world'
           /\ \/ newest' = newest
              \/ \E p \in Procs, part \in Parts :
                    /\ Store(p, part) /\ world' = world
                    /\ newest' = [newest EXCEPT ![FileOf(p, part)] =
                                    IF listing[p].got[part] > @ THEN listing[p].got[part] ELSE @]
  <1>1. CASE Tick \/ WorldMoves \/ UNCHANGED vars
    BY <1>1 DEF Tick, WorldMoves, vars, TypeOK
  <1>2. ASSUME NEW p \in Procs,
               \/ \E archive \in Archives, forced \in BOOLEAN : Start(p, archive, forced)
               \/ Purge(p) \/ Finish(p) \/ Crash(p) \/ FastPath(p)
        PROVE  newest' = newest /\ world' = world
    BY <1>2 DEF Start, Purge, Finish, Crash, FastPath
  <1>3. ASSUME NEW p \in Procs, NEW part \in Parts, LookupStep(p, part)
        PROVE  /\ world' = world
               /\ \/ newest' = newest
                  \/ /\ Store(p, part)
                     /\ newest' = [newest EXCEPT ![FileOf(p, part)] =
                                    IF listing[p].got[part] > @ THEN listing[p].got[part] ELSE @]
    BY <1>3 DEF LookupStep, Check, Lock, Recheck, Respond, CallFails, Store
  <1>4. world \in Nat
    BY DEF TypeOK
  <1> QED BY <1>1, <1>2, <1>3, <1>4 DEF Next

(* Two lookups that are about to store do it under different names. *)
LEMMA StoresApart ==
    ASSUME Inv, NEW p \in Procs, NEW part \in Parts, InPart(p, part, "store"),
           NEW q \in Procs, NEW other \in Parts, InPart(q, other, "store"),
           FileOf(p, part) = FileOf(q, other)
    PROVE  p = q /\ part = other
  <1>1. lock[FileOf(p, part)] = p /\ lock[FileOf(q, other)] = q
    BY DEF Inv, LockHeld, InPart, Locked
  <1> QED BY <1>1, FilesDiffer

LEMMA NewestNext ==
    ASSUME Inv, StoresAreNewest, [Next]_vars
    PROVE  StoresAreNewest'
  <1>0. TypeOK /\ newest \in [Names -> Nat] /\ world \in Nat
    BY DEF Inv, TypeOK
  <1>a. ASSUME NEW p \in Procs, NEW part \in Parts, InPart(p, part, "store")
        PROVE  /\ listing[p].got[part] \in Nat
               /\ newest[FileOf(p, part)] <= listing[p].got[part]
               /\ listing[p].got[part] <= world
    <2>1. listing[p] \in Record
      BY <1>0, <1>a, InRecord DEF InPart
    <2>2. listing[p].got[part] \in Nat
      BY <2>1 DEF Record
    <2> QED BY <1>a, <2>2 DEF StoresAreNewest
  <1>1. CASE newest' = newest
    <2>1. world' \in Nat /\ world <= world'
      BY <1>0, NewestMoves
    <2>2. \A n \in Names : newest'[n] <= world'
      BY <1>0, <1>1, <2>1 DEF StoresAreNewest
    <2>3. ASSUME NEW q \in Procs, NEW other \in Parts, InPart(q, other, "store")'
          PROVE  (listing[q].got[other] \in newest[FileOf(q, other)] .. world)'
      <3>1. newest[FileOf(q, other)] \in Nat /\ newest[FileOf(q, other)] <= world
        BY <1>0, FileIsName DEF StoresAreNewest
      <3>2. /\ FileOf(q, other)' = FileOf(q, other)
            /\ \/ InPart(q, other, "store") /\ listing'[q].got[other] = listing[q].got[other]
               \/ listing'[q].got[other] = world
        BY <1>0, <2>3, WhoStores
      <3>3. /\ listing'[q].got[other] \in Nat
            /\ newest[FileOf(q, other)] <= listing'[q].got[other]
            /\ listing'[q].got[other] <= world
        BY <1>0, <1>a, <3>1, <3>2
      <3> QED BY <1>0, <1>1, <2>1, <3>1, <3>2, <3>3
    <2> QED BY <2>2, <2>3 DEF StoresAreNewest
  <1>2. CASE newest' # newest
    <2>1. PICK p \in Procs, part \in Parts :
            /\ Store(p, part) /\ world' = world
            /\ newest' = [newest EXCEPT ![FileOf(p, part)] =
                            IF listing[p].got[part] > @ THEN listing[p].got[part] ELSE @]
      BY <1>0, <1>2, NewestMoves
    <2>2. InPart(p, part, "store")
      BY <2>1 DEF Store
    <2>3. \A n \in Names \ {FileOf(p, part)} : newest'[n] = newest[n]
      BY <1>0, <2>1
    <2>4. /\ FileOf(p, part) \in Names
          /\ newest'[FileOf(p, part)] \in {newest[FileOf(p, part)], listing[p].got[part]}
      BY <1>0, <2>1, FileIsName
    <2>5. \A n \in Names : newest'[n] <= world'
      BY <1>0, <1>a, <2>1, <2>2, <2>3, <2>4 DEF StoresAreNewest
    <2>6. ASSUME NEW q \in Procs, NEW other \in Parts, InPart(q, other, "store")'
          PROVE  (listing[q].got[other] \in newest[FileOf(q, other)] .. world)'
      <3>1. \/ InPart(q, other, "store") /\ ~Store(q, other)
            \/ Respond(q, other)
        BY <1>0, <2>6, WhoStores
      <3>2. ~Respond(q, other)
        BY <1>2 DEF Respond
      <3>3. /\ FileOf(q, other)' = FileOf(q, other)
            /\ listing'[q].got[other] = listing[q].got[other]
        BY <1>0, <2>6, <3>2, WhoStores
      <3>4. ~(q = p /\ other = part)
        BY <2>1, <3>1, <3>2
      <3>5. FileOf(q, other) # FileOf(p, part)
        BY <2>2, <3>1, <3>2, <3>4, StoresApart
      <3>6. newest'[FileOf(q, other)] = newest[FileOf(q, other)]
        BY <2>3, <3>5, FileIsName
      <3>7. listing[q].got[other] \in newest[FileOf(q, other)] .. world
        BY <3>1, <3>2 DEF StoresAreNewest
      <3> QED BY <2>1, <3>3, <3>6, <3>7
    <2> QED BY <2>5, <2>6 DEF StoresAreNewest
  <1> QED BY <1>1, <1>2

(* Only a store makes a file new, and it writes what is newest. *)
LEMMA StepStoresInOrder ==
    ASSUME Inv, StoresAreNewest, [Next]_vars, NEW n \in Names,
           file'[n].age = 0, file'[n] # file[n]
    PROVE  file'[n].ver >= newest[n]
  <1>0. TypeOK /\ \A m \in Names : file[m] \in [ver: Nat, age: Nat] /\ TtlOf(m) \in Nat
    BY ConstantsAssumption DEF Inv, TypeOK, TtlOf
  <1>1. CASE Tick
    <2>1. file'[n] = [file[n] EXCEPT !.age = IF @ <= TtlOf(n) THEN @ + 1 ELSE @]
      BY <1>1 DEF Tick
    <2>2. file'[n].age = IF file[n].age <= TtlOf(n) THEN file[n].age + 1 ELSE file[n].age
      BY <1>0, <2>1
    <2>3. file'[n].age # 0
      BY <1>0, <2>2
    <2> QED BY <2>3
  <1>2. CASE \E p \in Procs : Purge(p)
    <2>1. file'[n] = Absent(n)
      BY <1>2 DEF Purge
    <2> QED BY <1>0, <2>1 DEF Absent
  <1>3. ASSUME NEW p \in Procs, NEW part \in Parts, Store(p, part)
        PROVE  file'[n].ver >= newest[n]
    <2>1. /\ n = FileOf(p, part)
          /\ file'[n] = [ver |-> listing[p].got[part], age |-> 0]
      BY <1>3, FileIsName DEF Store, Inv, TypeOK
    <2>2. listing[p].got[part] \in newest[n] .. world
      BY <1>3, <2>1 DEF Store, StoresAreNewest
    <2>3. newest[n] \in Nat /\ world \in Nat
      BY DEF Inv, TypeOK
    <2> QED BY <2>1, <2>2, <2>3
  <1>4. ASSUME NEW p \in Procs,
               \/ \E archive \in Archives, forced \in BOOLEAN : Start(p, archive, forced)
               \/ FastPath(p) \/ Finish(p) \/ Crash(p)
        PROVE  file' = file
    BY <1>4 DEF Start, FastPath, Finish, Crash
  <1>5. ASSUME NEW p \in Procs, NEW part \in Parts,
               Check(p, part) \/ Lock(p, part) \/ Recheck(p, part)
                 \/ Respond(p, part) \/ CallFails(p, part)
        PROVE  file' = file
    BY <1>5 DEF Check, Lock, Recheck, Respond, CallFails
  <1>6. WorldMoves \/ UNCHANGED vars => file' = file
    BY DEF WorldMoves, vars
  <1>7. \/ Tick \/ (\E p \in Procs : Purge(p)) \/ file' = file
        \/ \E p \in Procs, part \in Parts : Store(p, part)
    BY <1>4, <1>5, <1>6 DEF Next, LookupStep
  <1> QED BY <1>1, <1>2, <1>3, <1>7

(* Cache files never go back in time, however listings, deletions, crashes *)
(* and failed renames interleave (slurm.rs, store_jobs under query_lock).  *)
THEOREM FilesNeverGoBack == Spec => StoresInOrder
  <1>1. Inv /\ StoresAreNewest /\ [Next]_vars => StoresAreNewest'
    BY NewestNext
  <1>2. Inv /\ StoresAreNewest /\ [Next]_vars
          => [\A n \in Names : file'[n].age = 0 /\ file'[n] # file[n]
                                 => file'[n].ver >= newest[n]]_vars
    BY StepStoresInOrder
  <1> QED BY <1>1, <1>2, InitInv, InitNewest, NextInv, PTL DEF Spec, StoresInOrder

-----------------------------------------------------------------------------
(* The run of one command (module CommandRunner).                          *)

InProgress == {"try_wait", "check"}
AfterWait == {"stdout", "stderr", "stdin", "judge"}
BetweenRuns == {"idle", "spawn"} \cup Ended

(* What each run asked for, and what is known of the run that goes on: the *)
(* program and its group live only between spawn and wait, a success was   *)
(* carried out, and a reader that stopped has everything there can be.     *)
CallShape ==
    /\ caller \in BetweenRuns \cup InProgress \cup AfterWait
    /\ plan.tries \in Nat /\ try \in Nat
    /\ request \in [1..plan.tries -> {"unsent", "sent", "done"}]
    /\ caller = "idle" => plan.tries = 0 /\ try = 0
    /\ caller \in {"idle", "spawn"} => try \in 0..plan.tries
    /\ caller = "spawn" => try < plan.tries
    /\ caller \in InProgress \cup AfterWait \cup {"answered"} => try \in 1..plan.tries

GroupGone == caller \notin InProgress => leader = "none" /\ descendant = "none"

SuccessIsDone ==
    /\ leader = "success" => request[try] = "done"
    /\ waited = "success" /\ caller \in AfterWait => request[try] = "done"

ReadersHaveAll ==
    /\ output \in [Pipes -> [written : Nat, taken : Nat, reading : BOOLEAN]]
    /\ \A p \in Pipes : output[p].reading \/ AtEnd(p)
    /\ caller \in {"stderr", "stdin", "judge"} => ~output["stdout"].reading
    /\ caller \in {"stdin", "judge"} => ~output["stderr"].reading

CommandInv ==
    /\ CallShape
    /\ leader \in {"none", "running", "success", "failure"}
    /\ caller \in InProgress => leader # "none"
    /\ GroupGone
    /\ SuccessIsDone
    /\ ReadersHaveAll
    /\ AnswersAreWhole

LEMMA CommandStart == CommandInit => CommandInv
  BY DEF CommandInit, CommandInv, CallShape, GroupGone, SuccessIsDone, ReadersHaveAll,
         AnswersAreWhole, BetweenRuns, InProgress, AfterWait, Ended, Pipes, FreshPipe,
         AtEnd, Holds

(* What no step of the pipes, the program or the world changes. *)
LEMMA Begins ==
    ASSUME CommandInv, Begin
    PROVE  CommandInv'
<1>1. plan'.tries \in Nat /\ plan'.tries # 0
  BY CommandRunnerAssumption DEF Begin
<1>2. request' \in [1..plan'.tries -> {"unsent", "sent", "done"}]
  BY <1>1 DEF Begin
<1>3. CallShape'
  BY <1>1, <1>2 DEF Begin, CommandInv, CallShape, BetweenRuns, InProgress, AfterWait, Ended
<1>4. GroupGone' /\ leader' = "none" /\ SuccessIsDone'
  BY DEF Begin, CommandInv, GroupGone, InProgress, AfterWait, SuccessIsDone
<1>5. ReadersHaveAll'
  BY DEF Begin, CommandInv, ReadersHaveAll, streams, Pipes, AtEnd, Holds
<1> QED
  BY <1>3, <1>4, <1>5 DEF Begin, CommandInv, InProgress, AnswersAreWhole

LEMMA Spawns ==
    ASSUME CommandInv, Spawn
    PROVE  CommandInv'
<1>1. CallShape'
  BY DEF Spawn, CommandInv, CallShape, BetweenRuns, InProgress, AfterWait, Ended
<1>2. GroupGone' /\ SuccessIsDone' /\ leader' \in {"none", "running"}
      /\ (caller' \in InProgress => leader' # "none")
  BY DEF Spawn, CommandInv, GroupGone, InProgress, AfterWait, SuccessIsDone, Ended
<1>3. ReadersHaveAll'
  <2>1. CASE UNCHANGED <<streams, leader>>
    BY <2>1 DEF Spawn, CommandInv, ReadersHaveAll, streams, Pipes, AtEnd, Holds, Ended
  <2>2. CASE caller' = "try_wait" /\ output' = [p \in Pipes |-> FreshPipe]
    <3>1. FreshPipe \in [written : Nat, taken : Nat, reading : BOOLEAN] /\ FreshPipe.reading
      BY DEF FreshPipe
    <3> QED
      BY <2>2, <3>1 DEF ReadersHaveAll, Pipes
  <2> QED
    BY <2>1, <2>2 DEF Spawn
<1> QED
  BY <1>1, <1>2, <1>3 DEF Spawn, CommandInv, AnswersAreWhole, Ended

LEMMA Waits ==
    ASSUME CommandInv, TryWait \/ CheckDeadline
    PROVE  CommandInv'
<1>1. CallShape'
  BY DEF TryWait, CheckDeadline, WaitReturns, streams, flags,
         CommandInv, CallShape, BetweenRuns, InProgress, AfterWait, Ended
<1>2. GroupGone' /\ leader' \in {"none", "running", "success", "failure"}
      /\ (caller' \in InProgress => leader' # "none")
  BY DEF TryWait, CheckDeadline, WaitReturns, Reap, TerminateGroup, CommandInv, GroupGone,
         InProgress
<1>3. SuccessIsDone'
  BY DEF TryWait, CheckDeadline, WaitReturns, Reap, TerminateGroup, streams, flags,
         CommandInv, InProgress, AfterWait, SuccessIsDone
<1>4. ReadersHaveAll'
  BY DEF TryWait, CheckDeadline, WaitReturns, Reap, TerminateGroup, streams, flags,
         CommandInv, ReadersHaveAll, Pipes, AtEnd, Holds
<1> QED
  BY <1>1, <1>2, <1>3, <1>4 DEF TryWait, CheckDeadline, WaitReturns, CommandInv, AnswersAreWhole

(* A reader goes on until nobody can write any more: then it has it all. *)
LEMMA Reads ==
    ASSUME CommandInv, NEW p \in Pipes, Read(p)
    PROVE  CommandInv'
<1> USE DEF Read, callVars, processVars, flags
<1>1. CallShape' /\ GroupGone' /\ SuccessIsDone'
      /\ leader' \in {"none", "running", "success", "failure"}
      /\ (caller' \in InProgress => leader' # "none")
  BY DEF CommandInv, CallShape, GroupGone, SuccessIsDone
<1>2. output' \in [Pipes -> [written : Nat, taken : Nat, reading : BOOLEAN]]
  <2>1. output \in [Pipes -> [written : Nat, taken : Nat, reading : BOOLEAN]]
    BY DEF CommandInv, ReadersHaveAll
  <2>2. CASE output' = [output EXCEPT ![p].taken = @ + 1]
    BY <2>1, <2>2
  <2>3. CASE output' = [output EXCEPT ![p].reading = FALSE]
    BY <2>1, <2>3
  <2> QED
    BY <2>2, <2>3
<1>3. \A q \in Pipes : output[q].reading \/ AtEnd(q)
  BY DEF CommandInv, ReadersHaveAll
<1>4. \A q \in Pipes : ~output[q].reading => output'[q] = output[q]
  BY DEF CommandInv, ReadersHaveAll
<1>5. \A q \in Pipes : output'[q].reading \/ AtEnd(q)'
  BY <1>3 DEF CommandInv, ReadersHaveAll, AtEnd, Holds
<1>6. ReadersHaveAll'
  BY <1>2, <1>4, <1>5 DEF CommandInv, ReadersHaveAll, Pipes
<1> QED
  BY <1>1, <1>6 DEF CommandInv, AnswersAreWhole, Ended

LEMMA Writes ==
    ASSUME CommandInv, NEW p \in Pipes, Write(p)
    PROVE  CommandInv'
<1> USE DEF Write, callVars, processVars, flags
<1>1. CallShape' /\ GroupGone' /\ SuccessIsDone'
      /\ leader' \in {"none", "running", "success", "failure"}
      /\ (caller' \in InProgress => leader' # "none")
  BY DEF CommandInv, CallShape, GroupGone, SuccessIsDone
<1>2. ReadersHaveAll'
  BY DEF CommandInv, ReadersHaveAll, Pipes, AtEnd, Holds
<1>3. caller' \in InProgress
  BY DEF CommandInv, GroupGone, Holds
<1> QED
  BY <1>1, <1>2, <1>3 DEF CommandInv, AnswersAreWhole, InProgress

(* What the input does, and the flags, is in no part of the invariant. *)
LEMMA InputAndFlags ==
    ASSUME CommandInv, WriteInput \/ ReadInput \/ Cancel \/ Expire \/ UNCHANGED commandVars
    PROVE  CommandInv'
<1> UNCHANGED <<caller, plan, try, waited, output, leader, descendant, request>>
  BY DEF WriteInput, ReadInput, Cancel, Expire, callVars, processVars, streams, commandVars
<1> QED
  BY DEF CommandInv, CallShape, GroupGone, SuccessIsDone, ReadersHaveAll, AtEnd, Holds,
         AnswersAreWhole, Stored

LEMMA Joins ==
    ASSUME CommandInv, Join
    PROVE  CommandInv'
<1> USE DEF Join, callVars, streams, processVars, flags
<1>1. CallShape' /\ GroupGone'
  BY DEF CommandInv, CallShape, GroupGone, BetweenRuns, InProgress, AfterWait, Ended
<1>2. SuccessIsDone' /\ ReadersHaveAll'
  BY DEF CommandInv, SuccessIsDone, ReadersHaveAll, AfterWait, AtEnd, Holds
<1> QED
  BY <1>1, <1>2 DEF CommandInv, AnswersAreWhole, InProgress

(* An answer is judged on a success, nothing over the limit and two readers *)
(* that stopped.                                                            *)
LEMMA Judges ==
    ASSUME CommandInv, Judge
    PROVE  CommandInv'
<1> USE DEF Judge, callVars, streams, processVars, flags
<1>1. CallShape' /\ GroupGone'
  BY DEF CommandInv, CallShape, GroupGone, BetweenRuns, InProgress, AfterWait, Ended
<1>2. SuccessIsDone' /\ ReadersHaveAll'
  BY DEF CommandInv, SuccessIsDone, ReadersHaveAll, AfterWait, AtEnd, Holds, Ended
<1>3. AnswersAreWhole'
  <2> SUFFICES ASSUME caller' = "answered"
               PROVE  request[try] = "done" /\ \A p \in Pipes : Stored(p) = output[p].written
    BY DEF AnswersAreWhole, Stored
  <2>1. Succeeded
    OBVIOUS
  <2>2. request[try] = "done"
    BY <2>1 DEF Succeeded, CommandInv, SuccessIsDone, AfterWait
  <2>3. ASSUME NEW p \in Pipes
        PROVE  Stored(p) = output[p].written
    <3>1. AtEnd(p) /\ output[p].taken \in Nat
      BY DEF CommandInv, ReadersHaveAll, Pipes
    <3>2. ~(output[p].taken > OutputLimit)
      BY <2>1 DEF Succeeded, Overflow
    <3> QED
      BY <3>1, <3>2, CommandRunnerAssumption DEF AtEnd, Stored
  <2> QED
    BY <2>2, <2>3
<1> QED
  BY <1>1, <1>2, <1>3 DEF CommandInv, InProgress, Ended

(* Of the program's steps only its exit and what is carried out matter: it *)
(* exits with a success for what is done, and what is done stays done.     *)
LEMMA ProgramMoves ==
    ASSUME CommandInv, Ask \/ Exit \/ Fork \/ DescendantExits
    PROVE  CommandInv'
<1> USE DEF Ask, Exit, Fork, DescendantExits, callVars, streams, flags
<1>1. CallShape'
  BY DEF CommandInv, CallShape
<1>2. GroupGone'
  BY DEF CommandInv, GroupGone
<1>3. SuccessIsDone'
  BY DEF CommandInv, SuccessIsDone, GroupGone, CallShape, AfterWait, InProgress
<1>4. ReadersHaveAll'
  BY DEF CommandInv, ReadersHaveAll, AtEnd, Holds
<1>5. AnswersAreWhole'
  BY DEF CommandInv, AnswersAreWhole, Stored, GroupGone, InProgress
<1> QED
  BY <1>1, <1>2, <1>3, <1>4, <1>5 DEF CommandInv

LEMMA Carries ==
    ASSUME CommandInv, NEW n \in 1..plan.tries, CarriedOut(n)
    PROVE  CommandInv'
<1> USE DEF CarriedOut, callVars, streams, flags
<1>1. CallShape'
  BY DEF CommandInv, CallShape
<1>2. \A m \in 1..plan.tries : request[m] = "done" => request'[m] = "done"
  BY DEF CommandInv, CallShape
<1>3. leader = "success" \/ caller \in AfterWait \/ caller = "answered" => try \in 1..plan.tries
  BY DEF CommandInv, CallShape, GroupGone, InProgress, AfterWait
<1>4. SuccessIsDone'
  BY <1>2, <1>3 DEF CommandInv, SuccessIsDone
<1>5. AnswersAreWhole'
  BY <1>2, <1>3 DEF CommandInv, AnswersAreWhole, Stored
<1> QED
  BY <1>1, <1>4, <1>5 DEF CommandInv, GroupGone, ReadersHaveAll, AtEnd, Holds

LEMMA CommandKept == CommandInv /\ [CommandNext]_commandVars => CommandInv'
  BY Begins, Spawns, Waits, Reads, Writes, InputAndFlags, Joins, Judges, ProgramMoves, Carries
     DEF CommandNext, CallerStep, ProgramStep

LEMMA CommandAlways == CommandSpec => []CommandInv
<1>1. CommandInit => CommandInv
  BY CommandStart
<1>2. CommandInv /\ [CommandNext]_commandVars => CommandInv'
  BY CommandKept
<1> QED
  BY <1>1, <1>2, PTL DEF CommandSpec

(* Whoever of the program, its group and the clock is first, an answer is  *)
(* everything that was written, for what was carried out (command.rs:163). *)
THEOREM CommandsAnswerWhole == CommandSpec => []AnswersAreWhole
<1>1. CommandInv => AnswersAreWhole
  BY DEF CommandInv
<1> QED
  BY <1>1, CommandAlways, PTL

(* No process of a command that is over, or of a run before the next, is   *)
(* left, whatever it forked (command.rs:70, 102).                          *)
THEOREM CommandsLeaveNothing == CommandSpec => []NothingSurvives
<1>1. CommandInv => NothingSurvives
  BY DEF CommandInv, GroupGone, NothingSurvives, InProgress, Ended
<1> QED
  BY <1>1, CommandAlways, PTL

=============================================================================
