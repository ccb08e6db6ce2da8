------------------------------ MODULE McpProofs ------------------------------
(***************************************************************************)
(* Proofs about the MCP server, for any number of calls, kills, files,     *)
(* clients, workers, resources and monitors: what its tools do to jobs and *)
(* write to the audit, what they read of a log, and what its request pool  *)
(* and its subscriptions do.  The three specifications share no state.     *)
(***************************************************************************)
EXTENDS JobActions, JobLog, McpServer, SequenceTheorems, TLAPS

-----------------------------------------------------------------------------
(* Cancelling and adopting.                                                *)

Lines == Calls \X {"attempted", "succeeded", "rejected"}
Log(line) == [old : Seq(line), cur : Seq(line)]

JobTypes ==
    /\ job \in JobRecords
    /\ seen \in [Calls -> SUBSET JobRecords]
    /\ stage \in [Calls -> Stages]
    /\ tries \in [Cancellers -> Nat]
    /\ audit \in Log(Lines)
    /\ trail \in Seq(Lines)
    /\ ledger \in Log(Adopters)

Adopted(c) == Contains(ledger.cur, c) \/ Contains(ledger.old, c)

Beyond == {"lookup", "control", "dispatch", "accounting", "append"}     \* the attempt is recorded

(* A call that got past its first line is in the trail.                    *)
AttemptsAreLines == \A c \in Calls : stage[c] \in Beyond => Contains(trail, <<c, "attempted">>)

(* A call has seen what it acts on: a running one has seen the job as it   *)
(* is, and one about to act has seen the moment that justifies it.         *)
Unstarted == \A c \in Calls : stage[c] = "new" =>
    /\ c \in Cancellers => tries[c] = 0
    /\ ~Adopted(c)

SeesTheJob == \A c \in Calls : Running(c) => job \in seen[c]

Cancellable(r) == r.mine /\ r.active /\ r.named /\ r.scope = Requested

AboutToAct ==
    /\ \A k \in Cancellers : stage[k] = "dispatch" => \E r \in seen[k] : Cancellable(r)
    /\ \A a \in Adopters : stage[a] = "append" => \E r \in seen[a] : r.mine /\ r.named

ProofInv == Unstarted /\ SeesTheJob /\ AboutToAct /\ ActsOnlyOnProven

AuditInv == AttemptsAreLines /\ EffectsAreAudited

(* Sequences: what contains a line goes on to, and the tail of a sequence. *)
LEMMA AppendContains ==
    ASSUME NEW S, NEW s \in Seq(S), NEW e \in S, NEW x
    PROVE  Contains(Append(s, e), x) <=> Contains(s, x) \/ x = e
<1>1. Len(Append(s, e)) = Len(s) + 1 /\ Append(s, e)[Len(s) + 1] = e
      /\ \A i \in 1..Len(s) : Append(s, e)[i] = s[i]
  OBVIOUS
<1>2. Len(s) \in Nat
  OBVIOUS
<1> QED
  BY <1>1, <1>2 DEF Contains

LEMMA EmptyContains == \A x : ~Contains(<<>>, x)
  BY DEF Contains

Ends(s, t) ==
    /\ Len(s) <= Len(t)
    /\ \A i \in 1..Len(s) : s[i] = t[Len(t) - Len(s) + i]

LEMMA SuffixEnds ==
    ASSUME NEW S, NEW s \in Seq(S), NEW t \in Seq(S)
    PROVE  IsSuffix(s, t) <=> Ends(s, t)
<1> DEFINE m == Len(s)  n == Len(t)  rs == Reverse(s)  rt == Reverse(t)
<1>1. m \in Nat /\ n \in Nat
  OBVIOUS
<1>2. /\ rs \in Seq(S) /\ Len(rs) = m /\ \A i \in 1..m : rs[i] = s[m - i + 1]
      /\ rt \in Seq(S) /\ Len(rt) = n /\ \A i \in 1..n : rt[i] = t[n - i + 1]
  <2>1. /\ \A i \in 1..m : m - i + 1 \in 1..m /\ s[m - i + 1] \in S
        /\ \A i \in 1..n : n - i + 1 \in 1..n /\ t[n - i + 1] \in S
    BY <1>1, ElementOfSeq
  <2>2. rs = [i \in 1..m |-> s[m - i + 1]] /\ rt = [i \in 1..n |-> t[n - i + 1]]
    BY DEF Reverse
  <2> HIDE DEF m, n, rs, rt
  <2>3. rs \in [1..m -> S] /\ rt \in [1..n -> S]
    BY <2>1, <2>2
  <2> QED
    BY <2>2, <2>3, <1>1, IsASeq, LenProperties
<1> HIDE DEF rs, rt
<1>3. CASE m > n
  BY <1>1, <1>2, <1>3 DEF IsSuffix, IsPrefix, Ends, rs, rt
<1>4. CASE m <= n
  <2> DEFINE hs == SubSeq(rs, 1, m)  ht == SubSeq(rt, 1, m)
  <2>1. /\ hs \in Seq(S) /\ Len(hs) = m /\ \A i \in 1..m : hs[i] = s[m - i + 1]
        /\ ht \in Seq(S) /\ Len(ht) = m /\ \A i \in 1..m : ht[i] = t[n - i + 1]
    <3>1. /\ hs \in Seq(S) /\ Len(hs) = m /\ \A i \in 1..m : hs[i] = rs[i]
          /\ ht \in Seq(S) /\ Len(ht) = m /\ \A i \in 1..m : ht[i] = rt[i]
      <4>1. /\ \A i \in 1..m : rs[i] \in S /\ rt[i] \in S /\ 1 + i - 1 = i
            /\ m - 1 + 1 = m
            /\ m < 1 => m = 0
        BY <1>1, <1>2, <1>4, ElementOfSeq
      <4> HIDE DEF m, n
      <4> QED
        BY <4>1, <1>1, SubSeqProperties
    <3> QED
      BY <3>1, <1>1, <1>2, <1>4
  <2>2. hs = ht <=> \A i \in 1..m : s[m - i + 1] = t[n - i + 1]
    <3> HIDE DEF hs, ht, m, n
    <3>1. ASSUME \A i \in 1..m : s[m - i + 1] = t[n - i + 1]  PROVE hs = ht
      BY <2>1, <3>1, SeqEqual
    <3> QED
      BY <2>1, <3>1
  <2>3. (\A i \in 1..m : s[m - i + 1] = t[n - i + 1]) <=> (\A i \in 1..m : s[i] = t[n - m + i])
    <3> HIDE DEF m, n
    <3>1. \A i \in 1..m : /\ m - i + 1 \in 1..m
                          /\ m - (m - i + 1) + 1 = i
                          /\ n - (m - i + 1) + 1 = n - m + i
                          /\ n - m + (m - i + 1) = n - i + 1
      BY <1>1
    <3> QED
      BY <3>1
  <2>4. IsSuffix(s, t) <=> hs = ht
    BY <1>1, <1>2, <1>4 DEF IsSuffix, IsPrefix, rs, rt
  <2> QED
    BY <2>2, <2>3, <2>4, <1>4 DEF Ends
<1> QED
  BY <1>1, <1>3, <1>4

LEMMA EndsAfterAppend ==
    ASSUME NEW S, NEW s \in Seq(S), NEW t \in Seq(S), NEW e \in S, Ends(s, t)
    PROVE  Ends(Append(s, e), Append(t, e))
<1>1. /\ Len(Append(s, e)) = Len(s) + 1 /\ Append(s, e)[Len(s) + 1] = e
      /\ \A i \in 1..Len(s) : Append(s, e)[i] = s[i]
      /\ Len(Append(t, e)) = Len(t) + 1 /\ Append(t, e)[Len(t) + 1] = e
      /\ \A i \in 1..Len(t) : Append(t, e)[i] = t[i]
      /\ Len(s) \in Nat /\ Len(t) \in Nat
  OBVIOUS
<1> QED
  BY <1>1 DEF Ends

LEMMA EndsWithoutHead ==
    ASSUME NEW S, NEW s \in Seq(S), NEW u \in Seq(S), NEW t \in Seq(S), Ends(s \o u, t)
    PROVE  Ends(u, t)
<1>1. /\ Len(s \o u) = Len(s) + Len(u)
      /\ \A i \in 1..Len(u) : (s \o u)[Len(s) + i] = u[i]
      /\ Len(s) \in Nat /\ Len(u) \in Nat /\ Len(t) \in Nat
  BY ConcatProperties
<1>2. \A i \in 1..Len(u) : /\ Len(s) + i \in 1..Len(s \o u)
                           /\ Len(t) - Len(s \o u) + (Len(s) + i) = Len(t) - Len(u) + i
  BY <1>1
<1>3. Len(u) <= Len(t) /\ \A i \in 1..Len(s \o u) : (s \o u)[i] = t[Len(t) - Len(s \o u) + i]
  BY <1>1 DEF Ends
<1> QED
  BY <1>1, <1>2, <1>3 DEF Ends

LEMMA AppendToConcat ==
    ASSUME NEW S, NEW s \in Seq(S), NEW u \in Seq(S), NEW e \in S
    PROVE  s \o Append(u, e) = Append(s \o u, e)
  BY AppendIsConcat, ConcatAssociative, ConcatProperties

(* The files: rotation and a kill inside it drop lines and add none.       *)
LEMMA LogWritten ==
    ASSUME NEW S, NEW log \in Log(S), NEW line \in S, NEW limit
    PROVE  Written(log, limit, line) \in Log(S)
<1>1. Rotated(log) \in Log(S)
  BY DEF Log, Rotated
<1>2. ASSUME NEW base \in Log(S)
      PROVE  [base EXCEPT !.cur = Append(@, line)] \in Log(S)
  <2>1. base.cur \in Seq(S) /\ Append(base.cur, line) \in Seq(S)
    BY AppendProperties DEF Log
  <2> QED
    BY <2>1 DEF Log
<1> QED
  BY <1>1, <1>2 DEF Written

LEMMA LogHalfWritten ==
    ASSUME NEW S, NEW log \in Log(S), NEW limit, NEW base \in HalfWritten(log, limit)
    PROVE  /\ base \in Log(S)
           /\ \A e : Contains(base.cur, e) \/ Contains(base.old, e)
                        => Contains(log.cur, e) \/ Contains(log.old, e)
<1>1. base \in {log, WithoutBackup(log), Rotated(log)}
  BY DEF HalfWritten
<1>2. <<>> \in Seq(S) /\ \A e : ~Contains(<<>>, e)
  BY EmptyContains
<1>3. WithoutBackup(log) = [old |-> <<>>, cur |-> log.cur]
  BY DEF WithoutBackup, Log
<1>4. log.cur \in Seq(S) /\ log.old \in Seq(S)
  BY DEF Log
<1>5. base \in Log(S)
  <2>1. \A x, y \in Seq(S) : [old |-> x, cur |-> y] \in Log(S)
    BY DEF Log
  <2>2. WithoutBackup(log) \in Log(S) /\ Rotated(log) \in Log(S)
    BY <1>2, <1>3, <1>4, <2>1 DEF Rotated
  <2> QED
    BY <1>1, <2>2
<1>6. /\ base.cur \in {log.cur, <<>>}
      /\ base.old \in {log.old, log.cur, <<>>}
  BY <1>1, <1>3 DEF Rotated
<1> QED
  BY <1>2, <1>5, <1>6

LEMMA JobStart == Init => JobTypes
<1> SUFFICES ASSUME Init PROVE JobTypes
  OBVIOUS
<1>1. EmptyLog \in Log(Lines) /\ EmptyLog \in Log(Adopters)
  BY DEF EmptyLog, Log
<1> QED
  BY <1>1 DEF Init, JobTypes, Stages

LEMMA TypesOfChanges ==
    ASSUME JobTypes, NEW r \in JobRecords, Becomes(r)
    PROVE  job' \in JobRecords /\ seen' \in [Calls -> SUBSET JobRecords]
  BY DEF JobTypes, Becomes

LEMMA TypesKept == JobTypes /\ [Next]_vars => JobTypes'
<1> SUFFICES ASSUME JobTypes, [Next]_vars PROVE JobTypes'
  OBVIOUS
<1>1. CASE JobChanges
  <2>1. /\ [job EXCEPT !.active = FALSE] \in JobRecords
        /\ [job EXCEPT !.named = ~@] \in JobRecords
        /\ [job EXCEPT !.mine = ~@, !.active = TRUE] \in JobRecords
    BY DEF JobTypes, JobRecords
  <2> QED
    BY <1>1, <2>1, TypesOfChanges DEF JobChanges, JobTypes
<1>2. ASSUME NEW c \in Calls, Start(c) \/ RecordAttempt(c) \/ RecordOutcome(c)
      PROVE  JobTypes'
  <2>1. ASSUME NEW result \in {"attempted", "succeeded", "rejected"}, Record(c, result)
        PROVE  audit' \in Log(Lines) /\ trail' \in Seq(Lines)
    <3>1. <<c, result>> \in Lines
      BY DEF Lines
    <3> QED
      BY <2>1, <3>1, LogWritten DEF Record, JobTypes
  <2>2. stage' \in [Calls -> Stages]
    BY <1>2 DEF Start, RecordAttempt, RecordOutcome, GoTo, Unaudited, JobTypes, Stages
  <2>3. seen' \in [Calls -> SUBSET JobRecords]
    BY <1>2 DEF Start, RecordAttempt, RecordOutcome, JobTypes
  <2>4. audit' \in Log(Lines) /\ trail' \in Seq(Lines)
    BY <1>2, <2>1 DEF Start, RecordAttempt, RecordOutcome, JobTypes
  <2> QED
    BY <1>2, <2>2, <2>3, <2>4 DEF Start, RecordAttempt, RecordOutcome, JobTypes
<1>3. ASSUME NEW k \in Cancellers, ReadQueue(k) \/ ReadControl(k)
      PROVE  JobTypes'
  BY <1>3 DEF ReadQueue, ReadControl, Reject, GoTo, JobTypes, Stages, Calls
<1>4. ASSUME NEW k \in Cancellers, Dispatch(k)
      PROVE  JobTypes'
  <2>1. [job EXCEPT !.active = FALSE] \in JobRecords
    BY DEF JobTypes, JobRecords
  <2>2. job' \in JobRecords /\ seen' \in [Calls -> SUBSET JobRecords]
    BY <1>4, <2>1, TypesOfChanges DEF Dispatch, JobTypes
  <2>3. stage' \in [Calls -> Stages] /\ tries' \in [Cancellers -> Nat]
    BY <1>4 DEF Dispatch, GoTo, JobTypes, Stages, Calls
  <2> QED
    BY <1>4, <2>2, <2>3 DEF Dispatch, JobTypes
<1>5. ASSUME NEW a \in Adopters, AskQueue(a) \/ AskAccounting(a)
      PROVE  JobTypes'
  BY <1>5 DEF AskQueue, AskAccounting, Adopt, Reject, GoTo, JobTypes, Stages, Calls
<1>6. ASSUME NEW a \in Adopters, AppendAdoption(a)
      PROVE  JobTypes'
  <2>1. stage' \in [Calls -> Stages]
    BY <1>6 DEF AppendAdoption, Reject, GoTo, JobTypes, Stages
  <2>2. \A base \in Log(Adopters) : [base EXCEPT !.cur = Append(@, a)] \in Log(Adopters)
    BY DEF Log
  <2>3. ledger' \in Log(Adopters)
    BY <1>6, <2>2, LogHalfWritten DEF AppendAdoption, Reject, JobTypes
  <2> QED
    BY <1>6, <2>1, <2>3 DEF AppendAdoption, Reject, JobTypes
<1>7. CASE Kill
  <2>1. stage' \in [Calls -> Stages]
    BY <1>7 DEF Kill, JobTypes, Stages
  <2>2. audit' \in Log(Lines)
    BY <1>7, LogHalfWritten DEF Kill, JobTypes
  <2>3. ledger' \in Log(Adopters)
    BY <1>7, LogHalfWritten DEF Kill, JobTypes
  <2> QED
    BY <1>7, <2>1, <2>2, <2>3 DEF Kill, JobTypes
<1>8. CASE UNCHANGED vars
  BY <1>8 DEF vars, JobTypes
<1> QED
  BY <1>1, <1>2, <1>3, <1>4, <1>5, <1>6, <1>7, <1>8 DEF Next

(* What a step may do to one call.                                         *)
LEMMA SeenGrows ==
    ASSUME JobTypes, [Next]_vars, NEW c \in Calls, stage[c] # "new"
    PROVE  seen[c] \subseteq seen'[c]
<1>1. ASSUME NEW r, Becomes(r) PROVE seen[c] \subseteq seen'[c]
  BY <1>1 DEF Becomes
<1>2. CASE JobChanges
  BY <1>1, <1>2 DEF JobChanges
<1>3. ASSUME NEW d \in Calls, Start(d) PROVE seen[c] \subseteq seen'[c]
  BY <1>3 DEF Start, JobTypes
<1>4. ASSUME NEW k \in Cancellers, Dispatch(k) PROVE seen[c] \subseteq seen'[c]
  BY <1>1, <1>4 DEF Dispatch
<1> QED
  BY <1>2, <1>3, <1>4
     DEF Next, vars, RecordAttempt, RecordOutcome, ReadQueue, ReadControl, AskQueue,
         AskAccounting, AppendAdoption, Kill

LEMMA TrailGrows ==
    ASSUME JobTypes, [Next]_vars, NEW line, Contains(trail, line)
    PROVE  Contains(trail, line)'
<1>1. ASSUME NEW c \in Calls, NEW result \in {"attempted", "succeeded", "rejected"},
             Record(c, result)
      PROVE  Contains(trail, line)'
  BY <1>1, AppendContains DEF Record, JobTypes, Lines
<1> QED
  BY <1>1
     DEF Next, vars, JobChanges, Start, RecordAttempt, RecordOutcome, ReadQueue, ReadControl,
         Dispatch, AskQueue, AskAccounting, AppendAdoption, Kill

LEMMA LedgerGrows ==
    ASSUME JobTypes, [Next]_vars, NEW c \in Calls, Adopted(c)'
    PROVE  Adopted(c) \/ (c \in Adopters /\ stage[c] = "append" /\ stage'[c] = "succeeded")
<1>1. ASSUME NEW a \in Adopters, AppendAdoption(a)
      PROVE  Adopted(c) \/ (c \in Adopters /\ stage[c] = "append" /\ stage'[c] = "succeeded")
  <2>1. CASE UNCHANGED ledger
    BY <2>1 DEF Adopted
  <2>2. ASSUME NEW base \in HalfWritten(ledger, LedgerLines),
               ledger' = [base EXCEPT !.cur = Append(@, a)], GoTo(a, "succeeded")
        PROVE  Adopted(c) \/ (c \in Adopters /\ stage[c] = "append" /\ stage'[c] = "succeeded")
    <3>1. base \in Log(Adopters) /\ ledger'.cur = Append(base.cur, a) /\ ledger'.old = base.old
      BY <2>2, LogHalfWritten DEF JobTypes, Log
    <3>2. Contains(ledger'.cur, c) => Contains(base.cur, c) \/ c = a
      BY <3>1, AppendContains DEF Log
    <3>3. Contains(base.cur, c) \/ Contains(base.old, c) => Adopted(c)
      BY LogHalfWritten DEF JobTypes, Adopted
    <3>4. stage[a] = "append" /\ stage'[a] = "succeeded"
      BY <1>1, <2>2 DEF AppendAdoption, GoTo, JobTypes, Calls
    <3> QED
      BY <3>1, <3>2, <3>3, <3>4 DEF Adopted
  <2> QED
    BY <1>1, <2>1, <2>2 DEF AppendAdoption, Reject
<1>2. CASE Kill
  BY <1>2, LogHalfWritten DEF Kill, JobTypes, Adopted
<1>3. CASE UNCHANGED ledger
  BY <1>3 DEF Adopted
<1> QED
  BY <1>1, <1>2, <1>3
     DEF Next, vars, JobChanges, Start, RecordAttempt, RecordOutcome, ReadQueue, ReadControl,
         Dispatch, AskQueue, AskAccounting, Adopt, Reject

LEMMA TriesGrow ==
    ASSUME JobTypes, [Next]_vars, NEW k \in Cancellers, tries'[k] # tries[k]
    PROVE  stage[k] = "dispatch"
<1>1. ASSUME NEW d \in Cancellers, Dispatch(d) PROVE stage[k] = "dispatch"
  BY <1>1 DEF Dispatch, JobTypes
<1> QED
  BY <1>1
     DEF Next, vars, JobChanges, Start, RecordAttempt, RecordOutcome, ReadQueue, ReadControl,
         AskQueue, AskAccounting, Adopt, Reject, AppendAdoption, Kill


LEMMA StageMoves ==
    ASSUME JobTypes, [Next]_vars, NEW c \in Calls
    PROVE  /\ stage'[c] = "new" => stage[c] = "new"
           /\ stage'[c] \in Beyond /\ stage[c] \notin Beyond
                => stage[c] = "attempt" /\ Contains(trail, <<c, "attempted">>)'
           /\ stage'[c] = "dispatch" /\ stage[c] # "dispatch" => Running(c) /\ Cancellable(job)
           /\ stage'[c] = "append" /\ stage[c] # "append"
                => Running(c) /\ job.mine /\ job.named
<1> DEFINE Allowed ==
                    /\ stage'[c] = "new" => stage[c] = "new"
                    /\ stage'[c] \in Beyond /\ stage[c] \notin Beyond
                         => stage[c] = "attempt" /\ Contains(trail, <<c, "attempted">>)'
                    /\ stage'[c] = "dispatch" /\ stage[c] # "dispatch"
                         => Running(c) /\ Cancellable(job)
                    /\ stage'[c] = "append" /\ stage[c] # "append"
                         => Running(c) /\ job.mine /\ job.named
<1>1. CASE UNCHANGED stage
  BY <1>1
<1>2. ASSUME NEW d \in Calls, Start(d) \/ RecordOutcome(d) PROVE Allowed
  BY <1>2 DEF Start, RecordOutcome, GoTo, JobTypes, Beyond
<1>3. ASSUME NEW d \in Calls, RecordAttempt(d) PROVE Allowed
  <2>1. CASE Unaudited(d)
    BY <1>3, <2>1 DEF RecordAttempt, Unaudited, GoTo, JobTypes, Beyond
  <2>2. CASE Record(d, "attempted") /\ GoTo(d, "lookup")
    <3>1. Contains(trail, <<d, "attempted">>)'
      BY <2>2, AppendContains DEF Record, JobTypes, Lines
    <3> QED
      BY <1>3, <2>2, <3>1 DEF RecordAttempt, GoTo, JobTypes, Beyond
  <2> QED
    BY <1>3, <2>1, <2>2 DEF RecordAttempt
<1>4. ASSUME NEW k \in Cancellers, ReadQueue(k) \/ Dispatch(k) PROVE Allowed
  BY <1>4 DEF ReadQueue, Dispatch, Reject, GoTo, JobTypes, Beyond
<1>5. ASSUME NEW k \in Cancellers, ReadControl(k) PROVE Allowed
  <2>1. ProvesScope(job) => job.scope = Requested
    BY JobActionsAssumption DEF ProvesScope
  <2> QED
    BY <1>5, <2>1 DEF ReadControl, Reject, GoTo, JobTypes, Beyond, Running, Cancellable
<1>6. ASSUME NEW a \in Adopters, AskQueue(a) \/ AskAccounting(a) PROVE Allowed
  BY <1>6 DEF AskQueue, AskAccounting, Adopt, Reject, GoTo, QueueRow, AccountingRow, JobTypes,
              Beyond, Running
<1>7. ASSUME NEW a \in Adopters, AppendAdoption(a) PROVE Allowed
  BY <1>7 DEF AppendAdoption, Reject, GoTo, JobTypes, Beyond
<1>8. CASE Kill
  BY <1>8 DEF Kill, Beyond
<1> QED
  BY <1>1, <1>2, <1>3, <1>4, <1>5, <1>6, <1>7, <1>8 DEF Next, vars, JobChanges

-----------------------------------------------------------------------------
LEMMA AuditedKept == JobTypes /\ AuditInv /\ [Next]_vars => AuditInv'
<1> SUFFICES ASSUME JobTypes, AuditInv, [Next]_vars PROVE AuditInv'
  OBVIOUS
<1>1. AttemptsAreLines'
  BY StageMoves, TrailGrows DEF AuditInv, AttemptsAreLines
<1>2. ASSUME NEW c \in Calls, (c \in Cancellers /\ tries[c] > 0)'
      PROVE  Contains(trail, <<c, "attempted">>)
  BY <1>2, TriesGrow DEF AuditInv, AttemptsAreLines, EffectsAreAudited, Beyond
<1>3. ASSUME NEW c \in Calls, c \in Adopters, Adopted(c)'
      PROVE  Contains(trail, <<c, "attempted">>)
  BY <1>3, LedgerGrows DEF AuditInv, AttemptsAreLines, EffectsAreAudited, Beyond, Adopted
<1>4. EffectsAreAudited'
  BY <1>2, <1>3, TrailGrows DEF EffectsAreAudited, Adopted
<1> QED
  BY <1>1, <1>4 DEF AuditInv

LEMMA ProofStart == Init => AuditInv /\ ProofInv
<1> SUFFICES ASSUME Init PROVE AuditInv /\ ProofInv
  OBVIOUS
<1>1. \A c \in Calls : ~Adopted(c)
  BY EmptyContains DEF Init, EmptyLog, Adopted
<1>2. \A k \in Cancellers : tries[k] = 0
  BY DEF Init
<1>3. \A c \in Calls : stage[c] = "new"
  BY DEF Init
<1> QED
  BY <1>1, <1>2, <1>3
     DEF AuditInv, AttemptsAreLines, EffectsAreAudited, Beyond, ProofInv, Unstarted, SeesTheJob,
         AboutToAct, ActsOnlyOnProven, CancelsOnlyProven, AdoptsOnlyOwned, Running, Adopted, Calls

LEMMA JobIsSeen ==
    ASSUME JobTypes, SeesTheJob, [Next]_vars
    PROVE  SeesTheJob'
<1> SUFFICES ASSUME NEW c \in Calls, Running(c)' PROVE job' \in seen'[c]
  BY DEF SeesTheJob
<1>1. ASSUME NEW r, Becomes(r), Running(c) PROVE job' \in seen'[c]
  BY <1>1 DEF Becomes
<1>2. CASE JobChanges
  BY <1>1, <1>2 DEF JobChanges, Running
<1>3. ASSUME NEW d \in Calls, Start(d) PROVE job' \in seen'[c]
  BY <1>3 DEF Start, GoTo, JobTypes, SeesTheJob, Running
<1>4. ASSUME NEW k \in Cancellers, Dispatch(k) PROVE job' \in seen'[c]
  <2>1. Running(c)
    BY <1>4 DEF Dispatch, GoTo, JobTypes, Running
  <2> QED
    BY <1>1, <1>4, <2>1 DEF Dispatch, SeesTheJob
<1>5. CASE Kill
  BY <1>5 DEF Kill, Running, SeesTheJob
<1>6. ASSUME NEW d \in Calls, RecordAttempt(d) \/ RecordOutcome(d) PROVE job' \in seen'[c]
  BY <1>6 DEF RecordAttempt, RecordOutcome, GoTo, Unaudited, JobTypes, Running, SeesTheJob
<1>7. ASSUME NEW k \in Cancellers, ReadQueue(k) \/ ReadControl(k) PROVE job' \in seen'[c]
  BY <1>7 DEF ReadQueue, ReadControl, Reject, GoTo, JobTypes, Running, SeesTheJob
<1>8. ASSUME NEW a \in Adopters, AskQueue(a) \/ AskAccounting(a) \/ AppendAdoption(a)
      PROVE job' \in seen'[c]
  BY <1>8 DEF AskQueue, AskAccounting, AppendAdoption, Adopt, Reject, GoTo, JobTypes, Running,
              SeesTheJob
<1>9. CASE UNCHANGED vars
  BY <1>9 DEF vars, Running, SeesTheJob
<1> QED
  BY <1>2, <1>3, <1>4, <1>5, <1>6, <1>7, <1>8, <1>9 DEF Next

LEMMA ProvenKept == JobTypes /\ ProofInv /\ [Next]_vars => ProofInv'
<1> SUFFICES ASSUME JobTypes, ProofInv, [Next]_vars PROVE ProofInv'
  OBVIOUS
<1> USE DEF ProofInv
<1>1. Unstarted'
  BY StageMoves, TriesGrow, LedgerGrows DEF Unstarted
<1>2. SeesTheJob'
  BY JobIsSeen
<1>3. \A c \in Calls : stage[c] # "new" => seen[c] \subseteq seen'[c]
  BY SeenGrows
<1>4. AboutToAct'
  <2>1. ASSUME NEW k \in Cancellers, stage'[k] = "dispatch"
        PROVE  \E r \in seen'[k] : Cancellable(r)
    <3>1. CASE stage[k] = "dispatch"
      BY <1>3, <3>1 DEF AboutToAct, Calls
    <3>2. CASE stage[k] # "dispatch"
      <4>1. Running(k) /\ Cancellable(job)
        BY <2>1, <3>2, StageMoves DEF Calls
      <4> QED
        BY <1>3, <4>1 DEF SeesTheJob, Running, Calls
    <3> QED
      BY <3>1, <3>2
  <2>2. ASSUME NEW a \in Adopters, stage'[a] = "append"
        PROVE  \E r \in seen'[a] : r.mine /\ r.named
    <3>1. CASE stage[a] = "append"
      BY <1>3, <3>1 DEF AboutToAct, Calls
    <3>2. CASE stage[a] # "append"
      <4>1. Running(a) /\ job.mine /\ job.named
        BY <2>2, <3>2, StageMoves DEF Calls
      <4> QED
        BY <1>3, <4>1 DEF SeesTheJob, Running, Calls
    <3> QED
      BY <3>1, <3>2
  <2> QED
    BY <2>1, <2>2 DEF AboutToAct, Cancellable
<1>5. CancelsOnlyProven'
  <2> SUFFICES ASSUME NEW k \in Cancellers, tries'[k] > 0
               PROVE  \E r \in seen'[k] : Cancellable(r)
    BY DEF CancelsOnlyProven, Cancellable
  <2>1. stage[k] # "new" /\ \E r \in seen[k] : Cancellable(r)
    BY TriesGrow DEF Unstarted, AboutToAct, ActsOnlyOnProven, CancelsOnlyProven, Cancellable, Calls
  <2> QED
    BY <1>3, <2>1 DEF Calls
<1>6. AdoptsOnlyOwned'
  <2> SUFFICES ASSUME NEW a \in Adopters, Adopted(a)'
               PROVE  \E r \in seen'[a] : r.mine /\ r.named
    BY DEF AdoptsOnlyOwned, Adopted
  <2>1. stage[a] # "new" /\ \E r \in seen[a] : r.mine /\ r.named
    BY LedgerGrows DEF Unstarted, AboutToAct, ActsOnlyOnProven, AdoptsOnlyOwned, Adopted, Calls
  <2> QED
    BY <1>3, <2>1 DEF Calls
<1> QED
  BY <1>1, <1>2, <1>4, <1>5, <1>6 DEF ActsOnlyOnProven

-----------------------------------------------------------------------------
(* The audit log, written or cut short: in both files there is the end of  *)
(* the trail, and rotation only drops lines once there are enough.         *)
KeepsEnd(log, lines) ==
    /\ Ends(log.old \o log.cur, lines)
    /\ Len(log.old \o log.cur) >= IF Len(lines) < AuditLines THEN Len(lines) ELSE AuditLines

LEMMA RecentIsEnd ==
    ASSUME NEW log \in Log(Lines), NEW lines \in Seq(Lines)
    PROVE  IsSuffix(log.old \o log.cur, lines) <=> Ends(log.old \o log.cur, lines)
<1>1. log.old \o log.cur \in Seq(Lines)
  BY ConcatProperties DEF Log
<1> QED
  BY <1>1, SuffixEnds

LEMMA RotationKeepsEnd ==
    ASSUME NEW S, NEW log \in Log(S), NEW lines \in Seq(S), KeepsEnd(log, lines),
           Full(log, AuditLines)
    PROVE  /\ Ends(log.cur, lines)
           /\ \A empty \in Seq(S) : Len(empty) = 0 =>
                /\ KeepsEnd([old |-> log.cur, cur |-> empty], lines)
                /\ KeepsEnd([old |-> empty, cur |-> log.cur], lines)
<1>1. log.cur \in Seq(S) /\ log.old \in Seq(S) /\ Len(log.cur) \in Nat /\ Len(lines) \in Nat
      /\ Len(log.cur) >= AuditLines
  BY LenProperties DEF Log, Full
<1>2. Ends(log.cur, lines)
  BY <1>1, EndsWithoutHead DEF KeepsEnd
<1>3. ASSUME NEW empty \in Seq(S), Len(empty) = 0
      PROVE  log.cur \o empty = log.cur /\ empty \o log.cur = log.cur
  <2>1. empty = <<>>
    BY <1>3, EmptySeq
  <2> QED
    BY <2>1, <1>1, ConcatEmptySeq
<1>4. Len(log.cur) >= IF Len(lines) < AuditLines THEN Len(lines) ELSE AuditLines
  BY <1>1, JobActionsAssumption
<1>5. ASSUME NEW both \in Log(S), both.old \o both.cur = log.cur
      PROVE  KeepsEnd(both, lines)
  BY <1>2, <1>4, <1>5, Zenon DEF KeepsEnd
<1>6. \A x, y \in Seq(S) : [old |-> x, cur |-> y] \in Log(S)
  BY DEF Log
<1> QED
  BY <1>1, <1>2, <1>3, <1>5, <1>6

LEMMA WritingKeepsEnd ==
    ASSUME NEW S, NEW log \in Log(S), NEW lines \in Seq(S), NEW line \in S,
           KeepsEnd(log, lines)
    PROVE  KeepsEnd(Written(log, AuditLines, line), Append(lines, line))
<1>1. log.cur \in Seq(S) /\ log.old \in Seq(S) /\ log.old \o log.cur \in Seq(S)
      /\ Append(log.cur, line) \in Seq(S)
  BY ConcatProperties, AppendProperties DEF Log
<1>2. \A s \in Seq(S) : Len(s) \in Nat /\ Len(Append(s, line)) = Len(s) + 1
  BY LenProperties, AppendProperties
<1>3. CASE ~Full(log, AuditLines)
  <2>1. /\ Written(log, AuditLines, line).old = log.old
        /\ Written(log, AuditLines, line).cur = Append(log.cur, line)
    BY <1>3 DEF Written, Log
  <2>2. log.old \o Append(log.cur, line) = Append(log.old \o log.cur, line)
    <3>1. line \in S /\ log.old \in Seq(S) /\ log.cur \in Seq(S)
      BY <1>1
    <3>2. \A s, u \in Seq(S) : s \o Append(u, line) = Append(s \o u, line)
      BY AppendToConcat
    <3> QED
      BY <3>1, <3>2, Zenon
  <2>3. Ends(Append(log.old \o log.cur, line), Append(lines, line))
    BY <1>1, EndsAfterAppend DEF KeepsEnd
  <2> DEFINE kept == log.old \o log.cur
  <2>4. /\ Len(Append(kept, line)) = Len(kept) + 1 /\ Len(Append(lines, line)) = Len(lines) + 1
        /\ Len(kept) \in Nat /\ Len(lines) \in Nat
        /\ Len(kept) >= IF Len(lines) < AuditLines THEN Len(lines) ELSE AuditLines
    BY <1>1, <1>2 DEF KeepsEnd
  <2> SUFFICES /\ Ends(Append(kept, line), Append(lines, line))
               /\ Len(Append(kept, line)) >= IF Len(Append(lines, line)) < AuditLines
                                             THEN Len(Append(lines, line)) ELSE AuditLines
    BY <2>1, <2>2, Zenon DEF KeepsEnd
  <2>5. Ends(Append(kept, line), Append(lines, line))
    BY <2>3
  <2> HIDE DEF kept
  <2> QED
    BY <2>4, <2>5, JobActionsAssumption
<1>4. CASE Full(log, AuditLines)
  <2>1. /\ Written(log, AuditLines, line).old = log.cur
        /\ Written(log, AuditLines, line).cur = Append(<<>>, line)
    BY <1>4 DEF Written, Rotated
  <2>2. <<>> \in Seq(S) /\ log.cur \o Append(<<>>, line) = Append(log.cur \o <<>>, line)
        /\ log.cur \o <<>> = log.cur
    BY <1>1, AppendToConcat, ConcatEmptySeq, EmptySeq
  <2>3. Ends(Append(log.cur, line), Append(lines, line))
    BY <1>1, <1>4, RotationKeepsEnd, EndsAfterAppend
  <2>4. Len(log.cur) >= AuditLines
    BY <1>4 DEF Full
  <2>5. /\ Len(Append(log.cur, line)) = Len(log.cur) + 1
        /\ Len(Append(lines, line)) = Len(lines) + 1
        /\ Len(log.cur) \in Nat /\ Len(lines) \in Nat
    BY <1>1, <1>2
  <2> SUFFICES /\ Ends(Append(log.cur, line), Append(lines, line))
               /\ Len(Append(log.cur, line)) >= IF Len(Append(lines, line)) < AuditLines
                                                THEN Len(Append(lines, line)) ELSE AuditLines
    BY <2>1, <2>2, Zenon DEF KeepsEnd
  <2> QED
    BY <2>3, <2>4, <2>5, JobActionsAssumption
<1> QED
  BY <1>3, <1>4

LEMMA RecentKept == JobTypes /\ AuditKeepsRecent /\ [Next]_vars => AuditKeepsRecent'
<1> SUFFICES ASSUME JobTypes, AuditKeepsRecent, [Next]_vars PROVE AuditKeepsRecent'
  OBVIOUS
<1>1. JobTypes' /\ KeepsEnd(audit, trail) /\ audit \in Log(Lines) /\ trail \in Seq(Lines)
  BY TypesKept, RecentIsEnd DEF JobTypes, AuditKeepsRecent, KeepsEnd
<1>2. SUFFICES KeepsEnd(audit', trail')
  BY <1>1, RecentIsEnd DEF JobTypes, AuditKeepsRecent, KeepsEnd
<1>3. ASSUME NEW c \in Calls, NEW result \in {"attempted", "succeeded", "rejected"},
             Record(c, result)
      PROVE  KeepsEnd(audit', trail')
  <2>1. <<c, result>> \in Lines
    BY DEF Lines
  <2> QED
    BY <1>1, <1>3, <2>1, WritingKeepsEnd DEF Record
<1>4. CASE Kill
  <2>1. trail' = trail /\ (audit' = audit \/ audit' \in HalfWritten(audit, AuditLines))
    BY <1>4 DEF Kill
  <2>2. ASSUME Full(audit, AuditLines)
        PROVE  KeepsEnd(WithoutBackup(audit), trail) /\ KeepsEnd(Rotated(audit), trail)
    <3>1. <<>> \in Seq(Lines) /\ Len(<<>>) = 0
      BY EmptySeq
    <3>2. WithoutBackup(audit) = [old |-> <<>>, cur |-> audit.cur]
      BY <1>1 DEF WithoutBackup, Log
    <3> QED
      BY <1>1, <2>2, <3>1, <3>2, RotationKeepsEnd DEF Rotated
  <2> QED
    BY <1>1, <2>1, <2>2 DEF HalfWritten
<1>5. CASE UNCHANGED <<audit, trail>>
  BY <1>1, <1>5
<1> QED
  BY <1>3, <1>4, <1>5
     DEF Next, vars, JobChanges, Start, RecordAttempt, RecordOutcome, ReadQueue, ReadControl,
         Dispatch, AskQueue, AskAccounting, AppendAdoption

LEMMA RecentAtStart == Init => AuditKeepsRecent
<1> SUFFICES ASSUME Init PROVE KeepsEnd(audit, trail)
  BY JobStart, RecentIsEnd DEF JobTypes, AuditKeepsRecent, KeepsEnd
<1>1. <<>> \o <<>> = <<>> /\ Len(<<>>) = 0
  BY ConcatEmptySeq, EmptySeq
<1> QED
  BY <1>1, JobActionsAssumption DEF Init, EmptyLog, KeepsEnd, Ends

-----------------------------------------------------------------------------
LEMMA JobsAlways == Spec => [](JobTypes /\ AuditInv /\ ProofInv /\ AuditKeepsRecent)
<1> DEFINE I == JobTypes /\ AuditInv /\ ProofInv /\ AuditKeepsRecent
<1>1. Init => I
  BY JobStart, ProofStart, RecentAtStart
<1>2. I /\ [Next]_vars => I'
  BY TypesKept, AuditedKept, ProvenKept, RecentKept
<1> QED
  BY <1>1, <1>2, PTL DEF Spec

(* A job is cancelled or adopted only by a call whose attempt is a line of *)
(* the audit log, whatever fails and whenever the server dies              *)
(* (README.md:177).                                                        *)
THEOREM EffectsAlwaysAudited == Spec => []EffectsAreAudited
<1>1. AuditInv => EffectsAreAudited
  BY DEF AuditInv
<1> QED
  BY <1>1, JobsAlways, PTL

(* No rotation and no kill inside one loses any of the last AuditLines     *)
(* lines of the log, for any limit (audit.rs:110, 146).                    *)
THEOREM RotationKeepsRecent == Spec => []AuditKeepsRecent
  BY JobsAlways, PTL

(* Every scancel and every adoption is for what was, at a moment after the *)
(* call began, provably the caller's to act on (README.md:160).            *)
THEOREM ActsAreProven == Spec => []ActsOnlyOnProven
<1>1. ProofInv => ActsOnlyOnProven
  BY DEF ProofInv
<1> QED
  BY <1>1, JobsAlways, PTL

-----------------------------------------------------------------------------
(* Reading a log (module JobLog): what clients that follow their cursor    *)
(* are shown of a log that is not cut.                                     *)

DataTypes == [inode: Nat, epoch: Nat, size: Nat, offset: Nat, inc: Nat, at: Nat, len: Nat]

LogRequests ==
    [op: {"none", "metadata", "window", "range"}, stage: {"idle", "lookup", "open", "read"},
     direct: BOOLEAN, inode: 0..MaxFiles, size: Nat]
Texts == [inc: Nat, end: Nat, whole: BOOLEAN]

LogTypes ==
    /\ files \in [Inodes -> [inc: Nat, size: Nat]]
    /\ current \in 0..MaxFiles /\ cuts \in Nat
    /\ \A e, f \in cache : e = f
    /\ \A e \in cache : e \in [fresh: BOOLEAN, data: DataTypes]
    /\ request \in [Actors -> LogRequests]
    /\ \A a \in Actors :
         /\ request[a].stage = "read" => request[a].inode \in Inodes
         /\ request[a].stage # "idle" => request[a].op # "none"
    /\ cursor \in [Readers -> [inode: Nat, epoch: Nat, off: Nat]]
    /\ text \in [Readers -> Texts]

(* What a read claims and what it holds, of a log that was not cut: bytes  *)
(* of the content of its inode, none of them before the claimed offset.    *)
Sound(d) ==
    /\ d.offset <= d.at
    /\ d.inode # 0 => d.inode \in 1..current /\ d.inc = d.inode
    /\ d.inode = 0 => d.size = 0 /\ d.offset = 0 /\ d.at = 0 /\ d.len = 0

(* Metadata and windows reach to the claimed size, and not beyond the end. *)
ReachesEnd(d) ==
    /\ d.size <= d.at + d.len
    /\ d.inode # 0 => d.at + d.len <= files[d.inode].size
    /\ ~Remote => d.at = d.offset

Opened(a) ==
    request[a].stage = "read" =>
        /\ request[a].inode \in 1..current
        /\ request[a].size <= files[request[a].inode].size

RequestsFit ==
    /\ \A r \in Readers : request[r].op = "range" => cursor[r].inode # 0
    /\ \A a \in Samplers : request[a].op \in {"none", "metadata"}

LogFacts ==
    /\ \A i \in Inodes : files[i].inc = i
    /\ \A e \in cache : Sound(e.data) /\ ReachesEnd(e.data)
    /\ \A a \in Actors : Opened(a)
    /\ \A r \in Readers : cursor[r].off <= text[r].end
    /\ RequestsFit

Follows(r) ==
    /\ text[r].whole
    /\ cursor[r].inode # 0 => text[r].inc = 1

OneFile == current <= 1 /\ cuts = 0

LogInv ==
    /\ LogTypes
    /\ cuts = 0 => LogFacts
    /\ OneFile => \A r \in Readers : Follows(r)

-----------------------------------------------------------------------------
LEMMA Subtraction ==
    ASSUME NEW a \in Nat, NEW b \in Nat
    PROVE  /\ Saturating(a, b) \in Nat
           /\ a <= b => Saturating(a, b) = 0
           /\ a > b => Saturating(a, b) = a - b
           /\ Least(a, b) \in Nat /\ Least(a, b) <= a /\ Least(a, b) <= b
           /\ Least(a, b) \in {a, b}
  BY DEF Saturating, Least

LEMMA SomeEntry ==
    ASSUME cache # {}
    PROVE  (CHOOSE e \in cache : TRUE) \in cache
  OBVIOUS

LEMMA LogInitInv == LogInit => LogInv
  <1> SUFFICES ASSUME LogInit PROVE LogInv
    OBVIOUS
  <1>1. LogTypes
    BY JobLogAssumption DEF LogInit, LogTypes, LogRequests, Texts, Inodes, NoRequest, NoCursor, NoText
  <1>2. LogFacts
    BY DEF LogInit, LogFacts, Opened, RequestsFit, NoRequest, NoCursor, NoText, Actors
  <1>3. \A r \in Readers : Follows(r)
    BY DEF LogInit, Follows, NoText, NoCursor
  <1> QED BY <1>1, <1>2, <1>3 DEF LogInv

-----------------------------------------------------------------------------
(* Types. *)
LEMMA BytesType ==
    ASSUME LogTypes, NEW a \in Actors, request[a].stage = "read"
    PROVE  Bytes(request[a].op, request[a].inode, request[a].size, Offset(a)) \in DataTypes
  <1> DEFINE op == request[a].op
             size == request[a].size
             off == Offset(a)
             now == files[request[a].inode]
             offset == ReadBounds(op, size, off)
             at == IF Remote /\ op = "window" THEN Saturating(now.size, Window)
                   ELSE IF Remote /\ op = "range" THEN off
                   ELSE offset
  <1>1. /\ op \in {"metadata", "window", "range"} /\ size \in Nat
        /\ request[a].inode \in Nat /\ now \in [inc: Nat, size: Nat]
    <2>1. request[a] \in LogRequests
      BY DEF LogTypes
    <2>2. op # "none" /\ request[a].inode \in Inodes
      <3>1. request[a].stage # "idle"
        OBVIOUS
      <3> HIDE DEF op
      <3> QED BY <3>1, Zenon DEF LogTypes, op
    <2>3. request[a].inode \in Nat /\ size \in Nat
      BY <2>1, <2>2 DEF LogRequests, Inodes
    <2>4. now \in [inc: Nat, size: Nat]
      BY <2>2 DEF LogTypes
    <2>5. op \in {"none", "metadata", "window", "range"}
      BY <2>1 DEF LogRequests
    <2> QED BY <2>2, <2>3, <2>4, <2>5
  <1>2. off \in Nat
    BY DEF Offset, LogTypes
  <1>3. Window \in Nat /\ Payload \in Nat
    BY JobLogAssumption
  <1>4. offset \in Nat
    BY <1>1, <1>2, <1>3, Subtraction DEF ReadBounds
  <1>5. at \in Nat /\ now.size \in Nat /\ now.inc \in Nat
    BY <1>1, <1>2, <1>3, <1>4, Subtraction
  <1>6. Limit(op) \in Nat
    BY <1>1, <1>3 DEF Limit
  <1>7. Least(Limit(op), Saturating(now.size, at)) \in Nat
    BY <1>5, <1>6, Subtraction
  <1> HIDE DEF op, size, off, now, offset, at
  <1> QED BY <1>1, <1>4, <1>5, <1>7 DEF Bytes, DataTypes, op, size, off, now, offset, at

LEMMA PartType ==
    ASSUME NEW d \in DataTypes, NEW op, NEW off \in Nat, Covers(d, op, off), ~Panics(d, op, off),
           op \in {"metadata", "window", "range"}
    PROVE  Part(d, op, off) \in DataTypes
  <1>1. CASE op = "metadata"
    BY <1>1 DEF Part, MetadataOnly, DataTypes
  <1>2. CASE op = "window"
    BY <1>2 DEF Part
  <1>3. CASE op = "range"
    <2>1. off >= d.offset /\ off <= RangeEnd(d, off)
      BY <1>3, JobLogAssumption DEF Covers, Panics, RangeEnd, Least, DataTypes
    <2>2. RangeEnd(d, off) \in Nat
      <3>1. off + Payload \in Nat /\ d.size \in Nat
        BY JobLogAssumption DEF DataTypes
      <3> QED BY <3>1, Subtraction DEF RangeEnd
    <2>3. d.at + off - d.offset \in Nat /\ RangeEnd(d, off) - off \in Nat
      BY <2>1, <2>2 DEF DataTypes
    <2> QED BY <1>3, <2>3 DEF Part, DataTypes
  <1> QED BY <1>1, <1>2, <1>3

LEMMA EpochTypes ==
    ASSUME LogTypes, NEW d \in DataTypes
    PROVE  Stored(d) \in DataTypes /\ WithGeneration(d) \in DataTypes /\ MetadataOnly(d) \in DataTypes
  <1>1. cache # {} => (CHOOSE e \in cache : TRUE).data \in DataTypes
    BY SomeEntry DEF LogTypes
  <1>2. EpochOf(d) \in Nat
    BY <1>1 DEF EpochOf, DataTypes
  <1>3. Stored(d) \in DataTypes
    BY <1>2 DEF Stored, DataTypes
  <1>4. WithGeneration(d) \in DataTypes
    BY <1>1 DEF WithGeneration, DataTypes
  <1> QED BY <1>3, <1>4 DEF MetadataOnly, DataTypes

LEMMA MovesType ==
    ASSUME LogTypes, NEW a \in Actors, NEW op \in {"none", "metadata", "window", "range"},
           NEW place \in {"idle", "lookup"}, place # "idle" => op # "none", Moves(a, op, place)
    PROVE  /\ request' \in [Actors -> LogRequests]
           /\ \A b \in Actors :
                /\ request'[b].stage = "read" => request'[b].inode \in Inodes
                /\ request'[b].stage # "idle" => request'[b].op # "none"
  <1> DEFINE new == [NoRequest EXCEPT !.op = op, !.stage = place]
  <1>1. NoRequest \in LogRequests
    BY JobLogAssumption DEF NoRequest, LogRequests
  <1>2. new \in LogRequests /\ new.op = op /\ new.stage = place
    BY <1>1 DEF LogRequests
  <1>3. request' = [request EXCEPT ![a] = new]
    BY DEF Moves
  <1> HIDE DEF new
  <1> QED BY <1>2, <1>3 DEF LogTypes

LEMMA AnswerTypes ==
    ASSUME LogTypes, NEW a \in Actors, NEW d \in DataTypes, Answer(a, d), UNCHANGED fileVars,
           \A e, f \in cache' : e = f,
           \A e \in cache' : e \in [fresh: BOOLEAN, data: DataTypes]
    PROVE  LogTypes'
  <1>1. PICK op \in {"none", "window", "range"}, place \in {"idle", "lookup"} :
          Moves(a, op, place) /\ (place # "idle" => op # "none")
    BY DEF Answer
  <1>2. cursor' \in [Readers -> [inode: Nat, epoch: Nat, off: Nat]]
    BY DEF Answer, LogTypes, clientVars, CursorAt, NoCursor, Consumed, DataTypes
  <1>3. text' \in [Readers -> Texts]
    <2>1. ASSUME NEW t \in Texts PROVE Continued(t, d) \in Texts
      BY DEF Continued, DataTypes, Texts
    <2>2. [inc |-> d.inc, end |-> d.at + d.len, whole |-> TRUE] \in Texts
      BY DEF DataTypes, Texts
    <2>3. \/ text' = text
          \/ a \in Readers /\ \E t \in {Continued(text[a], d),
                                      [inc |-> d.inc, end |-> d.at + d.len, whole |-> TRUE]} :
               text' = [text EXCEPT ![a] = t]
      BY DEF Answer, clientVars
    <2>4. ASSUME a \in Readers, NEW t \in {Continued(text[a], d),
                                      [inc |-> d.inc, end |-> d.at + d.len, whole |-> TRUE]},
                 text' = [text EXCEPT ![a] = t]
          PROVE  text' \in [Readers -> Texts]
      <3>1. text \in [Readers -> Texts] /\ text[a] \in Texts
        BY <2>4 DEF LogTypes
      <3>2. t \in Texts
        BY <2>1, <2>2, <2>4, <3>1
      <3> QED BY <2>4, <3>1, <3>2
    <2> QED BY <2>3, <2>4 DEF LogTypes
  <1> QED BY <1>1, <1>2, <1>3, MovesType DEF LogTypes, fileVars, Inodes

LEMMA DeliverTypes ==
    ASSUME LogTypes, NEW a \in Actors, NEW d \in DataTypes, Deliver(a, d), UNCHANGED fileVars
    PROVE  LogTypes'
  <1>1. CASE request[a].direct
    BY <1>1, AnswerTypes DEF Deliver, LogTypes
  <1>2. CASE ~request[a].direct /\ request[a].op = "range"
    BY <1>2, AnswerTypes, EpochTypes DEF Deliver, LogTypes
  <1>3. CASE ~request[a].direct /\ request[a].op # "range"
    <2>1. cache' = {[fresh |-> TRUE, data |-> Stored(d)]}
      BY <1>3 DEF Deliver
    <2>2. [fresh |-> TRUE, data |-> Stored(d)] \in [fresh: BOOLEAN, data: DataTypes]
      BY EpochTypes
    <2>3. Answer(a, MetadataOnly(Stored(d))) \/ Answer(a, Stored(d))
      BY <1>3 DEF Deliver
    <2>4. MetadataOnly(Stored(d)) \in DataTypes /\ Stored(d) \in DataTypes
      BY EpochTypes
    <2> HIDE DEF Stored, MetadataOnly
    <2> QED BY <2>1, <2>2, <2>3, <2>4, AnswerTypes
  <1> QED BY <1>1, <1>2, <1>3

(* Every action keeps the types and which fields go together. *)
LEMMA LogTypesNext == LogTypes /\ [LogNext]_logVars => LogTypes'
  <1> SUFFICES ASSUME LogTypes, [LogNext]_logVars PROVE LogTypes'
    OBVIOUS
  <1>1. CASE JobWrites \/ Rotate \/ Truncate
    <2>1. UNCHANGED <<cache, request, clientVars>>
      BY <1>1 DEF JobWrites, Rotate, Truncate
    <2>2. /\ files' \in [Inodes -> [inc: Nat, size: Nat]]
          /\ current' \in 0..MaxFiles /\ cuts' \in Nat
      <3>1. ASSUME current # 0
            PROVE  current \in Inodes /\ files[current] \in [inc: Nat, size: Nat]
        <4>1. current \in Inodes
          BY <3>1 DEF LogTypes, Inodes
        <4> QED BY <4>1 DEF LogTypes
      <3>2. CASE JobWrites
        BY <3>1, <3>2 DEF JobWrites, LogTypes
      <3>3. CASE Rotate
        BY <3>3, JobLogAssumption DEF Rotate, LogTypes
      <3>4. CASE Truncate
        BY <3>1, <3>4, JobLogAssumption DEF Truncate, LogTypes
      <3> QED BY <1>1, <3>2, <3>3, <3>4
    <2> QED BY <2>1, <2>2 DEF LogTypes, clientVars, Inodes, LogRequests
  <1>2. CASE Expire \/ Forget
    <2>1. UNCHANGED <<fileVars, request, clientVars>>
      BY <1>2 DEF Expire, Forget
    <2>2. /\ \A e, f \in cache' : e = f
          /\ \A e \in cache' : e \in [fresh: BOOLEAN, data: DataTypes]
      BY <1>2 DEF Expire, Forget, LogTypes
    <2> QED BY <2>1, <2>2 DEF LogTypes, fileVars, clientVars, Inodes, LogRequests
  <1>3. ASSUME NEW a \in Actors, Ask(a) \/ Refused(a) PROVE LogTypes'
    <2>1. PICK op \in {"none", "metadata", "window"}, place \in {"idle", "lookup"} :
            Moves(a, op, place) /\ (place # "idle" => op # "none")
      BY <1>3 DEF Ask, Refused
    <2>2. UNCHANGED <<fileVars, cache, clientVars>>
      BY <1>3 DEF Ask, Refused
    <2> QED BY <2>1, <2>2, MovesType DEF LogTypes, fileVars, clientVars, Inodes
  <1>4. ASSUME NEW a \in Actors, request[a].stage = "lookup",
               request' \in {request, [request EXCEPT ![a].stage = "open"],
                             [request EXCEPT ![a].stage = "open", ![a].direct = TRUE]},
               UNCHANGED <<fileVars, cache, clientVars>>
        PROVE  LogTypes'
    <2>1. request[a] \in LogRequests /\ request[a].op # "none"
      BY <1>4 DEF LogTypes
    <2>2. /\ request' \in [Actors -> LogRequests]
          /\ \A b \in Actors :
               /\ request'[b].stage = "read" => request'[b].inode \in Inodes
               /\ request'[b].stage # "idle" => request'[b].op # "none"
      <3>1. CASE request' = request
        BY <3>1 DEF LogTypes
      <3>2. ASSUME NEW new \in LogRequests, new.stage = "open", new.op # "none",
                   request' = [request EXCEPT ![a] = new]
            PROVE  /\ request' \in [Actors -> LogRequests]
                   /\ \A b \in Actors :
                        /\ request'[b].stage = "read" => request'[b].inode \in Inodes
                        /\ request'[b].stage # "idle" => request'[b].op # "none"
        BY <3>2 DEF LogTypes
      <3>3. CASE request' = [request EXCEPT ![a].stage = "open"]
        <4> DEFINE new == [request[a] EXCEPT !.stage = "open"]
        <4>1. new \in LogRequests /\ new.stage = "open" /\ new.op # "none"
          BY <2>1 DEF LogRequests
        <4>2. request' = [request EXCEPT ![a] = new]
          BY <3>3 DEF LogTypes
        <4> HIDE DEF new
        <4> QED BY <3>2, <4>1, <4>2
      <3>4. CASE request' = [request EXCEPT ![a].stage = "open", ![a].direct = TRUE]
        <4> DEFINE new == [request[a] EXCEPT !.stage = "open", !.direct = TRUE]
        <4>1. new \in LogRequests /\ new.stage = "open" /\ new.op # "none"
          BY <2>1 DEF LogRequests
        <4>2. request' = [request EXCEPT ![a] = new]
          BY <3>4 DEF LogTypes
        <4> HIDE DEF new
        <4> QED BY <3>2, <4>1, <4>2
      <3> QED BY <1>4, <3>1, <3>3, <3>4
    <2> QED BY <1>4, <2>2 DEF LogTypes, fileVars, clientVars, Inodes
  <1>5. ASSUME NEW a \in Actors, Bypass(a) PROVE LogTypes'
    BY <1>4, <1>5 DEF Bypass
  <1>6. ASSUME NEW a \in Actors, Open(a) PROVE LogTypes'
    <2>1. request[a] \in LogRequests /\ request[a].op # "none"
      BY <1>6 DEF LogTypes, Open
    <2>2. current \in Inodes /\ current \in 0..MaxFiles /\ files[current].size \in Nat
      BY <1>6 DEF LogTypes, Open, Inodes
    <2>3. /\ request' \in [Actors -> LogRequests]
          /\ \A b \in Actors :
               /\ request'[b].stage = "read" => request'[b].inode \in Inodes
               /\ request'[b].stage # "idle" => request'[b].op # "none"
      BY <1>6, <2>1, <2>2 DEF Open, LogTypes, LogRequests
    <2> QED BY <1>6, <2>3 DEF Open, LogTypes, fileVars, clientVars, Inodes
  <1>7. ASSUME NEW a \in Actors, Lookup(a) PROVE LogTypes'
    <2>1. CASE UNCHANGED clientVars /\ request' \in {request, [request EXCEPT ![a].stage = "open"],
                             [request EXCEPT ![a].stage = "open", ![a].direct = TRUE]}
      BY <1>4, <1>7, <2>1 DEF Lookup
    <2>2. ASSUME NEW e \in cache, Covers(e.data, request[a].op, Offset(a)),
                 ~Panics(e.data, request[a].op, Offset(a)),
                 Answer(a, Part(e.data, request[a].op, Offset(a)))
          PROVE  LogTypes'
      <3>1. e.data \in DataTypes /\ request[a].op \in {"metadata", "window", "range"}
        BY <1>7 DEF LogTypes, Lookup, LogRequests
      <3>2. Offset(a) \in Nat
        BY DEF Offset, LogTypes
      <3>3. Part(e.data, request[a].op, Offset(a)) \in DataTypes
        BY <2>2, <3>1, <3>2, PartType
      <3> QED BY <1>7, <2>2, <3>3, AnswerTypes DEF Lookup, LogTypes
    <2> QED BY <1>7, <2>1, <2>2 DEF Lookup
  <1>8. ASSUME NEW a \in Actors, Missing(a) PROVE LogTypes'
    BY <1>8, DeliverTypes DEF Missing, Unavailable, DataTypes
  <1>9. ASSUME NEW a \in Actors, Read(a) PROVE LogTypes'
    BY <1>9, DeliverTypes, BytesType DEF Read
  <1>10. CASE UNCHANGED logVars
    BY <1>10 DEF logVars, fileVars, clientVars, LogTypes, Inodes, LogRequests
  <1> QED BY <1>1, <1>2, <1>3, <1>5, <1>6, <1>7, <1>8, <1>9, <1>10 DEF LogNext, Step

-----------------------------------------------------------------------------
(* What replies hold, of a log that was not cut.                           *)

(* A reply to a: none of its bytes before the offset it claims, a window   *)
(* up to the size it claims, a range without bytes not beyond the cursor.  *)
Told(a, d) ==
    /\ d \in DataTypes /\ Sound(d)
    /\ request[a].op # "range" => ReachesEnd(d)
    /\ request[a].op = "range" => (d.len = 0 => d.offset <= Offset(a))

LEMMA OffsetType ==
    ASSUME LogTypes, NEW a \in Actors
    PROVE  Offset(a) \in Nat
  BY DEF Offset, LogTypes

LEMMA InodeTypes ==
    ASSUME LogTypes
    PROVE  \A i \in 1..current : i \in Inodes /\ files[i].size \in Nat
  <1>1. current \in 0..MaxFiles /\ MaxFiles \in Nat
    BY JobLogAssumption DEF LogTypes
  <1>2. 1..current \subseteq Inodes
    BY <1>1 DEF Inodes
  <1> QED BY <1>2 DEF LogTypes

LEMMA BytesTold ==
    ASSUME LogTypes, LogFacts, NEW a \in Actors, request[a].stage = "read"
    PROVE  LET d == Bytes(request[a].op, request[a].inode, request[a].size, Offset(a))
           IN  /\ Told(a, d)
               /\ request[a].op = "range" => d.at <= Offset(a)
  <1> DEFINE op == request[a].op
             size == request[a].size
             inode == request[a].inode
             off == Offset(a)
             now == files[inode]
             offset == ReadBounds(op, size, off)
             at == IF Remote /\ op = "window" THEN Saturating(now.size, Window)
                   ELSE IF Remote /\ op = "range" THEN off
                   ELSE offset
             len == Least(Limit(op), Saturating(now.size, at))
             d == Bytes(op, inode, size, off)
  <1>1. /\ op \in {"metadata", "window", "range"} /\ size \in Nat /\ off \in Nat
        /\ inode \in Inodes /\ now.size \in Nat
    BY OffsetType DEF LogTypes, LogRequests
  <1>2. inode \in 1..current /\ size <= now.size /\ now.inc = inode
    BY <1>1 DEF LogFacts, Opened
  <1>3. d = [inode |-> inode, epoch |-> 0, size |-> size, offset |-> offset,
             inc |-> now.inc, at |-> at, len |-> len]
    BY DEF Bytes
  <1>4. d \in DataTypes
    BY BytesType
  <1>5. Window \in Nat /\ Payload \in Nat
    BY JobLogAssumption
  <1>6. CASE op = "metadata"
    <2>1. offset = size /\ at = size
      BY <1>6 DEF ReadBounds
    <2>2. len = 0
      BY <1>1, <1>5, <1>6, <2>1 DEF Limit, Least, Saturating
    <2> HIDE DEF op, size, inode, off, now, offset, at, len, d
    <2> QED BY <1>1, <1>2, <1>3, <1>4, <1>6, <2>1, <2>2 DEF Told, Sound, ReachesEnd, op, d, size, inode, off, now
  <1>7. CASE op = "window"
    <2>1. offset = Saturating(size, Window)
      BY <1>7 DEF ReadBounds
    <2>2. at = IF Remote THEN Saturating(now.size, Window) ELSE offset
      BY <1>7
    <2>3. len = Least(Window, Saturating(now.size, at))
      BY <1>7 DEF Limit
    <2> HIDE DEF op, size, inode, off, now, offset, at, len, d
    <2>4. /\ offset <= at /\ size <= at + len /\ at + len <= now.size
      BY <1>1, <1>2, <1>5, <2>1, <2>2, <2>3 DEF Saturating, Least
    <2> QED BY <1>1, <1>2, <1>3, <1>4, <1>7, <2>2, <2>4
            DEF Told, Sound, ReachesEnd, op, d, size, inode, off, now
  <1>8. CASE op = "range"
    <2>1. offset = Least(off, size)
      BY <1>8 DEF ReadBounds
    <2>2. at = IF Remote THEN off ELSE offset
      BY <1>8
    <2> HIDE DEF op, size, inode, off, now, offset, at, len, d
    <2>3. offset <= at /\ at <= off /\ offset <= off
      BY <1>1, <2>1, <2>2 DEF Least
    <2> QED BY <1>1, <1>2, <1>3, <1>4, <1>8, <2>3
            DEF Told, Sound, op, d, size, inode, off, now
  <1> QED BY <1>1, <1>6, <1>7, <1>8

LEMMA MetadataSound ==
    ASSUME LogTypes, NEW c \in DataTypes, Sound(c), ReachesEnd(c)
    PROVE  /\ MetadataOnly(c) \in DataTypes
           /\ Sound(MetadataOnly(c)) /\ ReachesEnd(MetadataOnly(c))
           /\ MetadataOnly(c).at = MetadataOnly(c).offset
  <1> DEFINE d == MetadataOnly(c)
  <1>1. /\ d.inode = c.inode /\ d.inc = c.inc /\ d.size = c.size /\ d.offset = c.size
        /\ d.at = c.size /\ d.len = 0
    BY DEF DataTypes, MetadataOnly
  <1>2. d \in DataTypes
    BY DEF DataTypes, MetadataOnly
  <1>3. c.inode # 0 => files[c.inode].size \in Nat
    BY InodeTypes DEF Sound
  <1> HIDE DEF d
  <1>4. Sound(d)
    BY <1>1 DEF Sound, DataTypes
  <1>5. ReachesEnd(d)
    BY <1>1, <1>3 DEF ReachesEnd, DataTypes
  <1> QED BY <1>1, <1>2, <1>4, <1>5 DEF d

(* The cached part of an entry. *)
LEMMA PartTold ==
    ASSUME LogTypes, LogFacts, NEW a \in Actors, NEW e \in cache,
           request[a].op # "none",
           Covers(e.data, request[a].op, Offset(a)), ~Panics(e.data, request[a].op, Offset(a))
    PROVE  LET d == Part(e.data, request[a].op, Offset(a))
           IN  /\ Told(a, d)
               /\ request[a].op = "range" /\ e.data.at = e.data.offset => d.at = Offset(a)
               /\ request[a].op = "range" => d.at + d.len <= e.data.at + e.data.len
               /\ request[a].op = "window" => d = e.data
  <1> DEFINE op == request[a].op
             off == Offset(a)
             c == e.data
             d == Part(c, op, off)
  <1>1. op \in {"metadata", "window", "range"} /\ off \in Nat /\ c \in DataTypes
    BY OffsetType DEF LogTypes, LogRequests
  <1>2. Sound(c) /\ ReachesEnd(c)
    BY DEF LogFacts
  <1>3. d \in DataTypes
    BY <1>1, PartType
  <1>4. CASE op = "metadata"
    <2>1. d = MetadataOnly(c)
      BY <1>4 DEF Part
    <2> QED BY <1>1, <1>2, <1>4, <2>1, MetadataSound DEF Told
  <1>5. CASE op = "window"
    BY <1>2, <1>3, <1>5 DEF Part, Told
  <1>6. CASE op = "range"
    <2>1. off >= c.offset /\ off <= RangeEnd(c, off) /\ RangeEnd(c, off) <= c.offset + c.len
      BY <1>1, <1>6, JobLogAssumption DEF Covers, Panics, RangeEnd, Least, DataTypes
    <2>2. RangeEnd(c, off) \in Nat
      <3>1. off + Payload \in Nat /\ c.size \in Nat
        BY <1>1, JobLogAssumption DEF DataTypes
      <3> QED BY <3>1, Subtraction DEF RangeEnd
    <2>3. d = [c EXCEPT !.offset = off, !.at = c.at + off - c.offset, !.len = RangeEnd(c, off) - off]
      BY <1>6 DEF Part
    <2>4. c.inode = 0 => off = 0 /\ RangeEnd(c, off) = 0
      <3>1. c.inode = 0 => c.offset = 0 /\ c.len = 0
        BY <1>2 DEF Sound
      <3> HIDE DEF c, off
      <3> QED BY <1>1, <2>1, <2>2, <3>1
    <2> HIDE DEF op, off, c, d
    <2>5. /\ d.inode = c.inode /\ d.inc = c.inc /\ d.size = c.size /\ d.offset = off
          /\ d.at = c.at + off - c.offset /\ d.len = RangeEnd(c, off) - off /\ d.epoch = c.epoch
      BY <1>1, <2>3 DEF DataTypes
    <2>6. d.inode = 0 => d.size = 0 /\ d.offset = 0 /\ d.at = 0 /\ d.len = 0
      BY <1>1, <1>2, <2>4, <2>5 DEF Sound, DataTypes
    <2>7. Sound(d)
      BY <1>1, <1>2, <2>1, <2>5, <2>6 DEF Sound, DataTypes
    <2>8. d.at + d.len <= c.at + c.len /\ (c.at = c.offset => d.at = off)
      BY <1>1, <2>1, <2>2, <2>5 DEF DataTypes
    <2> QED BY <1>1, <1>3, <1>6, <2>5, <2>7, <2>8 DEF Told, op, off, c, d
  <1> QED BY <1>1, <1>4, <1>5, <1>6

(* Only the generation changes when a reply is stored or looked up. *)
LEMMA SameBytes ==
    ASSUME LogTypes, NEW d \in DataTypes
    PROVE  \A s \in {Stored(d), WithGeneration(d)} :
             /\ s \in DataTypes
             /\ s.inode = d.inode /\ s.size = d.size /\ s.offset = d.offset
             /\ s.inc = d.inc /\ s.at = d.at /\ s.len = d.len
             /\ Sound(d) => Sound(s)
             /\ ReachesEnd(d) => ReachesEnd(s)
  <1>1. ASSUME NEW epoch \in Nat, NEW s, s = [d EXCEPT !.epoch = epoch]
        PROVE  /\ s.inode = d.inode /\ s.size = d.size /\ s.offset = d.offset
               /\ s.inc = d.inc /\ s.at = d.at /\ s.len = d.len
               /\ Sound(d) => Sound(s)
               /\ ReachesEnd(d) => ReachesEnd(s)
    BY <1>1 DEF DataTypes, Sound, ReachesEnd
  <1>2. cache # {} => (CHOOSE e \in cache : TRUE).data \in DataTypes
    BY SomeEntry DEF LogTypes
  <1>3. EpochOf(d) \in Nat
    BY <1>2 DEF EpochOf, DataTypes
  <1>4. Stored(d) = [d EXCEPT !.epoch = EpochOf(d)]
    BY DEF Stored
  <1>5. \E epoch \in Nat : WithGeneration(d) = [d EXCEPT !.epoch = epoch]
    <2>1. d = [d EXCEPT !.epoch = d.epoch] /\ d.epoch \in Nat
      BY DEF DataTypes
    <2> QED BY <1>2, <2>1 DEF WithGeneration, DataTypes
  <1> QED BY <1>1, <1>3, <1>4, <1>5, EpochTypes

(* What an answer does to the clients. *)
LEMMA AnswerShown ==
    ASSUME LogTypes, RequestsFit, NEW a \in Actors, NEW d, Told(a, d), Answer(a, d),
           \A r \in Readers : cursor[r].off <= text[r].end
    PROVE  /\ RequestsFit'
           /\ \A r \in Readers : cursor'[r].off <= text'[r].end
           /\ \A r \in Readers : r # a => cursor'[r] = cursor[r] /\ text'[r] = text[r]
           /\ \/ UNCHANGED clientVars /\ request[a].op \in {"none", "metadata"}
              \/ /\ a \in Readers /\ request[a].op = "window"
                 /\ cursor'[a].inode = d.inode
                 /\ text'[a] = [inc |-> d.inc, end |-> d.at + d.len, whole |-> TRUE]
              \/ /\ a \in Readers /\ request[a].op = "range"
                 /\ cursor'[a].inode = d.inode
                 /\ text'[a] = Continued(text[a], d)
  <1>0. d \in DataTypes /\ d.offset <= d.at
    BY DEF Told, Sound
  <1>1. \A b \in Actors : b # a => request'[b] = request[b]
    BY DEF Answer, Moves, LogTypes
  <1>2. CASE /\ UNCHANGED clientVars /\ request[a].op \in {"none", "metadata"}
             /\ request'[a].op = "range" => cursor[a].inode # 0
             /\ a \in Samplers => request'[a].op = "none"
    BY <1>1, <1>2 DEF clientVars, RequestsFit, Actors
  <1>3. CASE a \in Samplers /\ Moves(a, "none", "idle") /\ UNCHANGED clientVars
    <2>1. request'[a].op = "none"
      BY <1>3 DEF Moves, NoRequest, LogTypes
    <2>2. request[a].op \in {"none", "metadata"}
      BY <1>3 DEF RequestsFit
    <2> QED BY <1>2, <1>3, <2>1, <2>2
  <1>4. CASE /\ a \in Readers /\ request[a].op = "metadata"
             /\ Moves(a, IF Accepts(a, d) THEN "range" ELSE "window", "lookup")
             /\ UNCHANGED clientVars
    <2>1. request'[a].op = IF Accepts(a, d) THEN "range" ELSE "window"
      BY <1>4 DEF Moves, NoRequest, LogTypes
    <2>2. Accepts(a, d) => cursor[a].inode # 0
      BY DEF Accepts
    <2>3. a \notin Samplers
      BY <1>4, JobLogAssumption
    <2> QED BY <1>2, <1>4, <2>1, <2>2, <2>3
  <1>5. ASSUME a \in Readers, Moves(a, "none", "idle"), NEW off \in Nat, NEW t \in Texts,
               cursor' = [cursor EXCEPT ![a] = CursorAt(d, off)],
               text' = [text EXCEPT ![a] = t],
               off <= t.end
        PROVE  /\ RequestsFit'
               /\ \A r \in Readers : cursor'[r].off <= text'[r].end
               /\ \A r \in Readers : r # a => cursor'[r] = cursor[r] /\ text'[r] = text[r]
               /\ cursor'[a].inode = d.inode /\ text'[a] = t
    <2>1. request'[a].op = "none"
      BY <1>5 DEF Moves, NoRequest, LogTypes
    <2>2. \A r \in Readers : r # a => cursor'[r] = cursor[r] /\ text'[r] = text[r]
      BY <1>5 DEF LogTypes
    <2>3. cursor'[a] = CursorAt(d, off) /\ text'[a] = t
      BY <1>5 DEF LogTypes
    <2>4. cursor'[a].inode = d.inode /\ cursor'[a].off \in {0, off}
      BY <2>3 DEF CursorAt, NoCursor
    <2>5. cursor'[a].off <= text'[a].end
      BY <1>5, <2>3, <2>4 DEF Texts
    <2>6. RequestsFit'
      BY <1>1, <2>1, <2>2 DEF RequestsFit, Actors
    <2> QED BY <2>2, <2>3, <2>4, <2>5, <2>6
  <1>6. CASE /\ a \in Readers /\ request[a].op = "window"
             /\ Moves(a, "none", "idle")
             /\ cursor' = [cursor EXCEPT ![a] = CursorAt(d, d.size)]
             /\ text' = [text EXCEPT ![a] = [inc |-> d.inc, end |-> d.at + d.len, whole |-> TRUE]]
    <2>1. [inc |-> d.inc, end |-> d.at + d.len, whole |-> TRUE] \in Texts /\ d.size \in Nat
      BY <1>0 DEF DataTypes, Texts
    <2>2. d.size <= d.at + d.len
      BY <1>6 DEF Told, ReachesEnd
    <2> QED BY <1>5, <1>6, <2>1, <2>2
  <1>7. CASE /\ a \in Readers /\ request[a].op = "range"
             /\ Moves(a, "none", "idle")
             /\ cursor' = [cursor EXCEPT ![a] = CursorAt(d, Consumed(d))]
             /\ text' = [text EXCEPT ![a] = Continued(text[a], d)]
    <2>1. text[a] \in Texts /\ cursor[a].off <= text[a].end /\ cursor[a].off \in Nat
      BY <1>7 DEF LogTypes
    <2>2. Continued(text[a], d) \in Texts
      BY <1>0, <2>1 DEF Continued, DataTypes, Texts
    <2>3. Consumed(d) \in Nat
      BY <1>0 DEF Consumed, DataTypes
    <2>4. d.len = 0 => d.offset <= cursor[a].off
      BY <1>7 DEF Told, Offset
    <2>5. Consumed(d) <= Continued(text[a], d).end
      BY <1>0, <2>1, <2>4 DEF Consumed, Continued, DataTypes, Texts
    <2> QED BY <1>5, <1>7, <2>2, <2>3, <2>5
  <1> QED BY <1>2, <1>3, <1>4, <1>6, <1>7 DEF Answer, clientVars

(* How a request is answered, and what is stored. *)
Serving(a, d) ==
    /\ Told(a, d) /\ Answer(a, d) /\ UNCHANGED fileVars
    /\ \/ cache' = cache
       \/ \E s \in [fresh: BOOLEAN, data: DataTypes] :
             cache' = {s} /\ Sound(s.data) /\ ReachesEnd(s.data)
    /\ request[a].op = "range" =>
          \/ d.at <= Offset(a)
          \/ \E e \in cache : e.data.at # e.data.offset /\ d.at + d.len <= e.data.at + e.data.len

LEMMA DeliverServes ==
    ASSUME LogTypes, LogFacts, NEW a \in Actors, request[a].op # "none",
           NEW d, Told(a, d), Deliver(a, d), UNCHANGED fileVars,
           request[a].op = "range" => d.at <= Offset(a)
    PROVE  \E x : Serving(a, x)
  <1>0. d \in DataTypes /\ Sound(d)
    BY DEF Told
  <1>1. CASE request[a].direct
    <2>1. Answer(a, d) /\ cache' = cache
      BY <1>1 DEF Deliver
    <2>2. Serving(a, d)
      BY <2>1 DEF Serving
    <2> QED BY <2>2
  <1>2. CASE ~request[a].direct /\ request[a].op = "range"
    <2> DEFINE x == WithGeneration(d)
    <2>1. Answer(a, x) /\ cache' = cache
      BY <1>2 DEF Deliver
    <2>2. x \in DataTypes /\ Sound(x) /\ x.at = d.at /\ x.len = d.len /\ x.offset = d.offset
      BY <1>0, SameBytes
    <2> HIDE DEF x
    <2>3. Serving(a, x)
      BY <1>2, <2>1, <2>2 DEF Serving, Told
    <2> QED BY <2>3
  <1>3. CASE ~request[a].direct /\ request[a].op # "range"
    <2> DEFINE s == Stored(d)
               x == IF request[a].op = "metadata" THEN MetadataOnly(s) ELSE s
    <2>1. Answer(a, x) /\ cache' = {[fresh |-> TRUE, data |-> s]}
      BY <1>3 DEF Deliver
    <2>2. /\ s \in DataTypes /\ Sound(s) /\ ReachesEnd(s)
          /\ s.at = d.at /\ s.len = d.len /\ s.offset = d.offset
      BY <1>0, <1>3, SameBytes DEF Told
    <2> HIDE DEF s
    <2>3. x \in DataTypes /\ Sound(x) /\ ReachesEnd(x) /\ (request[a].op = "window" => x = s)
      BY <2>2, MetadataSound
    <2>4. request[a].op \in {"metadata", "window"}
      BY <1>3 DEF LogTypes, LogRequests
    <2> HIDE DEF x
    <2>5. Told(a, x)
      BY <1>3, <2>3 DEF Told
    <2>6. \E y \in [fresh: BOOLEAN, data: DataTypes] :
             cache' = {y} /\ Sound(y.data) /\ ReachesEnd(y.data)
      <3>1. [fresh |-> TRUE, data |-> s] \in [fresh: BOOLEAN, data: DataTypes]
        BY <2>2
      <3> QED BY <2>1, <2>2, <3>1
    <2>7. Serving(a, x)
      BY <1>3, <2>1, <2>5, <2>6 DEF Serving
    <2> QED BY <2>7
  <1> QED BY <1>1, <1>2, <1>3

(* Looking up: an answer, or another step of the same request. *)
LEMMA LookupServes ==
    ASSUME LogTypes, LogFacts, NEW a \in Actors, Lookup(a)
    PROVE  \/ \E x : Serving(a, x)
           \/ /\ UNCHANGED <<fileVars, cache, clientVars>>
              /\ request' \in {request, [request EXCEPT ![a].stage = "open"],
                               [request EXCEPT ![a].stage = "open", ![a].direct = TRUE]}
  <1> DEFINE op == request[a].op
  <1>1. op # "none" /\ UNCHANGED <<fileVars, cache>>
    BY DEF Lookup, LogTypes
  <1>2. ASSUME NEW e \in cache, Covers(e.data, op, Offset(a)), ~Panics(e.data, op, Offset(a)),
               Answer(a, Part(e.data, op, Offset(a)))
        PROVE  \E x : Serving(a, x)
    <2> DEFINE x == Part(e.data, op, Offset(a))
    <2>1. /\ Told(a, x)
          /\ op = "range" /\ e.data.at = e.data.offset => x.at = Offset(a)
          /\ op = "range" => x.at + x.len <= e.data.at + e.data.len
          /\ op = "window" => x = e.data
      BY <1>1, <1>2, PartTold
    <2>2. op = "range" => \/ x.at <= Offset(a)
                          \/ e.data.at # e.data.offset /\ x.at + x.len <= e.data.at + e.data.len
      BY <2>1, OffsetType
    <2>3. Answer(a, x)
      BY <1>2
    <2> HIDE DEF x
    <2>4. Serving(a, x)
      BY <1>1, <1>2, <2>1, <2>2, <2>3 DEF Serving
    <2> QED BY <2>4
  <1> QED BY <1>1, <1>2 DEF Lookup

LEMMA StepServes ==
    ASSUME LogTypes, LogFacts, NEW a \in Actors, Missing(a) \/ Read(a)
    PROVE  \E x : Serving(a, x)
  <1>1. request[a].op # "none"
    BY DEF Missing, Read, LogTypes
  <1>2. CASE Missing(a)
    <2>1. Told(a, Unavailable)
      BY OffsetType DEF Told, Unavailable, DataTypes, Sound, ReachesEnd
    <2>2. Unavailable.at = 0 /\ 0 <= Offset(a)
      BY OffsetType DEF Unavailable
    <2>3. Deliver(a, Unavailable) /\ UNCHANGED fileVars
      BY <1>2 DEF Missing
    <2> QED BY <1>1, <2>1, <2>2, <2>3, DeliverServes
  <1>3. CASE Read(a)
    <2> DEFINE d == Bytes(request[a].op, request[a].inode, request[a].size, Offset(a))
    <2>1. Deliver(a, d) /\ UNCHANGED fileVars /\ request[a].stage = "read"
      BY <1>3 DEF Read
    <2>2. /\ Told(a, d)
          /\ request[a].op = "range" => d.at <= Offset(a)
      BY <2>1, BytesTold
    <2> HIDE DEF d
    <2> QED BY <1>1, <2>1, <2>2, DeliverServes
  <1> QED BY <1>2, <1>3

LEMMA SameFacts ==
    ASSUME LogTypes, LogFacts, UNCHANGED <<fileVars, clientVars>>, RequestsFit',
           \A e \in cache' : Sound(e.data) /\ ReachesEnd(e.data),
           \A b \in Actors : Opened(b)'
    PROVE  LogFacts'
  BY DEF LogFacts, fileVars, clientVars, Sound, ReachesEnd, Inodes

LEMMA ServeFacts ==
    ASSUME LogTypes, LogFacts, NEW a \in Actors, NEW d, Serving(a, d)
    PROVE  LogFacts'
  <1>1. /\ RequestsFit'
        /\ \A r \in Readers : cursor'[r].off <= text'[r].end
    BY AnswerShown DEF Serving, LogFacts
  <1>2. UNCHANGED <<files, current>>
    BY DEF Serving, fileVars
  <1>3. \A e \in cache' : Sound(e.data)' /\ ReachesEnd(e.data)'
    <2>1. \A e \in cache' : Sound(e.data) /\ ReachesEnd(e.data)
      BY DEF Serving, LogFacts
    <2> QED BY <1>2, <2>1 DEF Sound, ReachesEnd
  <1>4. \A b \in Actors : Opened(b)'
    <2>1. PICK op \in {"none", "window", "range"}, place \in {"idle", "lookup"} : Moves(a, op, place)
      BY DEF Serving, Answer
    <2>2. request'[a].stage # "read"
      BY <2>1 DEF Moves, NoRequest, LogTypes
    <2>3. \A b \in Actors : b # a => request'[b] = request[b]
      BY <2>1 DEF Moves, LogTypes
    <2> QED BY <1>2, <2>2, <2>3 DEF Opened, LogFacts
  <1>5. \A i \in Inodes : files'[i].inc = i
    BY <1>2 DEF LogFacts
  <1> QED BY <1>1, <1>3, <1>4, <1>5 DEF LogFacts, Inodes

(* Steps that only move a request on. *)
Passing(a) ==
    /\ UNCHANGED <<fileVars, cache, clientVars>>
    /\ \/ \E op \in {"none", "metadata", "window"}, place \in {"idle", "lookup"} :
             Moves(a, op, place) /\ (a \in Samplers => op # "window")
       \/ request[a].stage = "lookup"
          /\ request' \in {request, [request EXCEPT ![a].stage = "open"],
                           [request EXCEPT ![a].stage = "open", ![a].direct = TRUE]}
       \/ /\ current # 0
          /\ request' = [request EXCEPT ![a].stage = "read", ![a].inode = current,
                                        ![a].size = files[current].size]

LEMMA PassFacts ==
    ASSUME LogTypes, LogFacts, NEW a \in Actors, Passing(a)
    PROVE  LogFacts'
  <1>0. request[a] \in LogRequests /\ UNCHANGED <<fileVars, cache, clientVars>>
    BY DEF LogTypes, Passing
  <1>1. \A b \in Actors : b # a => request'[b] = request[b]
    BY DEF Passing, Moves, LogTypes
  <1>2. \/ /\ request'[a].op \in {"none", "metadata", "window"} /\ request'[a].stage # "read"
           /\ a \in Samplers => request'[a].op # "window"
        \/ request'[a].op = request[a].op /\ request'[a].stage # "read"
        \/ /\ request'[a].op = request[a].op /\ request'[a].stage = "read" /\ current # 0
           /\ request'[a].inode = current /\ request'[a].size = files[current].size
    <2>1. CASE \E op \in {"none", "metadata", "window"}, place \in {"idle", "lookup"} :
                 Moves(a, op, place) /\ (a \in Samplers => op # "window")
      BY <2>1 DEF Moves, NoRequest, LogTypes
    <2>2. CASE request[a].stage = "lookup"
               /\ request' \in {request, [request EXCEPT ![a].stage = "open"],
                                [request EXCEPT ![a].stage = "open", ![a].direct = TRUE]}
      BY <1>0, <2>2 DEF LogRequests, LogTypes
    <2>3. CASE /\ current # 0
               /\ request' = [request EXCEPT ![a].stage = "read", ![a].inode = current,
                                             ![a].size = files[current].size]
      BY <1>0, <2>3 DEF LogRequests, LogTypes
    <2> QED BY <2>1, <2>2, <2>3 DEF Passing
  <1>3. RequestsFit'
    BY <1>0, <1>1, <1>2 DEF LogFacts, RequestsFit, clientVars, Actors
  <1>4. current # 0 => current \in 1..current /\ files[current].size \in Nat
    <2>1. current # 0 => current \in 1..current
      BY JobLogAssumption DEF LogTypes
    <2> QED BY <2>1, InodeTypes
  <1>5. \A b \in Actors : Opened(b)'
    BY <1>0, <1>1, <1>2, <1>4 DEF LogFacts, Opened, fileVars
  <1> QED BY <1>0, <1>3, <1>5, SameFacts DEF LogFacts

LEMMA GrownFacts ==
    ASSUME LogTypes, LogFacts, LogTypes', current <= current',
           \A i \in Inodes : files'[i].inc = files[i].inc /\ files[i].size <= files'[i].size,
           UNCHANGED <<cache, request, clientVars>>
    PROVE  LogFacts'
  <1>1. \A i \in 1..current : /\ i \in Inodes /\ i \in 1..current'
                              /\ files[i].size \in Nat /\ files'[i].size \in Nat
                              /\ files[i].size <= files'[i].size
    <2>1. current \in Int /\ current' \in Int
      BY JobLogAssumption DEF LogTypes
    <2> QED BY <2>1, InodeTypes DEF LogTypes
  <1>2. ASSUME NEW e \in cache PROVE Sound(e.data)' /\ ReachesEnd(e.data)'
    <2>1. Sound(e.data) /\ ReachesEnd(e.data) /\ e.data \in DataTypes
      BY DEF LogFacts, LogTypes
    <2>2. Sound(e.data)'
      BY <1>1, <2>1 DEF Sound
    <2>3. ReachesEnd(e.data)'
      <3> DEFINE d == e.data
      <3>1. d.inode # 0 => /\ d.at + d.len <= files[d.inode].size
                           /\ files[d.inode].size <= files'[d.inode].size
                           /\ files[d.inode].size \in Nat /\ files'[d.inode].size \in Nat
        BY <1>1, <2>1 DEF Sound, ReachesEnd
      <3>2. d.at + d.len \in Nat
        BY <2>1 DEF DataTypes
      <3> HIDE DEF d
      <3>3. d.inode # 0 => d.at + d.len <= files'[d.inode].size
        BY <3>1, <3>2
      <3> QED BY <2>1, <3>3 DEF ReachesEnd, d
    <2> QED BY <2>2, <2>3
  <1>3. ASSUME NEW a \in Actors PROVE Opened(a)'
    <2>1. Opened(a) /\ request[a] \in LogRequests
      BY DEF LogFacts, LogTypes
    <2> QED BY <1>1, <2>1 DEF Opened, LogRequests
  <1>4. RequestsFit' /\ \A r \in Readers : cursor'[r].off <= text'[r].end
    BY DEF LogFacts, RequestsFit, clientVars
  <1> QED BY <1>2, <1>3, <1>4 DEF LogFacts, Inodes

(* Every step is one of these.  A file is cut only once and for all. *)
LEMMA LogSteps ==
    ASSUME LogTypes, LogFacts, [LogNext]_logVars, cuts' = 0
    PROVE  \/ \E a \in Actors : \E d : Serving(a, d)
           \/ \E a \in Actors : Passing(a)
           \/ /\ UNCHANGED <<cache, request, clientVars>> /\ current <= current'
              /\ \A i \in Inodes : files'[i].inc = files[i].inc /\ files[i].size <= files'[i].size
           \/ /\ UNCHANGED <<fileVars, request, clientVars>>
              /\ \A f \in cache' : \E e \in cache : f.data = e.data
  <1>1. CASE JobWrites
    <2>1. \A i \in Inodes : files[i] \in [inc: Nat, size: Nat]
      BY DEF LogTypes
    <2>2. current \in Int
      BY JobLogAssumption DEF LogTypes
    <2>3. \A i \in Inodes : files'[i].inc = files[i].inc /\ files[i].size <= files'[i].size
      BY <1>1, <2>1 DEF JobWrites, LogTypes
    <2> QED BY <1>1, <2>2, <2>3 DEF JobWrites
  <1>2. CASE Rotate
    <2>1. \A i \in Inodes : files[i].size \in Nat
      BY DEF LogTypes
    <2>2. current \in Int
      BY JobLogAssumption DEF LogTypes
    <2> QED BY <1>2, <2>1, <2>2 DEF Rotate
  <1>3. CASE Truncate
    BY <1>3 DEF Truncate, LogTypes
  <1>4. CASE Expire
    BY <1>4 DEF Expire, LogTypes
  <1>5. CASE Forget
    BY <1>5 DEF Forget
  <1>6. ASSUME NEW a \in Actors, Ask(a) \/ Refused(a) \/ Bypass(a) \/ Open(a) PROVE Passing(a)
    <2>1. CASE Ask(a)
      <3>1. PICK op \in {"metadata", "window"} :
              Moves(a, op, "lookup") /\ (a \in Samplers => op # "window")
        BY <2>1 DEF Ask
      <3> QED BY <2>1, <3>1 DEF Ask, Passing
    <2>2. CASE Refused(a)
      BY <2>2 DEF Refused, Passing
    <2>3. CASE Bypass(a)
      BY <2>3 DEF Bypass, Passing
    <2>4. CASE Open(a)
      BY <2>4 DEF Open, Passing
    <2> QED BY <1>6, <2>1, <2>2, <2>3, <2>4
  <1>7. ASSUME NEW a \in Actors, Lookup(a) PROVE (\E d : Serving(a, d)) \/ Passing(a)
    BY <1>7, LookupServes DEF Passing, Lookup
  <1>8. ASSUME NEW a \in Actors, Missing(a) \/ Read(a) PROVE \E d : Serving(a, d)
    BY <1>8, StepServes
  <1>9. CASE UNCHANGED logVars
    BY <1>9 DEF logVars, fileVars
  <1> QED BY <1>1, <1>2, <1>3, <1>4, <1>5, <1>6, <1>7, <1>8, <1>9 DEF LogNext, Step

LEMMA LogCuts ==
    ASSUME LogTypes, [LogNext]_logVars, cuts' = 0
    PROVE  cuts = 0
  <1>1. cuts \in Nat
    BY DEF LogTypes
  <1>2. CASE Truncate
    BY <1>1, <1>2 DEF Truncate
  <1>3. CASE JobWrites \/ Rotate \/ Expire \/ Forget \/ UNCHANGED logVars
    BY <1>3 DEF JobWrites, Rotate, Expire, Forget, logVars, fileVars
  <1>4. ASSUME NEW a \in Actors,
               Ask(a) \/ Refused(a) \/ Bypass(a) \/ Missing(a) \/ Lookup(a) \/ Open(a) \/ Read(a)
        PROVE  cuts' = cuts
    BY <1>4 DEF Ask, Refused, Bypass, Missing, Lookup, Open, Read, fileVars
  <1> QED BY <1>2, <1>3, <1>4 DEF LogNext, Step

LEMMA LogFactsNext ==
    ASSUME LogTypes, LogFacts, [LogNext]_logVars, cuts' = 0
    PROVE  LogFacts'
  <1>1. CASE \E a \in Actors : (\E d : Serving(a, d)) \/ Passing(a)
    BY <1>1, ServeFacts, PassFacts
  <1>2. CASE /\ UNCHANGED <<cache, request, clientVars>> /\ current <= current'
             /\ \A i \in Inodes : files'[i].inc = files[i].inc /\ files[i].size <= files'[i].size
    BY <1>2, GrownFacts, LogTypesNext
  <1>3. CASE /\ UNCHANGED <<fileVars, request, clientVars>>
             /\ \A f \in cache' : \E e \in cache : f.data = e.data
    <2>1. \A e \in cache' : Sound(e.data) /\ ReachesEnd(e.data)
      BY <1>3 DEF LogFacts
    <2>2. RequestsFit' /\ \A b \in Actors : Opened(b)'
      BY <1>3 DEF LogFacts, RequestsFit, Opened, fileVars, clientVars
    <2> QED BY <1>3, <2>1, <2>2, SameFacts
  <1> QED BY <1>1, <1>2, <1>3, LogSteps

-----------------------------------------------------------------------------
(* The text of a client, while there is one file.  Over ssh a window that  *)
(* is cached can leave gaps: it is sized before it is read                 *)
(* (log_service.rs:287).                                                   *)

LEMMA ServeFollows ==
    ASSUME LogTypes, LogFacts, LogFacts', ~Remote, OneFile, \A r \in Readers : Follows(r),
           NEW a \in Actors, NEW d, Serving(a, d), NEW r \in Readers
    PROVE  Follows(r)'
  <1>1. /\ \A q \in Readers : q # a => cursor'[q] = cursor[q] /\ text'[q] = text[q]
        /\ \/ UNCHANGED clientVars /\ request[a].op \in {"none", "metadata"}
           \/ /\ a \in Readers /\ request[a].op = "window"
              /\ cursor'[a].inode = d.inode
              /\ text'[a] = [inc |-> d.inc, end |-> d.at + d.len, whole |-> TRUE]
           \/ /\ a \in Readers /\ request[a].op = "range"
              /\ cursor'[a].inode = d.inode
              /\ text'[a] = Continued(text[a], d)
    BY AnswerShown DEF Serving, LogFacts
  <1>2. d \in DataTypes /\ Sound(d)
    BY DEF Serving, Told
  <1>3. d.inode # 0 => d.inode = 1 /\ d.inc = 1
    <2>1. current \in Int /\ current <= 1
      BY JobLogAssumption DEF OneFile, LogTypes
    <2>2. \A i \in 1..current : i = 1
      BY <2>1
    <2> QED BY <1>2, <2>2 DEF Sound
  <1>4. \A q \in Readers : Follows(q) /\ text[q] \in Texts /\ cursor[q].off <= text[q].end
    BY DEF LogFacts, LogTypes
  <1>5. ASSUME a \in Readers, request[a].op = "range"
        PROVE  /\ text[a].inc = 1 /\ cursor[a].inode # 0
               /\ d.len # 0 => d.inc = text[a].inc /\ d.at <= text[a].end
    <2>1. cursor[a].inode # 0 /\ text[a].inc = 1
      BY <1>4, <1>5 DEF LogFacts, RequestsFit, Follows
    <2>2. d.len # 0 => d.inc = 1
      BY <1>2, <1>3 DEF Sound
    <2>3. CASE d.at <= Offset(a)
      <3>1. Offset(a) = cursor[a].off /\ cursor[a].off \in Nat
        BY <1>5 DEF Offset, LogTypes
      <3> QED BY <1>2, <1>4, <1>5, <2>1, <2>2, <2>3, <3>1 DEF DataTypes, Texts
    <2>4. \A e \in cache : e.data.at = e.data.offset
      BY DEF LogFacts, ReachesEnd
    <2> QED BY <1>5, <2>1, <2>2, <2>3, <2>4 DEF Serving
  <1>6. ASSUME a \in Readers, request[a].op = "range"
        PROVE  /\ text'[a].whole = text[a].whole /\ text'[a].inc = text[a].inc
               /\ text[a].end <= text'[a].end
    <2>1. text'[a] = Continued(text[a], d) /\ text[a] \in Texts
      BY <1>1, <1>4, <1>6
    <2>2. CASE d.len = 0
      BY <2>1, <2>2 DEF Continued, Texts
    <2>3. CASE d.len # 0
      <3>1. text'[a] = [text[a] EXCEPT !.end = IF d.at + d.len > text[a].end THEN d.at + d.len
                                               ELSE text[a].end]
        BY <1>5, <1>6, <2>1, <2>3 DEF Continued
      <3> QED BY <1>2, <2>1, <3>1 DEF Texts, DataTypes
    <2> QED BY <2>2, <2>3
  <1>7. text'[r].whole /\ (cursor'[r].inode # 0 => text'[r].inc = 1)
    <2>1. CASE r # a \/ UNCHANGED clientVars
      BY <1>1, <1>4, <2>1 DEF Follows, clientVars
    <2>2. CASE r = a /\ request[a].op = "window"
      BY <1>1, <1>3, <1>4, <2>2 DEF Follows, clientVars
    <2>3. CASE r = a /\ request[a].op = "range"
      BY <1>1, <1>4, <1>5, <1>6, <2>3 DEF Follows
    <2> QED BY <1>1, <2>1, <2>2, <2>3
  <1> QED BY <1>7 DEF Follows

LEMMA FollowsNext ==
    ASSUME LogTypes, LogFacts, ~Remote, OneFile => \A r \in Readers : Follows(r),
           [LogNext]_logVars, OneFile'
    PROVE  \A r \in Readers : Follows(r)'
  <1>0. LogFacts' /\ cuts' = 0
    BY LogFactsNext DEF OneFile
  <1>1. OneFile
    <2>1. current <= current' /\ cuts = 0
      <3>1. current \in Int /\ cuts \in Nat
        BY JobLogAssumption DEF LogTypes
      <3>2. current' = current \/ current <= current'
        BY <1>0, LogSteps DEF Serving, Passing, fileVars
      <3> QED BY <1>0, <3>1, <3>2, LogCuts
    <2>2. current \in Int /\ current' \in Int
      BY LogTypesNext, JobLogAssumption DEF LogTypes
    <2> QED BY <2>1, <2>2 DEF OneFile
  <1>2. CASE \E a \in Actors : \E d : Serving(a, d)
    BY <1>0, <1>1, <1>2, ServeFollows
  <1>3. CASE UNCHANGED clientVars /\ \A f \in cache' : \E e \in cache : f.data = e.data
    BY <1>1, <1>3 DEF Follows, clientVars
  <1>4. CASE UNCHANGED <<cache, clientVars>>
    BY <1>3, <1>4
  <1> QED BY <1>0, <1>2, <1>3, <1>4, LogSteps DEF Passing

FactsInv == LogTypes /\ (cuts = 0 => LogFacts)

LEMMA FactsInvNext == FactsInv /\ [LogNext]_logVars => FactsInv'
  BY LogTypesNext, LogFactsNext, LogCuts DEF FactsInv

LEMMA LogInvNext ==
    ASSUME ~Remote, LogInv, [LogNext]_logVars
    PROVE  LogInv'
  <1>1. LogTypes' /\ (cuts' = 0 => LogFacts')
    BY FactsInvNext DEF FactsInv, LogInv
  <1>2. OneFile' => cuts = 0
    BY LogCuts DEF OneFile, LogInv
  <1>3. OneFile' => \A r \in Readers : Follows(r)'
    BY <1>2, FollowsNext DEF LogInv
  <1> QED BY <1>1, <1>3 DEF LogInv

(* A cursor never points beyond what its client was shown, whatever was    *)
(* cached, evicted, refused or read past the daemon, on local and remote   *)
(* clusters and with any number of clients (mcp/logs.rs, read_log).        *)
THEOREM CursorsNeverAhead == LogSpec => []CursorNotAhead
  <1>1. FactsInv => CursorNotAhead
    BY DEF FactsInv, LogFacts, CursorNotAhead
  <1>2. LogInit => FactsInv
    BY LogInitInv DEF LogInv, FactsInv
  <1> QED BY <1>1, <1>2, FactsInvNext, PTL DEF LogSpec

(* On a cluster that is not reached by ssh, what a client that follows its *)
(* cursor is given is whole, for any number of clients, files and sizes    *)
(* (mcp/logs.rs, read_log).                                                *)
THEOREM ClientsMissNothing == ~Remote => (LogSpec => []RepliesAreWhole)
  <1> SUFFICES ASSUME ~Remote PROVE LogSpec => []RepliesAreWhole
    OBVIOUS
  <1>1. LogInv => RepliesAreWhole
    BY DEF LogInv, LogFacts, CursorNotAhead, TextIsWhole, RepliesAreWhole, OneFile, Follows
  <1>2. LogInv /\ [LogNext]_logVars => LogInv'
    BY LogInvNext
  <1> QED BY <1>1, <1>2, LogInitInv, PTL DEF LogSpec

-----------------------------------------------------------------------------
(* Requests and subscriptions: subscriptions and monitors agree, and no    *)
(* notice is sent for a subscription that was given up.                    *)
Places == {"idle", "start", "queued", "working", "done", "sleep", "notice", "send"}

Types ==
    /\ where \in [Owners -> Places] /\ uri \in [Owners -> Uris \cup {None}]
    /\ queue \in Seq(Owners) /\ owner \in [Workers -> Owners \cup {None}]
    /\ table \in [Uris -> Monitors \cup {None}]
    /\ cancel \in [Monitors -> BOOLEAN]

(* Who is in the queue waits there once. *)
QueueOK ==
    /\ \A i \in 1..Len(queue) : where[queue[i]] = "queued"
    /\ \A i, j \in 1..Len(queue) : queue[i] = queue[j] => i = j

(* A worker that was not given up is the only one its owner waits for. *)
OwnersOK ==
    /\ \A w \in Workers : owner[w] # None => where[owner[w]] = "working"
    /\ \A v, w \in Workers : owner[v] # None /\ owner[v] = owner[w] => v = w

UrisOK == \A m \in Monitors : where[m] # "idle" => uri[m] \in Uris

IInv == Types /\ QueueOK /\ OwnersOK /\ UrisOK /\ WatchersAreSubscribed

-----------------------------------------------------------------------------
(* Taking e out of a sequence that has it at most once. *)
LEMMA RemoveFirstFacts ==
    ASSUME NEW S, NEW q \in Seq(S), NEW e,
           \A i, j \in 1..Len(q) : q[i] = q[j] => i = j
    PROVE  /\ RemoveFirst(q, e) \in Seq(S)
           /\ \A k \in 1..Len(RemoveFirst(q, e)) :
                 /\ RemoveFirst(q, e)[k] # e
                 /\ \E i \in 1..Len(q) : RemoveFirst(q, e)[k] = q[i]
           /\ \A j, k \in 1..Len(RemoveFirst(q, e)) :
                 RemoveFirst(q, e)[j] = RemoveFirst(q, e)[k] => j = k
  <1> DEFINE r == RemoveFirst(q, e)
  <1>1. CASE ~ \E i \in 1..Len(q) : q[i] = e
    <2>1. r = q
      BY <1>1 DEF RemoveFirst
    <2> QED BY <1>1, <2>1
  <1>2. CASE \E i \in 1..Len(q) : q[i] = e
    <2>1. PICK p \in 1..Len(q) : q[p] = e
      BY <1>2
    <2>2. {i \in 1..Len(q) : q[i] = e} = {p}
      BY <2>1
    <2>3. Min({p}) = p
      BY <2>1 DEF Min
    <2>4. SelectInSeq(q, LAMBDA v : v = e) = p
      BY <2>2, <2>3 DEF SelectInSeq
    <2>5. r = SubSeq(q, 1, p - 1) \o SubSeq(q, p + 1, Len(q))
      BY <1>2, <2>4 DEF RemoveFirst, RemoveAt
    <2> DEFINE a == SubSeq(q, 1, p - 1)
               b == SubSeq(q, p + 1, Len(q))
    <2>6. p \in Int /\ Len(q) \in Nat /\ 1 <= p /\ p <= Len(q) /\ \A i \in 1..Len(q) : q[i] \in S
      BY <2>1
    <2>7. /\ a \in Seq(S) /\ Len(a) = p - 1
          /\ \A i \in 1..(p - 1) : a[i] = q[i]
      <3>1. \A i \in 1..(p - 1) : q[i] \in S
        BY <2>6
      <3>2. /\ a \in Seq(S)
            /\ Len(a) = IF 1 <= p - 1 THEN (p - 1) - 1 + 1 ELSE 0
            /\ \A i \in 1..((p - 1) - 1 + 1) : a[i] = q[1 + i - 1]
        BY <3>1, <2>6, SubSeqProperties
      <3> HIDE DEF a
      <3> QED BY <3>2, <2>6
    <2>8. /\ b \in Seq(S) /\ Len(b) = Len(q) - p
          /\ \A i \in 1..(Len(q) - p) : b[i] = q[p + i]
      <3>1. \A i \in (p + 1)..Len(q) : q[i] \in S
        BY <2>6
      <3>2. /\ b \in Seq(S)
            /\ Len(b) = IF p + 1 <= Len(q) THEN Len(q) - (p + 1) + 1 ELSE 0
            /\ \A i \in 1..(Len(q) - (p + 1) + 1) : b[i] = q[(p + 1) + i - 1]
        BY <3>1, <2>6, SubSeqProperties
      <3> HIDE DEF b
      <3> QED BY <3>2, <2>6
    <2> HIDE DEF a, b
    <2>9. /\ r \in Seq(S) /\ Len(r) = Len(q) - 1
          /\ \A k \in 1..(Len(q) - 1) : r[k] = IF k <= p - 1 THEN q[k] ELSE q[k + 1]
      <3>1. /\ r \in Seq(S) /\ Len(r) = Len(a) + Len(b)
            /\ \A k \in 1..(Len(a) + Len(b)) :
                  r[k] = IF k <= Len(a) THEN a[k] ELSE b[k - Len(a)]
        BY <2>5, <2>7, <2>8, ConcatProperties DEF a, b
      <3> HIDE DEF r
      <3>2. ASSUME NEW k \in 1..(Len(q) - 1)
            PROVE  r[k] = IF k <= p - 1 THEN q[k] ELSE q[k + 1]
        <4>1. k \in Int /\ 1 <= k /\ k <= Len(q) - 1 /\ Len(a) = p - 1 /\ Len(b) = Len(q) - p
          BY <2>6, <2>7, <2>8
        <4>2. k \in 1..(Len(a) + Len(b))
          BY <4>1, <2>6
        <4>3. r[k] = IF k <= Len(a) THEN a[k] ELSE b[k - Len(a)]
          BY <3>1, <4>2
        <4>4. CASE k <= p - 1
          <5>1. k \in 1..(p - 1) /\ k <= Len(a)
            BY <4>1, <4>4, <2>6
          <5>2. r[k] = a[k] /\ a[k] = q[k]
            BY <5>1, <4>3, <2>7
          <5> QED BY <5>2, <4>4
        <4>5. CASE ~(k <= p - 1)
          <5>1. r[k] = b[k - (p - 1)]
            BY <4>1, <4>3, <4>5, <2>6
          <5>2. k - (p - 1) \in 1..(Len(q) - p) /\ p + (k - (p - 1)) = k + 1
            BY <4>1, <4>5, <2>6
          <5> QED BY <5>1, <5>2, <4>5, <2>8
        <4> QED BY <4>4, <4>5
      <3> QED BY <3>1, <3>2, <2>6, <2>7, <2>8
    <2> HIDE DEF r
    <2>10. ASSUME NEW k \in 1..Len(r)
           PROVE  r[k] # e /\ \E i \in 1..Len(q) : r[k] = q[i]
      BY <2>1, <2>6, <2>9
    <2>11. ASSUME NEW j \in 1..Len(r), NEW k \in 1..Len(r), r[j] = r[k]
           PROVE  j = k
      BY <2>6, <2>9, <2>11
    <2> QED BY <2>9, <2>10, <2>11 DEF r
  <1> QED BY <1>1, <1>2

-----------------------------------------------------------------------------
(* Nobody who waits or is served moves. *)
LEMMA PoolKept ==
    ASSUME Types, QueueOK, OwnersOK, queue' = queue, owner' = owner,
           \A o \in Owners : where[o] \in {"queued", "working"} => where'[o] = where[o]
    PROVE  QueueOK' /\ OwnersOK'
  <1>1. \A i \in 1..Len(queue) : queue[i] \in Owners
    BY DEF Types
  <1>2. \A w \in Workers : owner[w] # None => owner[w] \in Owners
    BY DEF Types
  <1> QED BY <1>1, <1>2 DEF QueueOK, OwnersOK

LEMMA EnqueueKeeps ==
    ASSUME Types, QueueOK, OwnersOK, NEW o \in Owners, Enqueue(o), owner' = owner,
           where[o] \notin {"queued", "working"}
    PROVE  queue' \in Seq(Owners) /\ QueueOK' /\ OwnersOK'
  <1>1. queue \in Seq(Owners) /\ Len(queue) \in Nat /\ \A i \in 1..Len(queue) : queue[i] \in Owners
    BY DEF Types
  <1>2. /\ queue' \in Seq(Owners) /\ Len(queue') = Len(queue) + 1
        /\ \A i \in 1..Len(queue) : queue'[i] = queue[i]
        /\ queue'[Len(queue) + 1] = o
    BY <1>1, AppendProperties DEF Enqueue
  <1>3. \A p \in Owners : where'[p] = IF p = o THEN "queued" ELSE where[p]
    BY DEF Types, Enqueue, To
  <1>4. \A i \in 1..Len(queue) : queue[i] # o
    BY DEF QueueOK
  <1>5. QueueOK'
    <2>1. ASSUME NEW i \in 1..Len(queue')
          PROVE  where'[queue'[i]] = "queued"
      <3>1. CASE i \in 1..Len(queue)
        BY <3>1, <1>1, <1>2, <1>3, <1>4 DEF QueueOK
      <3>2. CASE i = Len(queue) + 1
        BY <3>2, <1>2, <1>3
      <3> QED BY <3>1, <3>2, <1>1, <1>2
    <2>2. ASSUME NEW i \in 1..Len(queue'), NEW j \in 1..Len(queue'), queue'[i] = queue'[j]
          PROVE  i = j
      BY <2>2, <1>1, <1>2, <1>4 DEF QueueOK
    <2> QED BY <2>1, <2>2 DEF QueueOK
  <1>6. OwnersOK'
    BY <1>3 DEF OwnersOK, Types
  <1> QED BY <1>2, <1>5, <1>6

(* o leaves the queue or the worker that it waits for. *)
LEMMA LeavingKeeps ==
    ASSUME Types, QueueOK, OwnersOK, NEW o \in Owners, NEW st, where' = [where EXCEPT ![o] = st],
           queue' \in Seq(Owners),
           \A k \in 1..Len(queue') : queue'[k] # o /\ \E i \in 1..Len(queue) : queue'[k] = queue[i],
           \A j, k \in 1..Len(queue') : queue'[j] = queue'[k] => j = k,
           \A w \in Workers : owner'[w] = None \/ (owner'[w] = owner[w] /\ owner[w] # o)
    PROVE  QueueOK' /\ OwnersOK'
  <1>1. \A p \in Owners : p # o => where'[p] = where[p]
    BY DEF Types
  <1>2. \A k \in 1..Len(queue') : queue'[k] \in Owners
    OBVIOUS
  <1>3. QueueOK'
    BY <1>1, <1>2 DEF QueueOK
  <1>4. OwnersOK'
    BY <1>1 DEF OwnersOK, Types
  <1> QED BY <1>3, <1>4

(* The table stands, no monitor begins or ends and no flag is lowered. *)
LEMMA WatchersKept ==
    ASSUME Types, UrisOK, WatchersAreSubscribed, table' = table,
           \A m \in Monitors : /\ uri'[m] = uri[m]
                               /\ where'[m] = "idle" <=> where[m] = "idle"
                               /\ cancel[m] => cancel'[m]
    PROVE  UrisOK' /\ WatchersAreSubscribed'
  <1>1. UrisOK'
    BY DEF UrisOK
  <1>2. WatchersAreSubscribed'
    BY DEF WatchersAreSubscribed, Types
  <1> QED BY <1>1, <1>2

-----------------------------------------------------------------------------
LEMMA InitIInv == ServerInit => IInv
  <1> SUFFICES ASSUME ServerInit PROVE IInv
    OBVIOUS
  <1>1. Types
    BY EmptySeq DEF ServerInit, Types, AllIdle, NoUri, NoOwner, NoEntry, NoCancel, Places
  <1>2. QueueOK /\ OwnersOK /\ UrisOK
    BY DEF ServerInit, QueueOK, OwnersOK, UrisOK, AllIdle, NoOwner, Owners
  <1>3. WatchersAreSubscribed
    BY DEF ServerInit, WatchersAreSubscribed, AllIdle, NoEntry, Owners
  <1> QED BY <1>1, <1>2, <1>3 DEF IInv

LEMMA AcquireKeeps ==
    ASSUME IInv, NEW w \in Workers, Acquire(w)
    PROVE  IInv'
  <1> USE DEF IInv
  <1> DEFINE o == Head(queue)
  <1>1. queue \in Seq(Owners) /\ queue # <<>> /\ Len(queue) \in Nat /\ Len(queue) >= 1
    BY DEF Types, Acquire
  <1>2. /\ o \in Owners /\ o = queue[1] /\ queue' \in Seq(Owners)
        /\ Len(queue') = Len(queue) - 1
        /\ \A i \in 1..Len(queue') : queue'[i] = queue[i + 1]
    BY <1>1, HeadTailProperties DEF Acquire
  <1> HIDE DEF o
  <1>3. where' = [where EXCEPT ![o] = "working"] /\ where[o] = "queued"
    BY <1>1, <1>2 DEF Acquire, To, QueueOK, o
  <1>4. owner' = [owner EXCEPT ![w] = o]
    BY DEF Acquire, o
  <1>5. \A p \in Owners : p # o => where'[p] = where[p]
    BY <1>3 DEF Types
  <1>6. where'[o] = "working"
    BY <1>2, <1>3 DEF Types
  <1>7. Types'
    BY <1>2, <1>3, <1>4 DEF Types, Acquire, Places, monitorVars
  <1>8. QueueOK'
    <2>1. ASSUME NEW i \in 1..Len(queue')
          PROVE  queue'[i] \in Owners /\ queue'[i] # o /\ where[queue'[i]] = "queued"
      <3>1. i + 1 \in 1..Len(queue) /\ 1 \in 1..Len(queue) /\ i + 1 # 1
        BY <1>1, <1>2
      <3> QED BY <3>1, <1>1, <1>2 DEF QueueOK
    <2>2. ASSUME NEW i \in 1..Len(queue'), NEW j \in 1..Len(queue'), queue'[i] = queue'[j]
          PROVE  i = j
      <3>1. i + 1 \in 1..Len(queue) /\ j + 1 \in 1..Len(queue)
        BY <1>1, <1>2
      <3> QED BY <2>2, <3>1, <1>2 DEF QueueOK
    <2> QED BY <2>1, <2>2, <1>5 DEF QueueOK
  <1>9. OwnersOK'
    <2>1. \A v \in Workers : owner[v] # None => owner[v] # o
      BY <1>3 DEF OwnersOK
    <2>2. \A v \in Workers : owner'[v] = IF v = w THEN o ELSE owner[v]
      BY <1>4 DEF Types
    <2> QED BY <2>1, <2>2, <1>5, <1>6, <1>2 DEF OwnersOK, Types
  <1>10. UrisOK' /\ WatchersAreSubscribed'
    <2>1. \A m \in Monitors : where'[m] = "idle" <=> where[m] = "idle"
      BY <1>3, <1>5, <1>6 DEF Owners
    <2> QED BY <2>1, WatchersKept DEF Acquire, monitorVars
  <1> QED BY <1>7, <1>8, <1>9, <1>10

LEMMA FinishKeeps ==
    ASSUME IInv, NEW w \in Workers, Finish(w)
    PROVE  IInv'
  <1> USE DEF IInv
  <1>1. /\ owner' = [owner EXCEPT ![w] = None]
        /\ UNCHANGED <<uri, queue, table, cancel>>
    BY DEF Finish
  <1>2. CASE owner[w] = None
    <2>1. where' = where /\ owner' = owner
      BY <1>1, <1>2 DEF Finish, Types
    <2>2. Types'
      BY <1>1, <2>1 DEF Types
    <2> QED BY <1>1, <2>1, <2>2, PoolKept, WatchersKept
  <1>3. CASE owner[w] # None
    <2> DEFINE o == owner[w]
    <2>1. o \in Owners /\ where[o] = "working"
      BY <1>3 DEF Types, OwnersOK
    <2>2. where' = [where EXCEPT ![o] = "done"]
      BY <1>3 DEF Finish, To
    <2> HIDE DEF o
    <2>3. Types'
      BY <1>1, <2>1, <2>2 DEF Types, Places
    <2>4. QueueOK' /\ OwnersOK'
      <3>1. \A i \in 1..Len(queue) : queue[i] # o
        BY <2>1 DEF QueueOK
      <3>2. \A v \in Workers : owner'[v] = None \/ (owner'[v] = owner[v] /\ owner[v] # o)
        BY <1>1, <1>3 DEF OwnersOK, Types, o
      <3>3. queue' = queue /\ queue \in Seq(Owners)
        BY <1>1 DEF Types
      <3> QED BY <3>1, <3>2, <3>3, <2>1, <2>2, LeavingKeeps DEF QueueOK
    <2>5. UrisOK' /\ WatchersAreSubscribed'
      <3>1. \A m \in Monitors : where'[m] = "idle" <=> where[m] = "idle"
        BY <2>1, <2>2 DEF Types, Owners
      <3> QED BY <1>1, <3>1, WatchersKept
    <2> QED BY <2>3, <2>4, <2>5
  <1> QED BY <1>2, <1>3

(* GiveUp on o, who is not in the queue. *)
LEMMA GiveUpKeeps ==
    ASSUME Types, QueueOK, OwnersOK, NEW o \in Owners, NEW st \in Places, To(o, st),
           GiveUp(o), queue' = queue, where[o] # "queued"
    PROVE  /\ owner' \in [Workers -> Owners \cup {None}]
           /\ QueueOK' /\ OwnersOK'
  <1>1. owner' \in [Workers -> Owners \cup {None}]
    BY DEF GiveUp, Types
  <1>2. \A w \in Workers : owner'[w] = None \/ (owner'[w] = owner[w] /\ owner[w] # o)
    BY DEF GiveUp
  <1>3. \A i \in 1..Len(queue) : queue[i] # o
    BY DEF QueueOK
  <1>4. queue \in Seq(Owners) /\ where' = [where EXCEPT ![o] = st]
    BY DEF Types, To
  <1> QED BY <1>1, <1>2, <1>3, <1>4, LeavingKeeps DEF QueueOK

LEMMA QueueTimeoutKeeps ==
    ASSUME IInv, NEW o \in Owners, QueueTimeout(o)
    PROVE  IInv'
  <1> USE DEF IInv
  <1>1. PICK st \in Places : To(o, st) /\ st # "idle"
    BY DEF QueueTimeout, Unserved, Places
  <1>2. /\ where[o] = "queued" /\ queue' = RemoveFirst(queue, o)
        /\ UNCHANGED <<uri, owner, table, cancel>>
    BY DEF QueueTimeout
  <1>3. /\ queue' \in Seq(Owners)
        /\ \A k \in 1..Len(queue') : queue'[k] # o /\ \E i \in 1..Len(queue) : queue'[k] = queue[i]
        /\ \A j, k \in 1..Len(queue') : queue'[j] = queue'[k] => j = k
    <2>1. queue \in Seq(Owners) /\ \A i, j \in 1..Len(queue) : queue[i] = queue[j] => i = j
      BY DEF Types, QueueOK
    <2>2. PICK rest : rest = RemoveFirst(queue, o)
      OBVIOUS
    <2>3. /\ rest \in Seq(Owners)
          /\ \A k \in 1..Len(rest) : rest[k] # o /\ \E i \in 1..Len(queue) : rest[k] = queue[i]
          /\ \A j, k \in 1..Len(rest) : rest[j] = rest[k] => j = k
      <3> USE <2>1
      <3> HIDE DEF IInv
      <3> QED BY <2>2, RemoveFirstFacts
    <2> QED BY <1>2, <2>2, <2>3
  <1>4. \A w \in Workers : owner'[w] = None \/ (owner'[w] = owner[w] /\ owner[w] # o)
    BY <1>2 DEF OwnersOK
  <1>5. QueueOK' /\ OwnersOK'
    BY <1>1, <1>3, <1>4, LeavingKeeps DEF To
  <1>6. UrisOK' /\ WatchersAreSubscribed'
    <2>1. \A m \in Monitors : where'[m] = "idle" <=> where[m] = "idle"
      BY <1>1, <1>2 DEF To, Types, Owners
    <2> QED BY <1>2, <2>1, WatchersKept
  <1>7. Types'
    BY <1>1, <1>2, <1>3 DEF Types, To
  <1> QED BY <1>5, <1>6, <1>7

LEMMA DeadlineKeeps ==
    ASSUME IInv, NEW o \in Owners, Deadline(o)
    PROVE  IInv'
  <1> USE DEF IInv
  <1>1. PICK st \in Places : To(o, st) /\ st # "idle"
    BY DEF Deadline, Unserved, Places
  <1>2. /\ where[o] = "working" /\ GiveUp(o)
        /\ cancel' = [m \in Monitors |-> cancel[m] \/ m = o]
        /\ UNCHANGED <<uri, queue, table>>
    BY DEF Deadline
  <1>3. owner' \in [Workers -> Owners \cup {None}] /\ QueueOK' /\ OwnersOK'
    BY <1>1, <1>2, GiveUpKeeps
  <1>4. Types'
    BY <1>1, <1>2, <1>3 DEF Types, To
  <1>5. UrisOK' /\ WatchersAreSubscribed'
    <2>1. \A m \in Monitors : where'[m] = "idle" <=> where[m] = "idle"
      BY <1>1, <1>2 DEF To, Types, Owners
    <2> QED BY <1>2, <2>1, WatchersKept
  <1> QED BY <1>3, <1>4, <1>5

-----------------------------------------------------------------------------
(* The place of one actor outside the pool changes and nothing else that   *)
(* the invariant speaks of, but for the uri of a request.                  *)
LEMMA MoveKeeps ==
    ASSUME IInv, NEW o \in Owners, NEW st \in Places, To(o, st),
           where[o] \notin {"queued", "working"},
           o \in Monitors => (where[o] # "idle" /\ st # "idle"),
           uri' \in [Owners -> Uris \cup {None}],
           \A m \in Monitors : uri'[m] = uri[m],
           UNCHANGED <<queue, owner, table, cancel>>
    PROVE  IInv'
  <1> USE DEF IInv
  <1>1. \A p \in Owners : where'[p] = IF p = o THEN st ELSE where[p]
    BY DEF Types, To
  <1>2. Types'
    BY DEF Types, To
  <1>3. QueueOK' /\ OwnersOK'
    BY <1>1, PoolKept
  <1>4. UrisOK' /\ WatchersAreSubscribed'
    BY <1>1, WatchersKept DEF Owners
  <1> QED BY <1>2, <1>3, <1>4

LEMMA EnqueueMoves ==
    ASSUME IInv, NEW o \in Owners, Enqueue(o),
           where[o] \notin {"queued", "working"}, o \in Monitors => where[o] # "idle",
           uri' \in [Owners -> Uris \cup {None}],
           \A m \in Monitors : uri'[m] = uri[m],
           UNCHANGED <<owner, table, cancel>>
    PROVE  IInv'
  <1> USE DEF IInv
  <1>1. queue' \in Seq(Owners) /\ QueueOK' /\ OwnersOK'
    BY EnqueueKeeps
  <1>2. \A p \in Owners : where'[p] = IF p = o THEN "queued" ELSE where[p]
    BY DEF Types, Enqueue, To
  <1>3. Types'
    BY <1>1 DEF Types, Enqueue, To, Places
  <1>4. UrisOK' /\ WatchersAreSubscribed'
    BY <1>2, WatchersKept DEF Owners
  <1> QED BY <1>1, <1>3, <1>4

LEMMA InsertKeeps ==
    ASSUME IInv, NEW s \in Slots, NEW u \in Uris, table[u] = None, Insert(s, u),
           where[s] \notin {"queued", "working"}, UNCHANGED <<queue, owner>>
    PROVE  IInv'
  <1> USE DEF IInv
  <1>1. PICK m \in Monitors :
           /\ where[m] = "idle"
           /\ table' = [table EXCEPT ![u] = m]
           /\ cancel' = [cancel EXCEPT ![m] = FALSE]
           /\ uri' = [uri EXCEPT ![m] = u]
           /\ where' = [where EXCEPT ![s] = "send", ![m] = "start"]
    BY DEF Insert
  <1>2. s \in Owners /\ m \in Owners /\ s # m /\ None \notin Monitors
    BY McpServerAssumption DEF Owners
  <1>3. /\ \A o \in Owners :
              where'[o] = IF o = m THEN "start" ELSE IF o = s THEN "send" ELSE where[o]
        /\ \A o \in Owners : uri'[o] = IF o = m THEN u ELSE uri[o]
        /\ \A v \in Uris : table'[v] = IF v = u THEN m ELSE table[v]
        /\ \A n \in Monitors : cancel'[n] = IF n = m THEN FALSE ELSE cancel[n]
    BY <1>1, <1>2 DEF Types
  <1>4. Types'
    BY <1>1, <1>2 DEF Types, Places
  <1>5. QueueOK' /\ OwnersOK'
    BY <1>1, <1>3, PoolKept
  <1>6. UrisOK'
    BY <1>3, <1>2, McpServerAssumption DEF UrisOK, Owners
  <1>7. WatchersAreSubscribed'
    <2>1. ASSUME NEW n \in Monitors, where'[n] # "idle", ~cancel'[n]
          PROVE  table'[uri'[n]] = n
      <3>1. CASE n = m
        BY <3>1, <1>2, <1>3
      <3>2. CASE n # m
        <4>1. where[n] # "idle" /\ ~cancel[n] /\ uri'[n] = uri[n] /\ uri[n] \in Uris
          BY <2>1, <3>2, <1>2, <1>3, McpServerAssumption DEF Owners, UrisOK
        <4>2. table[uri[n]] = n
          BY <4>1 DEF WatchersAreSubscribed
        <4>3. uri[n] # u
          BY <4>2, <1>2
        <4> QED BY <4>1, <4>2, <4>3, <1>3
      <3> QED BY <3>1, <3>2
    <2>2. ASSUME NEW v \in Uris, table'[v] # None
          PROVE  where'[table'[v]] # "idle" /\ uri'[table'[v]] = v
      <3>1. CASE v = u
        BY <3>1, <1>2, <1>3
      <3>2. CASE v # u
        <4>1. table'[v] = table[v] /\ table[v] \in Monitors
          BY <2>2, <3>2, <1>3 DEF Types
        <4>2. where[table[v]] # "idle" /\ uri[table[v]] = v
          BY <4>1, <2>2 DEF WatchersAreSubscribed
        <4>3. table[v] # m
          BY <4>2, <1>1
        <4> QED BY <4>1, <4>2, <4>3, <1>3, <1>2 DEF Owners
      <3> QED BY <3>1, <3>2
    <2> QED BY <2>1, <2>2 DEF WatchersAreSubscribed
  <1> QED BY <1>4, <1>5, <1>6, <1>7

LEMMA UnsubscribeKeeps ==
    ASSUME IInv, NEW s \in Slots, NEW u \in Uris, Unsubscribe(s, u),
           where[s] = "idle", UNCHANGED <<queue, owner>>
    PROVE  IInv'
  <1> USE DEF IInv
  <1>1. /\ table' = [table EXCEPT ![u] = None] /\ To(s, "send") /\ uri' = uri
        /\ cancel' = [m \in Monitors |-> cancel[m] \/ m = table[u]]
    BY DEF Unsubscribe
  <1>2. s \in Owners /\ s \notin Monitors /\ None \notin Monitors
    BY McpServerAssumption DEF Owners
  <1>3. \A o \in Owners : where'[o] = IF o = s THEN "send" ELSE where[o]
    BY <1>1 DEF Types, To
  <1>4. \A v \in Uris : table'[v] = IF v = u THEN None ELSE table[v]
    BY <1>1 DEF Types
  <1>5. Types'
    BY <1>1 DEF Types, To, Places
  <1>6. QueueOK' /\ OwnersOK'
    BY <1>3, PoolKept
  <1>7. UrisOK'
    BY <1>1, <1>2, <1>3 DEF UrisOK, Owners
  <1>8. WatchersAreSubscribed'
    <2>1. ASSUME NEW n \in Monitors, where'[n] # "idle", ~cancel'[n]
          PROVE  table'[uri'[n]] = n
      <3>1. where[n] # "idle" /\ ~cancel[n] /\ n # table[u] /\ uri[n] \in Uris
        BY <2>1, <1>1, <1>2, <1>3 DEF Owners, UrisOK
      <3>2. table[uri[n]] = n
        BY <3>1 DEF WatchersAreSubscribed
      <3> QED BY <3>1, <3>2, <1>1, <1>4
    <2>2. ASSUME NEW v \in Uris, table'[v] # None
          PROVE  where'[table'[v]] # "idle" /\ uri'[table'[v]] = v
      <3>1. v # u /\ table'[v] = table[v] /\ table[v] \in Monitors
        BY <2>2, <1>4 DEF Types
      <3> QED BY <3>1, <1>1, <1>2, <1>3, <2>2 DEF WatchersAreSubscribed, Owners
    <2> QED BY <2>1, <2>2 DEF WatchersAreSubscribed
  <1> QED BY <1>5, <1>6, <1>7, <1>8

LEMMA ReceiveKeeps ==
    ASSUME IInv, NEW s \in Slots, NEW what \in Requests, NEW u \in Uris, Receive(s, what, u)
    PROVE  IInv'
  <1>1. where[s] = "idle" /\ UNCHANGED owner
    BY DEF Receive
  <1>2. s \in Owners /\ s \notin Monitors /\ Slots \subseteq Owners
    BY McpServerAssumption DEF Owners
  <1>3. uri \in [Owners -> Uris \cup {None}]
    BY DEF IInv, Types
  <1>4. CASE what = "blocking"
    <2>1. Enqueue(s) /\ UNCHANGED <<uri, table, cancel>>
      BY <1>4 DEF Receive, monitorVars
    <2> QED BY <2>1, <1>1, <1>2, <1>3, EnqueueMoves
  <1>5. CASE what = "light"
    <2>1. To(s, "send") /\ UNCHANGED <<uri, queue, table, cancel>>
      BY <1>5 DEF Receive, monitorVars
    <2> QED BY <2>1, <1>1, <1>2, <1>3, MoveKeeps DEF Places
  <1>6. CASE what = "subscribe"
    <2>1. Subscribe(s, u)
      BY <1>6 DEF Receive
    <2>2. CASE NoInsert(s, u) /\ UNCHANGED queue
      <3>1. To(s, "send") /\ UNCHANGED <<uri, queue, table, cancel>>
        BY <2>2 DEF NoInsert, monitorVars
      <3> QED BY <3>1, <1>1, <1>2, <1>3, MoveKeeps DEF Places
    <2>3. CASE Enqueue(s) /\ uri' = [uri EXCEPT ![s] = u] /\ UNCHANGED monitorVars
      <3>1. /\ uri' \in [Owners -> Uris \cup {None}]
            /\ \A m \in Monitors : uri'[m] = uri[m]
        BY <2>3, <1>2, <1>3 DEF Owners
      <3> QED BY <2>3, <3>1, <1>1, <1>2, EnqueueMoves DEF monitorVars
    <2>4. CASE table[u] = None /\ Insert(s, u) /\ UNCHANGED queue
      BY <2>4, <1>1, InsertKeeps
    <2> QED BY <2>1, <2>2, <2>3, <2>4 DEF Subscribe, InsertIfAbsent
  <1>7. CASE what = "unsubscribe"
    <2>1. Unsubscribe(s, u)
      BY <1>7 DEF Receive
    <2> QED BY <2>1, <1>1, UnsubscribeKeeps DEF Unsubscribe
  <1> QED BY <1>4, <1>5, <1>6, <1>7 DEF Requests

LEMMA ResumeKeeps ==
    ASSUME IInv, NEW s \in Slots, Resume(s)
    PROVE  IInv'
  <1>1. where[s] = "done" /\ UNCHANGED <<queue, owner>>
    BY DEF Resume, poolVars
  <1>2. s \in Owners /\ s \notin Monitors
    BY McpServerAssumption DEF Owners
  <1>3. uri \in [Owners -> Uris \cup {None}]
    BY DEF IInv, Types
  <1>4. CASE To(s, "send") /\ UNCHANGED <<uri, monitorVars>>
    BY <1>4, <1>1, <1>2, <1>3, MoveKeeps DEF monitorVars, Places
  <1>5. CASE uri[s] # None /\ table[uri[s]] = None /\ Insert(s, uri[s])
    <2>1. uri[s] \in Uris
      BY <1>2, <1>3, <1>5
    <2> QED BY <2>1, <1>5, <1>1, InsertKeeps
  <1> QED BY <1>4, <1>5 DEF Resume, InsertIfAbsent, NoInsert

LEMMA CancelRequestKeeps ==
    ASSUME IInv, NEW s \in Slots, CancelRequest(s)
    PROVE  IInv'
  <1> USE DEF IInv
  <1>1. /\ where' = [where EXCEPT ![s] = "send"] /\ queue' = RemoveFirst(queue, s)
        /\ GiveUp(s) /\ UNCHANGED <<uri, table, cancel>>
    BY DEF CancelRequest, To, monitorVars
  <1>2. s \in Owners /\ s \notin Monitors
    BY McpServerAssumption DEF Owners
  <1>3. /\ queue' \in Seq(Owners)
        /\ \A k \in 1..Len(queue') : queue'[k] # s /\ \E i \in 1..Len(queue) : queue'[k] = queue[i]
        /\ \A j, k \in 1..Len(queue') : queue'[j] = queue'[k] => j = k
    BY <1>1, RemoveFirstFacts DEF Types, QueueOK
  <1>4. \A w \in Workers : owner'[w] = None \/ (owner'[w] = owner[w] /\ owner[w] # s)
    BY <1>1 DEF GiveUp
  <1>5. QueueOK' /\ OwnersOK'
    BY <1>1, <1>2, <1>3, <1>4, LeavingKeeps
  <1>6. UrisOK' /\ WatchersAreSubscribed'
    <2>1. \A m \in Monitors : where'[m] = where[m]
      BY <1>1, <1>2 DEF Types, Owners
    <2> QED BY <1>1, <2>1, WatchersKept
  <1>7. Types'
    BY <1>1, <1>3 DEF Types, GiveUp, Places
  <1> QED BY <1>5, <1>6, <1>7

LEMMA DrainKeeps ==
    ASSUME IInv, NEW s \in Slots, Drain(s)
    PROVE  IInv'
  <1>1. /\ where[s] = "send" /\ To(s, "idle") /\ uri' = [uri EXCEPT ![s] = None]
        /\ UNCHANGED <<queue, owner, table, cancel>>
    BY DEF Drain, poolVars, monitorVars
  <1>2. s \in Owners /\ s \notin Monitors
    BY McpServerAssumption DEF Owners
  <1>3. uri' \in [Owners -> Uris \cup {None}] /\ \A m \in Monitors : uri'[m] = uri[m]
    BY <1>1, <1>2 DEF IInv, Types, Owners
  <1> QED BY <1>1, <1>2, <1>3, MoveKeeps DEF Places

LEMMA DisconnectKeeps ==
    ASSUME IInv, Disconnect
    PROVE  IInv'
  <1>1. /\ where' = AllIdle /\ uri' = NoUri /\ queue' = <<>> /\ owner' = NoOwner
        /\ table' = NoEntry /\ cancel' = NoCancel
    BY DEF Disconnect
  <1>2. Types'
    BY <1>1, EmptySeq DEF Types, AllIdle, NoUri, NoOwner, NoEntry, NoCancel, Places
  <1>3. QueueOK' /\ OwnersOK' /\ UrisOK'
    BY <1>1 DEF QueueOK, OwnersOK, UrisOK, AllIdle, NoOwner, Owners
  <1>4. WatchersAreSubscribed'
    BY <1>1 DEF WatchersAreSubscribed, AllIdle, NoEntry, Owners
  <1> QED BY <1>2, <1>3, <1>4 DEF IInv

-----------------------------------------------------------------------------
(* A monitor leaves with the entry that is its own. *)
LEMMA EndKeeps ==
    ASSUME IInv, NEW m \in Monitors, End(m), UNCHANGED <<queue, owner>>,
           where[m] \in {"sleep", "notice"}
    PROVE  IInv'
  <1> USE DEF IInv
  <1>1. /\ To(m, "idle") /\ table' = WithoutEntry(m)
        /\ uri' = [uri EXCEPT ![m] = None] /\ cancel' = [cancel EXCEPT ![m] = FALSE]
    BY DEF End
  <1>2. m \in Owners /\ uri[m] \in Uris /\ m # None
    BY McpServerAssumption DEF Owners, UrisOK
  <1>3. /\ \A o \in Owners : where'[o] = IF o = m THEN "idle" ELSE where[o]
        /\ \A o \in Owners : uri'[o] = IF o = m THEN None ELSE uri[o]
        /\ \A n \in Monitors : cancel'[n] = IF n = m THEN FALSE ELSE cancel[n]
    BY <1>1, <1>2 DEF Types, To
  <1>4. \A u \in Uris : table'[u] = IF u = uri[m] /\ table[u] = m THEN None ELSE table[u]
    BY <1>1, <1>2 DEF Types, WithoutEntry
  <1>5. Types'
    BY <1>1, <1>2 DEF Types, To, Places, WithoutEntry
  <1>6. QueueOK' /\ OwnersOK'
    BY <1>3, PoolKept
  <1>7. UrisOK'
    BY <1>2, <1>3 DEF UrisOK, Owners
  <1>8. WatchersAreSubscribed'
    <2>1. ASSUME NEW n \in Monitors, where'[n] # "idle", ~cancel'[n]
          PROVE  table'[uri'[n]] = n
      <3>1. n # m /\ where[n] # "idle" /\ ~cancel[n] /\ uri'[n] = uri[n] /\ uri[n] \in Uris
        BY <2>1, <1>3 DEF Owners, UrisOK
      <3>2. table[uri[n]] = n
        BY <3>1 DEF WatchersAreSubscribed
      <3> QED BY <3>1, <3>2, <1>4
    <2>2. ASSUME NEW u \in Uris, table'[u] # None
          PROVE  where'[table'[u]] # "idle" /\ uri'[table'[u]] = u
      <3>1. table'[u] = table[u] /\ table[u] \in Monitors
        BY <2>2, <1>4 DEF Types
      <3>2. where[table[u]] # "idle" /\ uri[table[u]] = u
        BY <3>1, <2>2 DEF WatchersAreSubscribed
      <3>3. table[u] # m
        BY <3>2, <2>2, <1>4
      <3> QED BY <3>1, <3>2, <3>3, <1>3 DEF Owners
    <2> QED BY <2>1, <2>2 DEF WatchersAreSubscribed
  <1> QED BY <1>5, <1>6, <1>7, <1>8

LEMMA MonitorKeeps ==
    ASSUME IInv, NEW m \in Monitors, Monitor(m)
    PROVE  IInv'
  <1>1. m \in Owners /\ uri \in [Owners -> Uris \cup {None}]
    BY DEF Owners, IInv, Types
  <1>2. CASE Begin(m)
    <2>1. /\ where[m] \in {"start", "sleep"} /\ Enqueue(m)
          /\ UNCHANGED <<uri, owner, table, cancel>>
      BY <1>2 DEF Begin, monitorVars
    <2> QED BY <2>1, <1>1, EnqueueMoves
  <1>3. CASE SeeCancel(m)
    <2>1. /\ where[m] \in {"start", "working"} /\ GiveUp(m) /\ To(m, "done")
          /\ UNCHANGED <<uri, queue, table, cancel>>
      BY <1>3 DEF SeeCancel
    <2>2. owner' \in [Workers -> Owners \cup {None}] /\ QueueOK' /\ OwnersOK'
      BY <2>1, <1>1, GiveUpKeeps DEF IInv, Places
    <2>3. \A n \in Monitors : where'[n] = "idle" <=> where[n] = "idle"
      BY <2>1 DEF IInv, Types, To, Owners
    <2>4. UrisOK' /\ WatchersAreSubscribed'
      BY <2>1, <2>3, WatchersKept DEF IInv
    <2>5. Types'
      BY <2>1, <2>2 DEF IInv, Types, To, Places
    <2> QED BY <2>2, <2>4, <2>5 DEF IInv
  <1>4. CASE Compare(m)
    <2>1. PICK st \in {"notice", "sleep"} : To(m, st)
      BY <1>4 DEF Compare
    <2>2. where[m] = "done" /\ UNCHANGED <<uri, queue, owner, table, cancel>>
      BY <1>4 DEF Compare, poolVars
    <2> QED BY <2>1, <2>2, <1>1, MoveKeeps DEF Places
  <1>5. CASE Notify(m)
    <2>1. where[m] = "notice" /\ UNCHANGED <<queue, owner>>
      BY <1>5 DEF Notify, poolVars
    <2>2. CASE End(m)
      BY <2>1, <2>2, EndKeeps
    <2>3. CASE To(m, "sleep") /\ UNCHANGED <<uri, table, cancel>>
      BY <2>1, <2>3, <1>1, MoveKeeps DEF Places
    <2> QED BY <1>5, <2>2, <2>3 DEF Notify
  <1>6. CASE Stop(m)
    BY <1>6, EndKeeps DEF Stop, poolVars
  <1> QED BY <1>2, <1>3, <1>4, <1>5, <1>6 DEF Monitor

LEMMA NextIInv == IInv /\ [ServerNext]_serverVars => IInv'
  <1> SUFFICES ASSUME IInv, [ServerNext]_serverVars PROVE IInv'
    OBVIOUS
  <1>1. CASE UNCHANGED serverVars \/ \E u \in Uris : Change(u)
    <2>1. UNCHANGED <<where, uri, queue, owner, table, cancel>>
      BY <1>1 DEF serverVars, Change, poolVars, monitorVars
    <2> QED BY <2>1 DEF IInv, Types, QueueOK, OwnersOK, UrisOK, WatchersAreSubscribed
  <1>2. CASE \E w \in Workers : Acquire(w) \/ Finish(w)
    BY <1>2, AcquireKeeps, FinishKeeps
  <1>3. CASE \E o \in Owners : Timeout(o)
    BY <1>3, QueueTimeoutKeeps, DeadlineKeeps DEF Timeout
  <1>4. CASE \E s \in Slots : \E what \in Requests, u \in Uris : Receive(s, what, u)
    BY <1>4, ReceiveKeeps
  <1>5. CASE \E s \in Slots : Resume(s) \/ CancelRequest(s) \/ Drain(s)
    BY <1>5, ResumeKeeps, CancelRequestKeeps, DrainKeeps
  <1>6. CASE \E m \in Monitors : Monitor(m)
    BY <1>6, MonitorKeeps
  <1>7. CASE Disconnect
    BY <1>7, DisconnectKeeps
  <1> QED BY <1>1, <1>2, <1>3, <1>4, <1>5, <1>6, <1>7 DEF ServerNext

(* Unsubscribe always reaches the monitor that sends the notices           *)
(* (mcp/subscriptions.rs, unsubscribe_resource and remove_subscription).   *)
THEOREM EntriesHaveWatchers == ServerSpec => []WatchersAreSubscribed
  <1>1. IInv => WatchersAreSubscribed
    BY DEF IInv
  <1> QED BY <1>1, InitIInv, NextIInv, PTL DEF ServerSpec

-----------------------------------------------------------------------------
Wanted == \A m \in Monitors :
             where[m] # "notice" /\ where'[m] = "notice" => table[uri[m]] = m

LEMMA InsertBeginsNoNotice ==
    ASSUME IInv, NEW s \in Slots, NEW u, InsertIfAbsent(s, u),
           NEW m \in Monitors, where[m] # "notice"
    PROVE  where'[m] # "notice"
  <1> USE DEF IInv, Types, Owners
  <1>1. s # m
    BY McpServerAssumption
  <1>2. CASE NoInsert(s, u)
    BY <1>1, <1>2 DEF NoInsert, To
  <1>3. CASE Insert(s, u)
    BY <1>1, <1>3 DEF Insert
  <1> QED BY <1>2, <1>3 DEF InsertIfAbsent

(* Only Compare begins a notice. *)
LEMMA NoticeFromCompare ==
    ASSUME IInv, [ServerNext]_serverVars, NEW m \in Monitors,
           where[m] # "notice", where'[m] = "notice"
    PROVE  Compare(m)
  <1> USE DEF To, Enqueue, IInv, Types, Owners
  <1>1. CASE UNCHANGED serverVars \/ \E u \in Uris : Change(u)
    BY <1>1 DEF serverVars, Change
  <1>2. CASE \E w \in Workers : Acquire(w) \/ Finish(w)
    BY <1>2 DEF Acquire, Finish
  <1>3. CASE \E o \in Owners : Timeout(o)
    BY <1>3 DEF Timeout, QueueTimeout, Deadline, Unserved
  <1>4. CASE \E s \in Slots : \E what \in Requests, u \in Uris : Receive(s, what, u)
    <2>1. PICK s \in Slots, what \in Requests, u \in Uris : Receive(s, what, u)
      BY <1>4
    <2>2. s # m
      BY McpServerAssumption
    <2>3. CASE what \in {"blocking", "light", "unsubscribe"}
      BY <2>1, <2>2, <2>3 DEF Receive, Unsubscribe
    <2>4. CASE what = "subscribe"
      <3>1. Subscribe(s, u)
        BY <2>1, <2>4 DEF Receive
      <3>2. CASE Enqueue(s) \/ NoInsert(s, u)
        BY <2>2, <3>2 DEF NoInsert
      <3>3. CASE InsertIfAbsent(s, u)
        BY <2>2, <3>3, InsertBeginsNoNotice
      <3> QED BY <3>1, <3>2, <3>3 DEF Subscribe
    <2> QED BY <2>3, <2>4 DEF Requests
  <1>5. CASE \E s \in Slots : Resume(s) \/ CancelRequest(s) \/ Drain(s)
    <2>1. PICK s \in Slots : Resume(s) \/ CancelRequest(s) \/ Drain(s)
      BY <1>5
    <2>2. s # m
      BY McpServerAssumption
    <2>3. CASE InsertIfAbsent(s, uri[s])
      BY <2>2, <2>3, InsertBeginsNoNotice
    <2>4. CASE To(s, "send") \/ To(s, "idle")
      BY <2>2, <2>4
    <2> QED BY <2>1, <2>3, <2>4 DEF Resume, CancelRequest, Drain
  <1>6. CASE \E n \in Monitors : Monitor(n)
    <2>1. PICK n \in Monitors : Monitor(n)
      BY <1>6
    <2>2. CASE Compare(n)
      <3>1. n = m
        BY <2>2 DEF Compare
      <3> QED BY <2>2, <3>1
    <2>3. CASE Begin(n) \/ SeeCancel(n) \/ Notify(n) \/ Stop(n)
      BY <2>3 DEF Begin, SeeCancel, Notify, Stop, End
    <2> QED BY <2>1, <2>2, <2>3 DEF Monitor
  <1>7. CASE Disconnect
    BY <1>7 DEF Disconnect, AllIdle
  <1> QED BY <1>1, <1>2, <1>3, <1>4, <1>5, <1>6, <1>7 DEF ServerNext

(* No notice is begun for a subscription that was given up                 *)
(* (mcp.rs, run_subscription_blocking; mcp/subscriptions.rs, monitor).     *)
THEOREM NoticesWanted == ServerSpec => NoticesAreWanted
  <1>1. IInv /\ [ServerNext]_serverVars => [Wanted]_serverVars
    <2> SUFFICES ASSUME IInv, [ServerNext]_serverVars, NEW m \in Monitors,
                        where[m] # "notice", where'[m] = "notice"
                 PROVE  table[uri[m]] = m
      BY DEF Wanted
    <2>1. Compare(m)
      BY NoticeFromCompare
    <2>2. Announces(m, Sampled(m)) /\ where[m] = "done"
      BY <2>1 DEF Compare, To, IInv, Types, Owners
    <2>3. Sampled(m) # 0
      BY <2>2 DEF Announces
    <2>4. ~cancel[m]
      BY <2>3 DEF Sampled
    <2> QED BY <2>2, <2>4 DEF IInv, WatchersAreSubscribed
  <1> QED BY <1>1, InitIInv, NextIInv, PTL DEF ServerSpec, NoticesAreWanted, Wanted
=============================================================================
