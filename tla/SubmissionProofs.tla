-------------------------- MODULE SubmissionProofs --------------------------
(***************************************************************************)
(* Proofs about submitting through previews, for any number of calls,      *)
(* tokens, contents, changes of the bank, repeats and restarts: the server *)
(* keeps the promise of OneUsePreview, and the provenance it reports was   *)
(* true.                                                                   *)
(***************************************************************************)
EXTENDS Submission, SequenceTheorems, TLAPS

Read == [bytes : Bytes, head : Nat, gen : Nat]          \* a Preview, unbounded
Scan == [step : {"idle", "walk", "head", "store", "generation", "done"},
         bytes : Bytes, head : Nat, gen : Nat]

Types ==
    /\ tree \in [bytes : Contents, gen : Nat \ {0}]
    /\ head \in Nat
    /\ cache \subseteq [bytes : Bytes, head : Nat, gen : Nat, old : BOOLEAN]
    /\ scan \in [Callers -> Scan]
    /\ seen \in [Callers -> SUBSET Read]
    /\ DOMAIN previews \subseteq Tokens /\ aged \subseteq Tokens
    /\ stage \in [Callers -> Stages]
    /\ token \in [Submitters -> Tokens \cup {NoToken}]
    /\ tries \in [Submitters -> Nat]
    /\ ran \in [Tokens -> Seq(Contents)]
    /\ offered \in [Tokens -> Read]
    /\ fate \in [Tokens -> {"unseen", "held", "late", "taken"}]

-----------------------------------------------------------------------------
(* Tokens: one that was never inserted left no trace, one in the map is    *)
(* held, and nothing ran for one that was not taken in time.               *)
Fates ==
    /\ \A t \in Tokens : fate[t] = "unseen" => t \notin aged
    /\ \A t \in DOMAIN previews : fate[t] = "held"
    /\ \A t \in Tokens : fate[t] # "taken" => ran[t] = <<>>
    /\ \A p \in Previewers : stage[p] \in {"new", "scan"} => fate[p] = "unseen"

(* A call of submit_job that goes on has a token to itself, and one that   *)
(* was late gets no further than to its age.                               *)
Serving(s) == stage[s] \notin Over

Holders ==
    /\ \A s \in Submitters : Serving(s) =>
        /\ token[s] \in Tokens
        /\ fate[token[s]] = "taken" \/ (fate[token[s]] = "late" /\ token[s] \in aged)
        /\ stage[s] \in {"scan", "sbatch", "submitted"} => fate[token[s]] = "taken"
    /\ \A s, r \in Submitters : Serving(s) /\ Serving(r) /\ token[s] = token[r] => s = r

(* What ran for a token ran in one of the tries of the call that has it,   *)
(* and what the call is about to run has the bytes of the offer.           *)
Runs ==
    /\ \A s \in Submitters : Serving(s) => Len(ran[token[s]]) <= tries[s]
    /\ \A s \in Submitters : stage[s] \in {"new", "attempt", "age", "scan"} => tries[s] = 0
    /\ \A s \in Submitters : stage[s] = "sbatch" =>
        /\ tries[s] < Attempts
        /\ scan[s].step = "done"
        /\ scan[s].bytes \in Contents /\ scan[s].bytes = offered[token[s]].bytes

-----------------------------------------------------------------------------
(* Scans: the fingerprint only grows, and what a scan goes on to see is    *)
(* noted.                                                                  *)
Growing ==
    /\ \A c \in Callers : scan[c].gen <= tree.gen
    /\ \A t \in Tokens : offered[t].gen <= tree.gen

Noting == \A c \in Callers : scan[c].step \notin {"idle", "done"} => Moment \in seen[c]

(* The scan of a submission against the generation of its preview.  While  *)
(* the tree has that generation, the scan saw no other.                    *)
Generation(s) == offered[token[s]].gen
AsOffered(s) == [Catalog(s) EXCEPT !.gen = Generation(s)]

Checked ==
    \A s \in Submitters : stage[s] = "scan" /\ scan[s].bytes # NoScript =>
        /\ scan[s].step # "walk"
        /\ scan[s].step = "head" /\ tree.gen = Generation(s) => scan[s].bytes = tree.bytes
        /\ scan[s].step \in {"store", "generation"} /\ tree.gen = Generation(s)
              => AsOffered(s) \in seen[s]
        /\ scan[s].step = "done" /\ scan[s].gen = Generation(s) /\ scan[s].gen # 0
              => Catalog(s) \in seen[s]

SettledScan ==
    /\ \A c \in Callers : scan[c].step = "idle" => scan[c].bytes = NoScript
    /\ \A s \in Submitters : stage[s] = "submitted" => scan[s].step = "done"
    /\ \A s \in Submitters : stage[s] = "scan" => scan[s].step # "idle"

SubmissionInv ==
    /\ Types
    /\ Fates /\ Holders /\ Runs
    /\ Growing /\ Noting /\ Checked /\ SettledScan
    /\ ProvenanceIsTrue

-----------------------------------------------------------------------------
LEMMA Members ==
    /\ Previewers \subseteq Callers /\ Submitters \subseteq Callers /\ Listers \subseteq Callers
    /\ Previewers \cap Submitters = {} /\ Listers \cap Submitters = {}
    /\ Listers \cap Previewers = {} /\ Tokens = Previewers
    /\ Attempts \in Nat \ {0}
  BY SubmissionAssumption DEF Tokens

LEMMA Start == Init => SubmissionInv
<1> SUFFICES ASSUME Init PROVE SubmissionInv
  OBVIOUS
<1> USE Members DEF Init, BankInit, Idle, Moment
<1>1. tree \in [bytes : Contents, gen : Nat \ {0}] /\ head \in Nat
  OBVIOUS
<1>2. Idle \in Scan /\ Moment \in Read
  BY <1>1 DEF Scan, Read, Bytes
<1>3. <<>> \in Seq(Contents) /\ DOMAIN <<>> = {} /\ Len(<<>>) = 0
  BY EmptySeq
<1>4. scan \in [Callers -> Scan] /\ offered \in [Tokens -> Read]
  BY <1>2
<1>5. Types
  BY <1>1, <1>3, <1>4 DEF Types, Stages
<1>6. Fates
  BY <1>3 DEF Fates
<1>7. Holders /\ Runs
  BY DEF Holders, Runs, Serving, Over
<1>8. Growing
  BY <1>1 DEF Growing
<1> QED
  BY <1>5, <1>6, <1>7, <1>8
     DEF SubmissionInv, Noting, Checked, SettledScan, ProvenanceIsTrue

(* The steps of a scan, and what the calls do to the bank's state.         *)
BankTypes ==
    /\ tree \in [bytes : Contents, gen : Nat \ {0}]
    /\ head \in Nat
    /\ cache \subseteq [bytes : Bytes, head : Nat, gen : Nat, old : BOOLEAN]
    /\ scan \in [Callers -> Scan]
    /\ seen \in [Callers -> SUBSET Read]

LEMMA MomentIsRead == BankTypes => Moment \in Read
  BY DEF BankTypes, Moment, Read, Bytes

LEMMA WorldTypes ==
    ASSUME BankTypes, Edit \/ Commit
    PROVE  BankTypes'
<1>1. tree' \in [bytes : Contents, gen : Nat \ {0}]
  BY DEF Edit, Commit, BankTypes
<1>2. head' \in Nat /\ cache' = cache /\ scan' = scan
  BY DEF Edit, Commit, BankTypes
<1>3. Moment' \in Read
  BY <1>1, <1>2 DEF Moment, Read, Bytes
<1>4. seen' = Noted
  BY DEF Edit, Commit
<1>5. seen' \in [Callers -> SUBSET Read]
  BY <1>3, <1>4 DEF Noted, BankTypes
<1> QED
  BY <1>1, <1>2, <1>5 DEF BankTypes

LEMMA BeginTypes ==
    ASSUME BankTypes, NEW c \in Callers, BeginForced(c) \/ BeginCached(c)
    PROVE  BankTypes'
<1>1. seen' \in [Callers -> SUBSET Read]
  BY MomentIsRead DEF BeginForced, BeginCached, Begin, BankTypes
<1>2. [scan EXCEPT ![c].step = "walk"] \in [Callers -> Scan]
  BY DEF BankTypes, Scan
<1>3. CASE BeginForced(c)
  BY <1>1, <1>2, <1>3 DEF BeginForced, BankTypes
<1>4. CASE BeginCached(c) /\ Hits = {}
  <2>1. scan' = [scan EXCEPT ![c] = [@ EXCEPT !.step = "walk"]]
    BY <1>4 DEF BeginCached
  <2>2. [scan[c] EXCEPT !.step = "walk"] \in Scan
    BY DEF BankTypes, Scan
  <2> QED
    BY <1>1, <1>4, <2>1, <2>2 DEF BeginCached, BankTypes
<1>5. CASE BeginCached(c) /\ Hits # {}
  <2>1. PICK e \in Hits : scan' = [scan EXCEPT ![c] =
                             [step |-> "done", bytes |-> e.bytes, head |-> e.head, gen |-> e.gen]]
    BY <1>5 DEF BeginCached
  <2>2. [step |-> "done", bytes |-> e.bytes, head |-> e.head, gen |-> e.gen] \in Scan
    BY <2>1 DEF Hits, BankTypes, Scan
  <2> QED
    BY <1>1, <1>5, <2>1, <2>2 DEF BeginCached, BankTypes
<1> QED
  BY <1>3, <1>4, <1>5

LEMMA ScanTypes ==
    ASSUME BankTypes, NEW c \in Callers, ScanStep(c)
    PROVE  BankTypes'
<1>1. CASE Walk(c)
  <2>1. /\ [scan EXCEPT ![c].step = "head", ![c].bytes = tree.bytes] \in [Callers -> Scan]
        /\ [scan EXCEPT ![c].step = "generation"] \in [Callers -> Scan]
    BY DEF BankTypes, Scan, Bytes
  <2> QED
    BY <1>1, <2>1 DEF Walk, BankTypes
<1>2. CASE ReadHead(c)
  <2>1. [scan EXCEPT ![c].step = "store", ![c].head = head] \in [Callers -> Scan]
    BY DEF BankTypes, Scan
  <2> QED
    BY <1>2, <2>1 DEF ReadHead, BankTypes
<1>3. CASE StoreCache(c)
  <2>1. [scan EXCEPT ![c].step = "generation"] \in [Callers -> Scan]
    BY DEF BankTypes, Scan
  <2>2. [bytes |-> scan[c].bytes, head |-> scan[c].head, gen |-> tree.gen, old |-> FALSE]
           \in [bytes : Bytes, head : Nat, gen : Nat, old : BOOLEAN]
    BY DEF BankTypes, Scan
  <2> QED
    BY <1>3, <2>1, <2>2 DEF StoreCache, BankTypes
<1>4. CASE ReadGeneration(c)
  <2>1. ASSUME NEW g \in Nat
        PROVE  [scan EXCEPT ![c].step = "done", ![c].gen = g] \in [Callers -> Scan]
    BY DEF BankTypes, Scan
  <2>2. tree.gen \in Nat
    BY DEF BankTypes
  <2>3. scan' \in [Callers -> Scan]
    BY <1>4, <2>1, <2>2 DEF ReadGeneration
  <2> QED
    BY <1>4, <2>3 DEF ReadGeneration, BankTypes
<1> QED
  BY <1>1, <1>2, <1>3, <1>4 DEF ScanStep

LEMMA AnswerTypes ==
    ASSUME BankTypes, NEW c \in Callers, NEW s, Answer(c, s)
    PROVE  BankTypes'
<1>1. Idle \in Scan
  BY DEF Idle, Scan, Bytes
<1> QED
  BY <1>1 DEF Answer, BankTypes

LEMMA AgingTypes == BankTypes /\ CacheAges => BankTypes'
<1> SUFFICES ASSUME BankTypes, CacheAges PROVE BankTypes'
  OBVIOUS
<1>1. \A e \in cache : [e EXCEPT !.old = TRUE]
                         \in [bytes : Bytes, head : Nat, gen : Nat, old : BOOLEAN]
  BY DEF BankTypes
<1> QED
  BY <1>1 DEF CacheAges, BankTypes

LEMMA BankKept == SubmissionInv /\ [Next]_vars => BankTypes'
<1> SUFFICES ASSUME SubmissionInv, [Next]_vars PROVE BankTypes'
  OBVIOUS
<1> USE Members
<1>1. BankTypes
  BY DEF SubmissionInv, Types, BankTypes
<1>2. CASE UNCHANGED bankVars
  BY <1>1, <1>2 DEF bankVars, BankTypes
<1>3. CASE Restart
  <2>1. Idle \in Scan
    BY DEF Idle, Scan, Bytes
  <2> QED
    BY <1>1, <1>3, <2>1 DEF Restart, BankTypes
<1> QED
  BY <1>1, <1>2, <1>3, WorldTypes, BeginTypes, ScanTypes, AnswerTypes, AgingTypes
     DEF Next, Requests, Call, vars, StartPreview, CatalogFresh, Take, StartList, Insert,
         RecordPreview, RecordAttempt, CheckAge, Compare, Sbatch, RecordOutcome, AnswerList,
         Scanning, PreviewAges, World

-----------------------------------------------------------------------------
(* The tokens.  A step of the bank, a scan or a call without a token, and  *)
(* a call's beginning and end, move no token.                              *)
ServerTypes ==
    /\ DOMAIN previews \subseteq Tokens /\ aged \subseteq Tokens
    /\ stage \in [Callers -> Stages]
    /\ token \in [Submitters -> Tokens \cup {NoToken}]
    /\ tries \in [Submitters -> Nat]
    /\ ran \in [Tokens -> Seq(Contents)]
    /\ offered \in [Tokens -> Read]
    /\ fate \in [Tokens -> {"unseen", "held", "late", "taken"}]

TokenInv == ServerTypes /\ Fates /\ Holders /\ Runs

(* What the tokens need of the scans: that of a call about to run its      *)
(* script stands still.                                                    *)
LEMMA ScansStand ==
    ASSUME SubmissionInv, [Next]_vars, NEW s \in Submitters, stage[s] = "sbatch"
    PROVE  scan'[s] = scan[s] \/ stage'[s] \in Over
<1> USE Members
<1>1. scan[s].step = "done"
  BY DEF SubmissionInv, Runs
<1>2. ASSUME NEW c \in Callers, Scanning(c) PROVE scan'[s] = scan[s]
  BY <1>1, <1>2 DEF Scanning, ScanStep, Walk, ReadHead, StoreCache, ReadGeneration, SubmissionInv,
                    Types
<1>3. ASSUME NEW c \in Callers, NEW o \in {"ok", "failed"}, Answer(c, o)
      PROVE  scan'[s] = scan[s] \/ stage'[s] \in Over
  BY <1>3 DEF Answer, GoTo, Over, SubmissionInv, Types
<1>4. ASSUME NEW c \in Callers, BeginForced(c) \/ BeginCached(c) PROVE scan'[s] = scan[s]
  BY <1>1, <1>4 DEF BeginForced, BeginCached, Begin, SubmissionInv, Types
<1>5. CASE Restart
  BY <1>5 DEF Restart, Over
<1>6. CASE UNCHANGED scan
  BY <1>6
<1> QED
  BY <1>2, <1>3, <1>4, <1>5, <1>6
     DEF Next, Requests, Call, vars, bankVars, StartPreview, CatalogFresh, Take, StartList, Insert,
         RecordPreview, RecordAttempt, CheckAge, Compare, Sbatch, RecordOutcome, AnswerList,
         PreviewAges, World, Edit, Commit, CacheAges

tokenVars == <<previews, aged, token, tries, ran, offered, fate>>


LEMMA TokensRest ==
    ASSUME TokenInv, stage' \in [Callers -> Stages],
           DOMAIN previews' \subseteq DOMAIN previews,
           UNCHANGED <<aged, token, tries, ran, offered, fate>>,
           \A p \in Previewers : stage'[p] \in {"new", "scan"} => stage[p] \in {"new", "scan"},
           \A s \in Submitters :
                /\ Serving(s)' => Serving(s)
                /\ stage'[s] \in {"scan", "sbatch", "submitted"} => fate[token[s]] = "taken"
                /\ stage'[s] \in {"new", "attempt", "age", "scan"} => tries[s] = 0
                /\ stage'[s] = "sbatch" =>
                     /\ tries[s] < Attempts
                     /\ scan'[s].step = "done"
                     /\ scan'[s].bytes \in Contents /\ scan'[s].bytes = offered[token[s]].bytes
    PROVE  TokenInv'
<1>1. ServerTypes'
  BY DEF TokenInv, ServerTypes
<1>2. Fates'
  BY DEF TokenInv, Fates
<1>3. Holders'
  BY DEF TokenInv, Holders
<1>4. Runs'
  BY DEF TokenInv, Runs
<1> QED
  BY <1>1, <1>2, <1>3, <1>4 DEF TokenInv

LEMMA CallsWithoutTokens ==
    ASSUME SubmissionInv, [Next]_vars,
           \/ \E p \in Previewers : StartPreview(p) \/ RecordPreview(p)
           \/ \E l \in Listers : StartList(l) \/ AnswerList(l)
           \/ \E c \in Callers : Scanning(c)
           \/ World
           \/ CacheAges /\ UNCHANGED <<serverVars, history, restarts>>
           \/ UNCHANGED vars
    PROVE  TokenInv'
<1> USE Members
<1> DEFINE Moves(c) == \/ stage'[c] = stage[c]
                       \/ c \notin Submitters /\ stage[c] = "new" /\ stage'[c] = "scan"
                       \/ c \notin Submitters /\ stage'[c] \in {"ok", "failed"}
<1>1. TokenInv
  BY DEF SubmissionInv, Types, TokenInv, ServerTypes
<1>2. UNCHANGED <<previews, aged, token, tries, ran, offered, fate>>
  BY DEF StartPreview, RecordPreview, StartList, AnswerList, Scanning, World, vars, serverVars,
         history
<1>3. stage' \in [Callers -> Stages] /\ \A c \in Callers : Moves(c)
  <2>1. ASSUME NEW p \in Previewers \cup Listers, stage[p] = "new" /\ GoTo(p, "scan")
        PROVE  stage' \in [Callers -> Stages] /\ \A c \in Callers : Moves(c)
    BY <2>1, <1>1 DEF GoTo, TokenInv, ServerTypes, Stages
  <2>2. ASSUME NEW p \in Previewers \cup Listers, GoTo(p, "ok") \/ GoTo(p, "failed")
        PROVE  stage' \in [Callers -> Stages] /\ \A c \in Callers : Moves(c)
    BY <2>2, <1>1 DEF GoTo, TokenInv, ServerTypes, Stages
  <2>3. ASSUME stage' = stage
        PROVE  stage' \in [Callers -> Stages] /\ \A c \in Callers : Moves(c)
    BY <2>3, <1>1 DEF TokenInv, ServerTypes
  <2> QED
    BY <2>1, <2>2, <2>3
       DEF StartPreview, Admitted, RecordPreview, Answer, StartList, AnswerList, Scanning, World,
           vars, serverVars
<1>4. \A s \in Submitters : stage'[s] = stage[s]
                            /\ (stage[s] = "sbatch" => scan'[s] = scan[s])
  BY <1>3, ScansStand DEF Over
<1> HIDE DEF Moves
<1>5. \A p \in Previewers : stage'[p] \in {"new", "scan"} => stage[p] \in {"new", "scan"}
  BY <1>3 DEF Moves
<1>6. \A s \in Submitters :
                /\ Serving(s)' => Serving(s)
                /\ stage'[s] \in {"scan", "sbatch", "submitted"} => fate[token[s]] = "taken"
                /\ stage'[s] \in {"new", "attempt", "age", "scan"} => tries[s] = 0
                /\ stage'[s] = "sbatch" =>
                     /\ tries[s] < Attempts
                     /\ scan'[s].step = "done"
                     /\ scan'[s].bytes \in Contents /\ scan'[s].bytes = offered[token[s]].bytes
  BY <1>1, <1>4 DEF TokenInv, Holders, Runs, Serving, Over
<1> QED
  BY <1>1, <1>2, <1>3, <1>5, <1>6, TokensRest

LEMMA CallsWithTokens ==
    ASSUME SubmissionInv, NEW s \in Submitters, RecordAttempt(s) \/ CheckAge(s) \/ Compare(s)
    PROVE  TokenInv'
<1> USE Members
<1>1. TokenInv
  BY DEF SubmissionInv, Types, TokenInv, ServerTypes
<1>2. UNCHANGED <<previews, aged, token, tries, ran, offered, fate>>
  BY DEF RecordAttempt, CheckAge, Compare, history
<1>3. PICK t \in Stages : GoTo(s, t)
  BY DEF RecordAttempt, CheckAge, Compare, Stages
<1>4. stage' \in [Callers -> Stages] /\ stage'[s] = t
      /\ \A c \in Callers : c # s => stage'[c] = stage[c]
  BY <1>1, <1>3 DEF GoTo, TokenInv, ServerTypes
<1>5. \A r \in Submitters : r # s => scan'[r] = scan[r]
  BY DEF RecordAttempt, CheckAge, Compare, CatalogFresh, BeginForced, bankVars, SubmissionInv,
         Types
<1>6. /\ Serving(s) /\ tries[s] = 0
      /\ t \in {"age", "failed", "rejected", "scan", "sbatch"}
      /\ t = "scan" => fate[token[s]] = "taken"
      /\ t = "sbatch" => /\ fate[token[s]] = "taken"
                         /\ scan'[s].step = "done"
                         /\ scan'[s].bytes \in Contents
                         /\ scan'[s].bytes = offered[token[s]].bytes
  <2>1. CASE RecordAttempt(s)
    BY <1>1, <1>4, <2>1 DEF RecordAttempt, GoTo, TokenInv, ServerTypes, Runs, Serving, Over
  <2>2. CASE CheckAge(s)
    BY <1>1, <1>4, <2>2
       DEF CheckAge, Expired, GoTo, TokenInv, ServerTypes, Holders, Runs, Serving, Over
  <2>3. CASE Compare(s)
    <3>1. scan'[s] = scan[s] /\ scan[s].bytes \in Bytes
      BY <2>3 DEF Compare, bankVars, SubmissionInv, Types, Scan
    <3> QED
      BY <1>1, <1>4, <2>3, <3>1
         DEF Compare, Offerable, SamePreview, Catalog, Bytes, GoTo, TokenInv, ServerTypes, Holders,
             Runs, Serving, Over
  <2> QED
    BY <2>1, <2>2, <2>3
<1>7. \A r \in Submitters :
                /\ Serving(r)' => Serving(r)
                /\ stage'[r] \in {"scan", "sbatch", "submitted"} => fate[token[r]] = "taken"
                /\ stage'[r] \in {"new", "attempt", "age", "scan"} => tries[r] = 0
                /\ stage'[r] = "sbatch" =>
                     /\ tries[r] < Attempts
                     /\ scan'[r].step = "done"
                     /\ scan'[r].bytes \in Contents /\ scan'[r].bytes = offered[token[r]].bytes
  BY <1>1, <1>4, <1>5, <1>6 DEF TokenInv, Holders, Runs, Serving, Over
<1> QED
  BY <1>1, <1>2, <1>4, <1>7, TokensRest

LEMMA Inserts ==
    ASSUME SubmissionInv, NEW p \in Previewers, Insert(p)
    PROVE  TokenInv'
<1> USE Members
<1>1. TokenInv /\ fate[p] = "unseen" /\ p \in Tokens
  BY DEF SubmissionInv, Types, TokenInv, ServerTypes, Fates, Insert
<1>2. UNCHANGED <<aged, token, tries, ran, scan>> /\ DOMAIN Unexpired \subseteq DOMAIN previews
  BY DEF Insert, bankVars, Unexpired
<1>3. PICK t \in {"rejected", "record"} : GoTo(p, t)
  BY DEF Insert
<1>4. stage' \in [Callers -> Stages] /\ stage'[p] = t
      /\ \A c \in Callers : c # p => stage'[c] = stage[c]
  BY <1>1, <1>3 DEF GoTo, TokenInv, ServerTypes, Stages
<1>5. CASE UNCHANGED <<offered, fate>> /\ DOMAIN previews' \subseteq DOMAIN previews
  <2>1. \A s \in Submitters :
                /\ Serving(s)' => Serving(s)
                /\ stage'[s] \in {"scan", "sbatch", "submitted"} => fate[token[s]] = "taken"
                /\ stage'[s] \in {"new", "attempt", "age", "scan"} => tries[s] = 0
                /\ stage'[s] = "sbatch" =>
                     /\ tries[s] < Attempts
                     /\ scan'[s].step = "done"
                     /\ scan'[s].bytes \in Contents /\ scan'[s].bytes = offered[token[s]].bytes
    BY <1>1, <1>2, <1>4 DEF TokenInv, Holders, Runs, Serving, Over
  <2> QED
    BY <1>1, <1>2, <1>4, <1>5, <2>1, TokensRest
<1>6. CASE /\ DOMAIN previews' = DOMAIN Unexpired \cup {p}
           /\ offered' = [offered EXCEPT ![p] = Catalog(p)]
           /\ fate' = [fate EXCEPT ![p] = "held"]
  <2>1. Catalog(p) \in Read
    BY DEF Catalog, Read, Scan, SubmissionInv, Types
  <2>2. ServerTypes'
    BY <1>1, <1>2, <1>4, <1>6, <2>1 DEF TokenInv, ServerTypes
  <2>3. \A s \in Submitters : stage'[s] = stage[s] /\ (Serving(s) => token[s] # p)
    BY <1>1, <1>4 DEF TokenInv, Holders
  <2>4. Fates'
    BY <1>1, <1>2, <1>4, <1>6 DEF TokenInv, ServerTypes, Fates
  <2>5. Holders'
    BY <1>1, <1>2, <1>6, <2>3 DEF TokenInv, ServerTypes, Holders, Serving
  <2>6. Runs'
    BY <1>1, <1>2, <1>6, <2>3 DEF TokenInv, ServerTypes, Holders, Runs, Serving, Over
  <2> QED
    BY <2>2, <2>4, <2>5, <2>6 DEF TokenInv
<1> QED
  BY <1>2, <1>5, <1>6 DEF Insert

LEMMA Ages ==
    ASSUME SubmissionInv, NEW t \in Tokens, PreviewAges(t)
    PROVE  TokenInv'
<1>1. TokenInv /\ fate[t] = "held"
  BY DEF SubmissionInv, Types, TokenInv, ServerTypes, Fates, PreviewAges
<1>2. UNCHANGED <<previews, stage, token, tries, ran, offered, fate, scan>> /\ aged' = aged \cup {t}
  BY DEF PreviewAges, history, bankVars
<1>3. ServerTypes' /\ Fates' /\ Holders'
  BY <1>1, <1>2 DEF TokenInv, ServerTypes, Fates, Holders, Serving
<1>4. Runs'
  BY <1>1, <1>2 DEF TokenInv, Runs, Serving
<1> QED
  BY <1>3, <1>4 DEF TokenInv

LEMMA Takes ==
    ASSUME SubmissionInv, NEW s \in Submitters, NEW t \in Tokens, Take(s, t)
    PROVE  TokenInv'
<1> USE Members
<1>1. TokenInv /\ ~Serving(s) /\ tries[s] = 0
  BY DEF SubmissionInv, Types, TokenInv, ServerTypes, Runs, Take, Admitted, Serving, Over
<1>2. UNCHANGED <<aged, tries, ran, offered, scan>>
  BY DEF Take, bankVars
<1>3. CASE t \in DOMAIN previews
  <2>1. fate[t] = "held" /\ ran[t] = <<>> /\ Len(ran[t]) = 0
    BY <1>1, <1>3, EmptySeq DEF TokenInv, Fates
  <2>2. /\ stage' = [stage EXCEPT ![s] = "attempt"] /\ token' = [token EXCEPT ![s] = t]
        /\ fate' = [fate EXCEPT ![t] = IF t \in aged THEN "late" ELSE "taken"]
        /\ DOMAIN previews' = DOMAIN previews \ {t}
    BY <1>3 DEF Take, Without, GoTo
  <2>3. ServerTypes'
    BY <1>1, <1>2, <2>2 DEF TokenInv, ServerTypes, Stages
  <2>4. /\ stage'[s] = "attempt" /\ token'[s] = t
        /\ \A r \in Submitters : r # s => stage'[r] = stage[r] /\ token'[r] = token[r]
        /\ \A r \in Submitters : Serving(r) => token[r] # t
        /\ fate'[t] \in {"late", "taken"} /\ (fate'[t] = "late" => t \in aged)
        /\ \A u \in Tokens : u # t => fate'[u] = fate[u]
    BY <1>1, <2>1, <2>2 DEF TokenInv, ServerTypes, Holders
  <2>5. Fates'
    <3>1. \A p \in Previewers : stage'[p] = stage[p]
      BY <2>2, <1>1 DEF TokenInv, ServerTypes
    <3>2. t \notin {p \in Previewers : stage[p] \in {"new", "scan"}}
      BY <1>1, <2>1 DEF TokenInv, Fates
    <3> QED
      BY <1>1, <1>2, <2>1, <2>2, <2>4, <3>1, <3>2 DEF TokenInv, ServerTypes, Fates
  <2>6. Holders'
    BY <1>1, <1>2, <2>4 DEF TokenInv, Holders, Serving
  <2>7. Runs'
    BY <1>1, <1>2, <2>1, <2>4 DEF TokenInv, Runs, Serving
  <2> QED
    BY <2>3, <2>5, <2>6, <2>7 DEF TokenInv
<1>4. CASE t \notin DOMAIN previews
  <2>1. UNCHANGED <<previews, token, fate>> /\ stage' = [stage EXCEPT ![s] = "failed"]
    BY <1>4 DEF Take, GoTo
  <2>2. stage' \in [Callers -> Stages] /\ stage'[s] = "failed"
        /\ \A c \in Callers : c # s => stage'[c] = stage[c]
    BY <1>1, <2>1 DEF TokenInv, ServerTypes, Stages
  <2>3. \A r \in Submitters :
                /\ Serving(r)' => Serving(r)
                /\ stage'[r] \in {"scan", "sbatch", "submitted"} => fate[token[r]] = "taken"
                /\ stage'[r] \in {"new", "attempt", "age", "scan"} => tries[r] = 0
                /\ stage'[r] = "sbatch" =>
                     /\ tries[r] < Attempts
                     /\ scan'[r].step = "done"
                     /\ scan'[r].bytes \in Contents /\ scan'[r].bytes = offered[token[r]].bytes
    BY <1>1, <1>2, <2>2 DEF TokenInv, Holders, Runs, Serving, Over
  <2> QED
    BY <1>1, <1>2, <2>1, <2>2, <2>3, TokensRest
<1> QED
  BY <1>3, <1>4

LEMMA Sbatches ==
    ASSUME SubmissionInv, NEW s \in Submitters, Sbatch(s)
    PROVE  TokenInv'
<1> USE Members
<1>1. TokenInv /\ stage[s] = "sbatch" /\ Serving(s) /\ token[s] \in Tokens
      /\ fate[token[s]] = "taken" /\ tries[s] \in Nat /\ tries[s] < Attempts
      /\ ran[token[s]] \in Seq(Contents) /\ Len(ran[token[s]]) <= tries[s]
      /\ scan[s].bytes \in Contents
  BY DEF SubmissionInv, Types, TokenInv, ServerTypes, Holders, Runs, Sbatch, Serving, Over
<1>2. UNCHANGED <<previews, aged, token, offered, fate, scan>>
      /\ tries' = [tries EXCEPT ![s] = @ + 1]
  BY DEF Sbatch, bankVars
<1>3. /\ stage' \in [Callers -> Stages]
      /\ stage'[s] \in {"submitted", "rejected", "sbatch"}
      /\ stage'[s] = "sbatch" => tries[s] + 1 < Attempts
      /\ \A c \in Callers : c # s => stage'[c] = stage[c]
  BY <1>1 DEF Sbatch, GoTo, TokenInv, ServerTypes, Stages
<1>4. /\ ran' \in [Tokens -> Seq(Contents)]
      /\ \A t \in Tokens : t # token[s] => ran'[t] = ran[t]
      /\ Len(ran'[token[s]]) <= tries[s] + 1
  <2>1. CASE UNCHANGED ran
    BY <1>1, <2>1, LenProperties DEF TokenInv, ServerTypes
  <2>2. CASE ran' = [ran EXCEPT ![token[s]] = Append(@, scan[s].bytes)]
    <3>1. /\ Append(ran[token[s]], scan[s].bytes) \in Seq(Contents)
          /\ Len(Append(ran[token[s]], scan[s].bytes)) = Len(ran[token[s]]) + 1
      BY <1>1, AppendProperties
    <3> QED
      BY <1>1, <2>2, <3>1, LenProperties DEF TokenInv, ServerTypes
  <2> QED
    BY <2>1, <2>2 DEF Sbatch
<1>5. ServerTypes'
  BY <1>1, <1>2, <1>3, <1>4 DEF TokenInv, ServerTypes
<1>6. Fates' /\ Holders'
  <2>1. \A p \in Previewers : stage'[p] = stage[p]
    BY <1>3
  <2>2. Fates'
    BY <1>1, <1>2, <1>4, <2>1 DEF TokenInv, Fates
  <2>3. Holders'
    BY <1>1, <1>2, <1>3 DEF TokenInv, Holders, Serving, Over
  <2> QED
    BY <2>2, <2>3
<1>7. Runs'
  <2>1. tries'[s] = tries[s] + 1 /\ \A r \in Submitters : r # s => tries'[r] = tries[r]
    BY <1>1, <1>2 DEF TokenInv, ServerTypes
  <2>2. \A r \in Submitters : Serving(r) /\ r # s => token[r] \in Tokens /\ token[r] # token[s]
    BY <1>1 DEF TokenInv, Holders
  <2>3. \A r \in Submitters : Serving(r)' => Len(ran'[token[r]]) <= tries'[r]
    BY <1>1, <1>3, <1>4, <2>1, <2>2 DEF TokenInv, Runs, Serving
  <2>4. \A r \in Submitters : stage'[r] \in {"new", "attempt", "age", "scan"} => tries'[r] = 0
    BY <1>1, <1>3, <2>1 DEF TokenInv, Runs
  <2>5. \A r \in Submitters : stage'[r] = "sbatch" => tries'[r] < Attempts
    BY <1>1, <1>3, <2>1 DEF TokenInv, Runs
  <2> QED
    BY <1>1, <1>2, <1>3, <2>3, <2>4, <2>5 DEF TokenInv, Runs
<1> QED
  BY <1>5, <1>6, <1>7 DEF TokenInv

LEMMA Outcomes ==
    ASSUME SubmissionInv, NEW s \in Submitters, RecordOutcome(s)
    PROVE  TokenInv'
<1> USE Members
<1>1. TokenInv
  BY DEF SubmissionInv, Types, TokenInv, ServerTypes
<1>2. /\ UNCHANGED <<previews, aged, ran, offered, fate>>
      /\ token' = [token EXCEPT ![s] = NoToken] /\ tries' = [tries EXCEPT ![s] = 0]
      /\ \A r \in Submitters : r # s => scan'[r] = scan[r]
  BY DEF RecordOutcome, Answer, history, SubmissionInv, Types
<1>3. /\ stage' \in [Callers -> Stages] /\ stage'[s] \in Over
      /\ stage'[s] \notin {"new", "attempt", "age", "scan", "sbatch"}
      /\ \A c \in Callers : c # s => stage'[c] = stage[c]
  BY <1>1 DEF RecordOutcome, Answer, GoTo, TokenInv, ServerTypes, Stages, Over
<1>4. ServerTypes'
  BY <1>1, <1>2, <1>3 DEF TokenInv, ServerTypes
<1>5. Fates'
  BY <1>1, <1>2, <1>3 DEF TokenInv, Fates
<1>6. \A r \in Submitters : r # s => token'[r] = token[r] /\ tries'[r] = tries[r]
  BY <1>1, <1>2 DEF TokenInv, ServerTypes
<1>7. Holders' /\ Runs'
  BY <1>1, <1>2, <1>3, <1>6 DEF TokenInv, Holders, Runs, Serving, Over
<1> QED
  BY <1>4, <1>5, <1>7 DEF TokenInv

LEMMA Restarts ==
    ASSUME SubmissionInv, Restart
    PROVE  TokenInv'
<1> USE Members
<1>1. TokenInv
  BY DEF SubmissionInv, Types, TokenInv, ServerTypes
<1>2. /\ UNCHANGED <<aged, ran, offered, fate>> /\ DOMAIN previews' = {}
      /\ \A s \in Submitters : tries'[s] = 0
      /\ tries' \in [Submitters -> Nat] /\ token' \in [Submitters -> Tokens \cup {NoToken}]
  BY DEF Restart, history
<1>3. /\ stage' \in [Callers -> Stages]
      /\ \A c \in Callers : stage'[c] \in Over /\ (stage'[c] = "new" => stage[c] = "new")
  BY <1>1 DEF Restart, TokenInv, ServerTypes, Stages, Over
<1>4. ServerTypes' /\ Fates'
  BY <1>1, <1>2, <1>3 DEF TokenInv, ServerTypes, Fates, Over
<1>5. Holders' /\ Runs'
  BY <1>2, <1>3 DEF Holders, Runs, Serving, Over
<1> QED
  BY <1>4, <1>5 DEF TokenInv

LEMMA TokensKept == SubmissionInv /\ [Next]_vars => TokenInv'
<1> SUFFICES ASSUME SubmissionInv, [Next]_vars PROVE TokenInv'
  OBVIOUS
<1> QED
  BY CallsWithoutTokens, CallsWithTokens, Inserts, Ages, Takes, Sbatches, Outcomes, Restarts,
     Members
     DEF Next, Requests, Call

-----------------------------------------------------------------------------
(* The scans.                                                              *)

-----------------------------------------------------------------------------
(* The scans.  A step is of the world, of one caller's scan or call, or of *)
(* another caller, who leaves this one's scan alone.                       *)
OfOthers(c) == UNCHANGED <<tree, head>> /\ scan'[c] = scan[c] /\ seen'[c] = seen[c]
OfWorld == (Edit \/ Commit) /\ UNCHANGED <<serverVars, offered>>
Begins(c) == BeginForced(c) \/ BeginCached(c)
Answers(c) == \E s \in {"ok", "failed"} : Answer(c, s)

LEMMA WhoseStep ==
    ASSUME SubmissionInv, [Next]_vars, NEW c \in Callers
    PROVE  OfOthers(c) \/ OfWorld \/ Begins(c) \/ Answers(c) \/ Restart
           \/ (ScanStep(c) /\ UNCHANGED <<serverVars, offered>>)
<1> USE Members
<1>1. scan \in [Callers -> Scan] /\ seen \in [Callers -> SUBSET Read]
  BY DEF SubmissionInv, Types
<1>2. ASSUME NEW d \in Callers, d # c,
             Begins(d) \/ Answers(d) \/ ScanStep(d)
      PROVE  OfOthers(c)
  BY <1>1, <1>2
     DEF Begins, Begin, BeginForced, BeginCached, Answers, Answer, ScanStep, Walk, ReadHead,
         StoreCache, ReadGeneration, OfOthers
<1>3. CASE UNCHANGED <<tree, head, scan, seen>>
  BY <1>3 DEF OfOthers
<1>4. CASE \E d \in Callers : Begins(d) \/ Answers(d)
  BY <1>2, <1>4
<1>5. CASE \E d \in Callers : Scanning(d)
  BY <1>2, <1>5 DEF Scanning, history
<1>6. CASE World
  BY <1>6 DEF World, OfWorld
<1> QED
  BY <1>3, <1>4, <1>5, <1>6
     DEF Next, Requests, Call, vars, bankVars, StartPreview, CatalogFresh, Take, StartList, Insert,
         RecordPreview, RecordAttempt, CheckAge, Compare, Sbatch, RecordOutcome, AnswerList,
         PreviewAges, CacheAges, Begins, Answers

LEMMA HolderStays ==
    ASSUME SubmissionInv, [Next]_vars, NEW s \in Submitters, Serving(s), Serving(s)'
    PROVE  token'[s] = token[s] /\ token[s] \in Tokens /\ offered'[token[s]] = offered[token[s]]
<1> USE Members
<1>1. TokenInv /\ token[s] \in Tokens
  BY DEF SubmissionInv, Types, TokenInv, ServerTypes, Holders
<1>2. ASSUME NEW p \in Previewers, Insert(p)
      PROVE  token'[s] = token[s] /\ offered'[token[s]] = offered[token[s]]
  <2>1. fate[p] = "unseen" /\ fate[token[s]] # "unseen"
    BY <1>1, <1>2 DEF TokenInv, Fates, Holders, Insert
  <2> QED
    BY <1>1, <1>2, <2>1 DEF Insert, TokenInv, ServerTypes
<1>3. ASSUME NEW r \in Submitters, NEW t \in Tokens, Take(r, t)
      PROVE  token'[s] = token[s] /\ offered'[token[s]] = offered[token[s]]
  BY <1>1, <1>3 DEF Take, Admitted, Serving, Over, TokenInv, ServerTypes
<1>4. ASSUME NEW r \in Submitters, RecordOutcome(r)
      PROVE  token'[s] = token[s] /\ offered'[token[s]] = offered[token[s]]
  BY <1>1, <1>4 DEF RecordOutcome, Answer, GoTo, Serving, Over, TokenInv, ServerTypes, history
<1>5. CASE Restart
  BY <1>5 DEF Restart, Serving, Over
<1>6. ASSUME UNCHANGED <<token, offered>>
      PROVE  token'[s] = token[s] /\ offered'[token[s]] = offered[token[s]]
  BY <1>6
<1>7. CASE Requests
  BY <1>1, <1>3, <1>6, <1>7 DEF Requests, StartPreview, StartList, history
<1>8. ASSUME NEW c \in Callers, Call(c)
      PROVE  token'[s] = token[s] /\ offered'[token[s]] = offered[token[s]]
  BY <1>2, <1>4, <1>6, <1>8
     DEF Call, serverVars, history, RecordPreview, RecordAttempt, CheckAge, Compare, Sbatch,
         AnswerList, Scanning
<1> QED
  BY <1>1, <1>5, <1>6, <1>7, <1>8 DEF Next, vars, serverVars, history, PreviewAges, World

(* How a submission gets to its scan, to its command and to its outcome.   *)
LEMMA SubmitterMoves ==
    ASSUME SubmissionInv, [Next]_vars, NEW s \in Submitters
    PROVE  /\ stage'[s] = "scan" => stage[s] = "scan" \/ CheckAge(s)
           /\ stage'[s] = "sbatch" => stage[s] = "sbatch" \/ (Compare(s) /\ GoTo(s, "sbatch"))
           /\ stage'[s] = "submitted" =>
                stage[s] = "submitted" \/ (stage[s] = "sbatch" /\ UNCHANGED bankVars)
<1> USE Members
<1> DEFINE Moves == /\ stage'[s] = "scan" => stage[s] = "scan" \/ CheckAge(s)
                    /\ stage'[s] = "sbatch" =>
                         stage[s] = "sbatch" \/ (Compare(s) /\ GoTo(s, "sbatch"))
                    /\ stage'[s] = "submitted" =>
                         stage[s] = "submitted" \/ (stage[s] = "sbatch" /\ UNCHANGED bankVars)
<1>1. stage \in [Callers -> Stages]
  BY DEF SubmissionInv, Types
<1>2. ASSUME stage'[s] = stage[s] PROVE Moves
  BY <1>2
<1>3. ASSUME NEW d \in Callers, NEW t, GoTo(d, t), d # s \/ t \notin {"scan", "sbatch", "submitted"}
      PROVE  Moves
  BY <1>1, <1>3 DEF GoTo
<1>4. ASSUME NEW p \in Previewers \cup Listers, GoTo(p, "scan") PROVE Moves
  BY <1>3, <1>4
<1>5. ASSUME NEW p \in Previewers, Insert(p) PROVE Moves
  BY <1>3, <1>5 DEF Insert
<1>6. ASSUME NEW c \in Callers, NEW t \in {"ok", "failed"}, Answer(c, t) PROVE Moves
  BY <1>3, <1>6 DEF Answer
<1>7. ASSUME NEW r \in Submitters, NEW t \in Tokens, Take(r, t) PROVE Moves
  BY <1>3, <1>7 DEF Take
<1>8. ASSUME NEW r \in Submitters, RecordAttempt(r) PROVE Moves
  BY <1>3, <1>8 DEF RecordAttempt
<1>9. ASSUME NEW r \in Submitters, CheckAge(r) PROVE Moves
  BY <1>1, <1>9 DEF CheckAge, GoTo
<1>10. ASSUME NEW r \in Submitters, Compare(r) PROVE Moves
  BY <1>1, <1>10 DEF Compare, GoTo
<1>11. ASSUME NEW r \in Submitters, Sbatch(r) PROVE Moves
  BY <1>1, <1>11 DEF Sbatch, GoTo
<1>12. ASSUME Restart PROVE Moves
  BY <1>12 DEF Restart, Over
<1> HIDE DEF Moves
<1>13. ASSUME Requests PROVE Moves
  BY <1>4, <1>7, <1>13 DEF Requests, StartPreview, StartList
<1>14. ASSUME NEW c \in Callers, Call(c) PROVE Moves
  <2>1. CASE RecordPreview(c) \/ (c \in Submitters /\ RecordOutcome(c)) \/ AnswerList(c)
    BY <1>6, <2>1 DEF RecordPreview, RecordOutcome, AnswerList
  <2>2. CASE Scanning(c)
    BY <1>2, <2>2 DEF Scanning, serverVars
  <2> QED
    BY <1>5, <1>8, <1>9, <1>10, <1>11, <1>14, <2>1, <2>2 DEF Call
<1>15. Moves
  BY <1>2, <1>12, <1>13, <1>14 DEF Next, vars, serverVars, PreviewAges, World
<1> QED
  BY <1>15 DEF Moves



LEMMA SettledKept == SubmissionInv /\ [Next]_vars => SettledScan'
<1> SUFFICES ASSUME SubmissionInv, [Next]_vars PROVE SettledScan'
  OBVIOUS
<1> USE Members
<1>1. /\ scan \in [Callers -> Scan] /\ stage \in [Callers -> Stages]
      /\ \A c \in Callers : scan[c].step = "idle" => scan[c].bytes = NoScript
      /\ \A s \in Submitters : stage[s] = "submitted" => scan[s].step = "done"
      /\ \A s \in Submitters : stage[s] = "scan" => scan[s].step # "idle"
  BY DEF SubmissionInv, Types, SettledScan
<1>2. ASSUME NEW c \in Callers, scan'[c].step = "idle"
      PROVE  scan'[c].bytes = NoScript
  <2>1. CASE OfOthers(c)
    BY <1>1, <1>2, <2>1 DEF OfOthers
  <2>2. CASE OfWorld
    BY <1>1, <1>2, <2>2 DEF OfWorld, Edit, Commit
  <2>3. CASE Begins(c)
    BY <1>1, <1>2, <2>3 DEF Begins, BeginForced, BeginCached, Scan
  <2>4. CASE Answers(c) \/ Restart
    BY <1>1, <2>4 DEF Answers, Answer, Restart, Idle
  <2>5. CASE ScanStep(c)
    BY <1>1, <1>2, <2>5 DEF ScanStep, Walk, ReadHead, StoreCache, ReadGeneration, Scan
  <2> QED
    BY <2>1, <2>2, <2>3, <2>4, <2>5, WhoseStep
<1>3. ASSUME NEW s \in Submitters, stage'[s] = "submitted"
      PROVE  scan'[s].step = "done"
  <2>1. CASE stage[s] = "sbatch" /\ UNCHANGED bankVars
    BY <2>1 DEF bankVars, SubmissionInv, Runs
  <2>2. CASE scan[s].step = "done"
    <3>1. CASE OfOthers(s) \/ OfWorld
      BY <2>2, <3>1 DEF OfOthers, OfWorld, Edit, Commit
    <3>2. CASE Begins(s) \/ ScanStep(s)
      BY <2>2, <3>2 DEF Begins, Begin, BeginForced, BeginCached, ScanStep, Walk, ReadHead,
                        StoreCache, ReadGeneration
    <3>3. CASE Answers(s) \/ Restart
      BY <1>1, <1>3, <3>3 DEF Answers, Answer, GoTo, Restart, Over
    <3> QED
      BY <3>1, <3>2, <3>3, WhoseStep
  <2> QED
    BY <1>1, <1>3, <2>1, <2>2, SubmitterMoves
<1>4. ASSUME NEW s \in Submitters, stage'[s] = "scan"
      PROVE  scan'[s].step # "idle"
  <2>1. CASE CheckAge(s)
    BY <1>1, <1>4, <2>1 DEF CheckAge, CatalogFresh, BeginForced, Begin, GoTo, Scan
  <2>2. CASE scan[s].step # "idle"
    <3>1. CASE OfOthers(s) \/ OfWorld
      BY <2>2, <3>1 DEF OfOthers, OfWorld, Edit, Commit
    <3>2. CASE Begins(s)
      BY <2>2, <3>2 DEF Begins, Begin, BeginForced, BeginCached
    <3>3. CASE Answers(s) \/ Restart
      BY <1>1, <1>4, <3>3 DEF Answers, Answer, GoTo, Restart, Over
    <3>4. CASE ScanStep(s)
      BY <1>1, <3>4 DEF ScanStep, Walk, ReadHead, StoreCache, ReadGeneration, Scan
    <3> QED
      BY <3>1, <3>2, <3>3, <3>4, WhoseStep
  <2> QED
    BY <1>1, <1>4, <2>1, <2>2, SubmitterMoves
<1> QED
  BY <1>2, <1>3, <1>4 DEF SettledScan

LEMMA TreeGrows ==
    ASSUME SubmissionInv, [Next]_vars
    PROVE  tree.gen \in Nat /\ (tree' = tree \/ tree'.gen = tree.gen + 1)
<1>1. tree.gen \in Nat
  BY DEF SubmissionInv, Types
<1>2. ASSUME tree' = tree PROVE tree' = tree \/ tree'.gen = tree.gen + 1
  BY <1>2
<1>3. ASSUME Edit \/ Commit PROVE tree' = tree \/ tree'.gen = tree.gen + 1
  BY <1>1, <1>3 DEF Edit, Commit
<1>4. Requests => tree' = tree
  BY DEF Requests, StartPreview, CatalogFresh, Take, StartList, Begin, BeginForced, BeginCached,
         bankVars
<1>5. ASSUME NEW c \in Callers, Call(c) PROVE tree' = tree
  <2>1. CASE Scanning(c)
    BY <2>1 DEF Scanning, ScanStep, Walk, ReadHead, StoreCache, ReadGeneration
  <2> QED
    BY <1>5, <2>1
       DEF Call, CatalogFresh, BeginForced, Insert, RecordPreview, RecordAttempt, CheckAge,
           Compare, Sbatch, RecordOutcome, AnswerList, Answer, bankVars
<1> QED
  BY <1>1, <1>2, <1>3, <1>4, <1>5
     DEF Next, vars, bankVars, PreviewAges, CacheAges, Restart, World

LEMMA GrowingKept == SubmissionInv /\ [Next]_vars => Growing'
<1> SUFFICES ASSUME SubmissionInv, [Next]_vars PROVE Growing'
  OBVIOUS
<1> USE Members
<1>1. /\ scan \in [Callers -> Scan] /\ offered \in [Tokens -> Read]
      /\ \A c \in Callers : scan[c].gen \in Nat /\ scan[c].gen <= tree.gen
      /\ \A t \in Tokens : offered[t].gen \in Nat /\ offered[t].gen <= tree.gen
  BY DEF SubmissionInv, Types, Growing, Scan, Read
<1>2. tree.gen \in Nat /\ (tree' = tree \/ tree'.gen = tree.gen + 1)
  BY TreeGrows
<1>3. ASSUME NEW c \in Callers PROVE scan'[c].gen <= tree'.gen
  <2>1. CASE OfOthers(c)
    BY <1>1, <1>2, <2>1 DEF OfOthers
  <2>2. CASE OfWorld
    BY <1>1, <1>2, <2>2 DEF OfWorld, Edit, Commit
  <2>3. CASE Begins(c)
    <3>1. CASE Hits # {} /\ BeginCached(c)
      BY <1>1, <1>2, <3>1 DEF BeginCached, Hits
    <3>2. CASE scan'[c].gen = scan[c].gen
      BY <1>1, <1>2, <3>2
    <3> QED
      BY <1>1, <2>3, <3>1, <3>2 DEF Begins, BeginForced, BeginCached, Scan
  <2>4. CASE Answers(c) \/ Restart
    BY <1>1, <1>2, <2>4 DEF Answers, Answer, Restart, Idle
  <2>5. CASE ScanStep(c)
    <3>1. scan'[c].gen \in {scan[c].gen, tree.gen, 0} /\ tree' = tree
      BY <1>1, <2>5 DEF ScanStep, Walk, ReadHead, StoreCache, ReadGeneration, Scan
    <3> QED
      BY <1>1, <1>2, <3>1
  <2> QED
    BY <2>1, <2>2, <2>3, <2>4, <2>5, WhoseStep
<1>4. ASSUME NEW t \in Tokens PROVE offered'[t].gen <= tree'.gen
  <2>1. CASE offered' = offered
    BY <1>1, <1>2, <2>1
  <2>2. ASSUME NEW p \in Previewers, Insert(p) PROVE offered'[t].gen <= tree'.gen
    <3>1. tree' = tree /\ offered'[t] \in {offered[t], Catalog(p)}
      BY <1>1, <2>2 DEF Insert, bankVars
    <3> QED
      BY <1>1, <3>1 DEF Catalog
  <2> QED
    BY <2>1, <2>2
       DEF Next, Requests, Call, vars, history, StartPreview, Take, StartList, RecordPreview,
           RecordAttempt, CheckAge, Compare, Sbatch, RecordOutcome, AnswerList, PreviewAges,
           Scanning, Restart, World
<1> QED
  BY <1>3, <1>4 DEF Growing

LEMMA NotingKept == SubmissionInv /\ [Next]_vars => Noting'
<1> SUFFICES ASSUME SubmissionInv, [Next]_vars, NEW c \in Callers,
                    scan'[c].step \notin {"idle", "done"}
             PROVE  Moment' \in seen'[c]
  BY DEF Noting
<1>1. /\ scan \in [Callers -> Scan] /\ seen \in [Callers -> SUBSET Read]
      /\ scan[c].step \notin {"idle", "done"} => Moment \in seen[c]
  BY DEF SubmissionInv, Types, Noting
<1>2. CASE OfOthers(c)
  BY <1>1, <1>2 DEF OfOthers, Moment
<1>3. CASE OfWorld
  <2>1. seen' = Noted /\ scan' = scan
    BY <1>3 DEF OfWorld, Edit, Commit
  <2> QED
    BY <2>1 DEF Noted
<1>4. CASE Begins(c)
  BY <1>1, <1>4 DEF Begins, Begin, BeginForced, BeginCached, Moment
<1>5. CASE Answers(c) \/ Restart
  BY <1>1, <1>5 DEF Answers, Answer, Restart, Idle
<1>6. CASE ScanStep(c)
  <2>1. UNCHANGED <<tree, head, seen>> /\ scan[c].step \notin {"idle", "done"}
    BY <1>6 DEF ScanStep, Walk, ReadHead, StoreCache, ReadGeneration
  <2> QED
    BY <1>1, <2>1 DEF Moment
<1> QED
  BY <1>2, <1>3, <1>4, <1>5, <1>6, WhoseStep

(* Both meet here.  A submission's scan that has the generation of its     *)
(* preview had it from the walk on: the tree was never behind it.          *)
LEMMA CheckedKept == SubmissionInv /\ [Next]_vars => Checked'
<1> SUFFICES ASSUME SubmissionInv, [Next]_vars, NEW s \in Submitters,
                    stage'[s] = "scan", scan'[s].bytes # NoScript
             PROVE  /\ scan'[s].step # "walk"
                    /\ scan'[s].step = "head" /\ tree'.gen = Generation(s)'
                          => scan'[s].bytes = tree'.bytes
                    /\ scan'[s].step \in {"store", "generation"} /\ tree'.gen = Generation(s)'
                          => AsOffered(s)' \in seen'[s]
                    /\ scan'[s].step = "done" /\ scan'[s].gen = Generation(s)' /\ scan'[s].gen # 0
                          => Catalog(s)' \in seen'[s]
  BY DEF Checked
<1> USE Members
<1>1. /\ scan \in [Callers -> Scan] /\ seen \in [Callers -> SUBSET Read]
      /\ offered \in [Tokens -> Read] /\ stage \in [Callers -> Stages]
      /\ scan[s].step = "idle" => scan[s].bytes = NoScript
      /\ stage[s] = "scan" => scan[s].step # "idle"
  BY DEF SubmissionInv, Types, SettledScan
<1>2. stage[s] = "scan"
  <2>1. ASSUME CheckAge(s), stage'[s] = "scan" PROVE scan'[s].bytes = NoScript
    BY <1>1, <2>1 DEF CheckAge, CatalogFresh, BeginForced, Begin, GoTo, Scan, Stages
  <2> QED
    BY <2>1, SubmitterMoves
<1>3. /\ Generation(s)' = Generation(s) /\ Generation(s) \in Nat
      /\ Generation(s) <= tree.gen
      /\ tree.gen \in Nat /\ (tree' = tree \/ tree'.gen = tree.gen + 1)
  <2>1. token'[s] = token[s] /\ token[s] \in Tokens /\ offered'[token[s]] = offered[token[s]]
    BY <1>2, HolderStays DEF Serving, Over
  <2> QED
    BY <1>1, <2>1, TreeGrows DEF Generation, SubmissionInv, Growing, Read
<1>4. scan[s].bytes # NoScript =>
        /\ scan[s].step # "walk"
        /\ scan[s].step = "head" /\ tree.gen = Generation(s) => scan[s].bytes = tree.bytes
        /\ scan[s].step \in {"store", "generation"} /\ tree.gen = Generation(s)
              => AsOffered(s) \in seen[s]
        /\ scan[s].step = "done" /\ scan[s].gen = Generation(s) /\ scan[s].gen # 0
              => Catalog(s) \in seen[s]
  BY <1>2 DEF SubmissionInv, Checked
<1>5. /\ AsOffered(s) = [bytes |-> scan[s].bytes, head |-> scan[s].head, gen |-> Generation(s)]
      /\ AsOffered(s)' = [bytes |-> scan'[s].bytes, head |-> scan'[s].head, gen |-> Generation(s)]
      /\ Catalog(s) = [bytes |-> scan[s].bytes, head |-> scan[s].head, gen |-> scan[s].gen]
      /\ Catalog(s)' = [bytes |-> scan'[s].bytes, head |-> scan'[s].head, gen |-> scan'[s].gen]
  BY <1>3 DEF AsOffered, Catalog
<1>6. CASE OfOthers(s)
  BY <1>3, <1>4, <1>5, <1>6 DEF OfOthers
<1>7. CASE OfWorld
  <2>1. scan' = scan /\ seen[s] \subseteq seen'[s] /\ (tree' = tree \/ tree'.gen = tree.gen + 1)
    BY <1>1, <1>3, <1>7 DEF OfWorld, Edit, Commit, Noted
  <2> QED
    BY <1>3, <1>4, <1>5, <2>1
<1>8. CASE Begins(s)
  BY <1>1, <1>2, <1>8 DEF Begins, Begin, BeginForced, BeginCached
<1>9. CASE Answers(s) \/ Restart
  BY <1>1, <1>9 DEF Answers, Answer, GoTo, Restart, Over
<1>10. CASE ScanStep(s)
  <2>1. UNCHANGED <<tree, head, seen>> /\ Moment \in seen[s]
    BY <1>10 DEF ScanStep, Walk, ReadHead, StoreCache, ReadGeneration, SubmissionInv, Noting
  <2>2. CASE Walk(s)
    BY <1>1, <2>1, <2>2, <1>4, <1>3, SMTT(30) DEF Walk, Scan, SubmissionInv, SettledScan
  <2>3. CASE ReadHead(s)
    <3>1. /\ scan[s].step = "head" /\ scan'[s].step = "store" /\ scan'[s].head = head
          /\ scan'[s].bytes = scan[s].bytes
      BY <1>1, <2>3 DEF ReadHead, Scan
    <3> QED
      BY <1>3, <1>4, <1>5, <2>1, <3>1 DEF Moment
  <2>4. CASE StoreCache(s)
    <3>1. /\ scan[s].step = "store" /\ scan'[s].step = "generation"
          /\ scan'[s].bytes = scan[s].bytes /\ scan'[s].head = scan[s].head
      BY <1>1, <2>4 DEF StoreCache, Scan
    <3> QED
      BY <1>3, <1>4, <1>5, <2>1, <3>1
  <2>5. CASE ReadGeneration(s)
    <3>1. /\ scan[s].step = "generation" /\ scan'[s].step = "done"
          /\ scan'[s].bytes = scan[s].bytes /\ scan'[s].head = scan[s].head
          /\ scan'[s].gen \in {tree.gen, 0}
      BY <1>1, <2>5 DEF ReadGeneration, Scan
    <3> QED
      BY <1>3, <1>4, <1>5, <2>1, <3>1
  <2> QED
    BY <1>10, <2>2, <2>3, <2>4, <2>5 DEF ScanStep
<1> QED
  BY <1>6, <1>7, <1>8, <1>9, <1>10, WhoseStep

LEMMA ProvenanceKept == SubmissionInv /\ [Next]_vars => ProvenanceIsTrue'
<1> SUFFICES ASSUME SubmissionInv, [Next]_vars, NEW s \in Submitters,
                    stage'[s] \in {"sbatch", "submitted"}, scan'[s].gen # 0
             PROVE  Catalog(s)' \in seen'[s]
  BY DEF ProvenanceIsTrue
<1> USE Members
<1>1. scan \in [Callers -> Scan] /\ seen \in [Callers -> SUBSET Read]
      /\ stage \in [Callers -> Stages]
  BY DEF SubmissionInv, Types
<1>2. CASE Compare(s)
  <2>1. UNCHANGED bankVars /\ stage[s] = "scan"
    BY <1>2 DEF Compare
  <2>2. scan[s].step = "done" /\ Offerable(s) /\ scan[s].gen = Generation(s)
    BY <1>1, <1>2 DEF Compare, GoTo, SamePreview, Catalog, Generation
  <2>3. Catalog(s) \in seen[s]
    BY <2>1, <2>2 DEF Offerable, SubmissionInv, Checked, bankVars
  <2> QED
    BY <2>1, <2>3 DEF Catalog, bankVars
<1>3. CASE stage[s] \in {"sbatch", "submitted"}
  <2>1. scan[s].step = "done" /\ (scan[s].gen # 0 => Catalog(s) \in seen[s])
    BY <1>3 DEF SubmissionInv, Runs, SettledScan, ProvenanceIsTrue
  <2>2. CASE OfOthers(s)
    BY <2>1, <2>2 DEF OfOthers, Catalog
  <2>3. CASE OfWorld
    BY <1>1, <2>1, <2>3 DEF OfWorld, Edit, Commit, Noted, Catalog
  <2>4. CASE Begins(s) \/ ScanStep(s)
    BY <2>1, <2>4 DEF Begins, Begin, BeginForced, BeginCached, ScanStep, Walk, ReadHead,
                      StoreCache, ReadGeneration
  <2>5. CASE Answers(s) \/ Restart
    BY <1>1, <2>5 DEF Answers, Answer, GoTo, Restart, Over
  <2> QED
    BY <2>2, <2>3, <2>4, <2>5, WhoseStep
<1> QED
  BY <1>2, <1>3, SubmitterMoves

LEMMA SubmissionKept == SubmissionInv /\ [Next]_vars => SubmissionInv'
  BY BankKept, TokensKept, SettledKept, GrowingKept, NotingKept, CheckedKept, ProvenanceKept
     DEF SubmissionInv, BankTypes, TokenInv, ServerTypes, Types

LEMMA SubmissionAlways == Spec => []SubmissionInv
  BY Start, SubmissionKept, PTL DEF Spec

(* Script, commit and generation of what is submitted were one moment of   *)
(* the bank, however many edits and commits fall between the reads         *)
(* (submission.rs:111-117).                                                *)
THEOREM ProvenanceHolds == Spec => []ProvenanceIsTrue
<1>1. SubmissionInv => ProvenanceIsTrue
  BY DEF SubmissionInv
<1> QED
  BY <1>1, SubmissionAlways, PTL

-----------------------------------------------------------------------------
(* The promise.  What it sees of a state is the status and the offer of    *)
(* every token and what ran for it.                                        *)
Status == [t \in Tokens |-> TokenStatus(t)]
Offer == [t \in Tokens |-> offered[t].bytes]

Live == DOMAIN previews \ aged
NothingShows == UNCHANGED <<Live, fate, offered, ran>>
PromiseKept == Promise!Next \/ UNCHANGED Promise!vars

LEMMA Unseen == NothingShows => PromiseKept
  BY DEF NothingShows, Live, PromiseKept, Promise!vars, TokenStatus

LEMMA InsertMakes ==
    ASSUME SubmissionInv, NEW p \in Previewers, Insert(p)
    PROVE  PromiseKept
<1> USE Members
<1>1. TokenInv /\ fate[p] = "unseen" /\ p \in Tokens /\ p \notin aged
  BY DEF SubmissionInv, Types, TokenInv, ServerTypes, Fates, Insert
<1>2. aged' = aged /\ ran' = ran /\ DOMAIN Unexpired = Live
  BY DEF Insert, Unexpired, Live
<1>3. CASE UNCHANGED <<offered, fate>> /\ previews' \in {previews, Unexpired}
  BY <1>2, <1>3, Unseen DEF NothingShows, Live
<1>4. CASE /\ DOMAIN previews' = DOMAIN Unexpired \cup {p}
           /\ offered' = [offered EXCEPT ![p] = Catalog(p)]
           /\ fate' = [fate EXCEPT ![p] = "held"]
           /\ Offerable(p)
  <2>1. Catalog(p).bytes \in Contents
    BY <1>4 DEF Catalog, Offerable, SubmissionInv, Types, Scan, Bytes
  <2>2. TokenStatus(p) = "unseen" /\ TokenStatus(p)' = "offered"
    BY <1>1, <1>2, <1>4 DEF TokenStatus, TokenInv, ServerTypes
  <2>3. \A t \in Tokens : t # p => TokenStatus(t)' = TokenStatus(t)
    BY <1>2, <1>4 DEF TokenStatus, TokenInv, ServerTypes, Live
  <2>4. Status' = [Status EXCEPT ![p] = "offered"] /\ Status[p] = "unseen"
    BY <1>1, <2>2, <2>3 DEF Status
  <2>5. Offer' = [Offer EXCEPT ![p] = Catalog(p).bytes]
    BY <1>1, <1>4 DEF Offer, TokenInv, ServerTypes
  <2>6. Promise!Make(p)
    BY <1>2, <2>1, <2>4, <2>5 DEF Promise!Make, Status, Offer
  <2> QED
    BY <1>1, <2>6 DEF PromiseKept, Promise!Next
<1> QED
  BY <1>3, <1>4 DEF Insert

LEMMA AgeLapses ==
    ASSUME SubmissionInv, NEW t \in Tokens, PreviewAges(t)
    PROVE  PromiseKept
<1>1. TokenInv /\ fate[t] = "held" /\ aged' = aged \cup {t} /\ t \in Live
      /\ UNCHANGED <<previews, fate, offered, ran>>
  BY DEF SubmissionInv, Types, TokenInv, ServerTypes, Fates, PreviewAges, history, Live
<1>2. TokenStatus(t) = "offered" /\ TokenStatus(t)' = "lapsed"
  BY <1>1 DEF TokenStatus, Live
<1>3. \A u \in Tokens : u # t => TokenStatus(u)' = TokenStatus(u)
  BY <1>1 DEF TokenStatus
<1>4. Status' = [Status EXCEPT ![t] = "lapsed"] /\ Status[t] = "offered"
  BY <1>2, <1>3 DEF Status
<1>5. Promise!Lapse(t)
  BY <1>1, <1>4 DEF Promise!Lapse, Status
<1> QED
  BY <1>5 DEF PromiseKept, Promise!Next

LEMMA TakeSpends ==
    ASSUME SubmissionInv, NEW s \in Submitters, NEW t \in Tokens, Take(s, t)
    PROVE  PromiseKept
<1>1. TokenInv /\ UNCHANGED <<aged, offered, ran>>
  BY DEF SubmissionInv, Types, TokenInv, ServerTypes, Take
<1>2. CASE t \notin DOMAIN previews
  BY <1>1, <1>2, Unseen DEF Take, NothingShows, Live
<1>3. CASE t \in DOMAIN previews
  <2>1. /\ fate[t] = "held" /\ DOMAIN previews' = DOMAIN previews \ {t}
        /\ fate' = [fate EXCEPT ![t] = IF t \in aged THEN "late" ELSE "taken"]
    BY <1>1, <1>3 DEF Take, Without, TokenInv, Fates
  <2>2. \A u \in Tokens : u # t => TokenStatus(u)' = TokenStatus(u)
    BY <1>1, <2>1 DEF TokenStatus, TokenInv, ServerTypes
  <2>3. CASE t \in aged
    <3>1. TokenStatus(t) = "lapsed" /\ TokenStatus(t)' = "lapsed"
      BY <1>1, <2>1, <2>3 DEF TokenStatus, TokenInv, ServerTypes
    <3>2. Status' = Status
      BY <2>2, <3>1 DEF Status
    <3> QED
      BY <1>1, <3>2 DEF PromiseKept, Promise!vars, Status
  <2>4. CASE t \notin aged
    <3>1. TokenStatus(t) = "offered" /\ TokenStatus(t)' = "spent"
      BY <1>1, <1>3, <2>1, <2>4 DEF TokenStatus, TokenInv, ServerTypes
    <3>2. Status' = [Status EXCEPT ![t] = "spent"] /\ Status[t] = "offered"
      BY <2>2, <3>1 DEF Status
    <3>3. Promise!Spend(t)
      BY <1>1, <3>2 DEF Promise!Spend, Status
    <3> QED
      BY <3>3 DEF PromiseKept, Promise!Next
  <2> QED
    BY <2>3, <2>4
<1> QED
  BY <1>2, <1>3

LEMMA SbatchRuns ==
    ASSUME SubmissionInv, NEW s \in Submitters, Sbatch(s)
    PROVE  PromiseKept
<1> USE Members
<1>1. /\ token[s] \in Tokens /\ fate[token[s]] = "taken"
      /\ Len(ran[token[s]]) <= tries[s] /\ tries[s] < Attempts
      /\ scan[s].bytes = offered[token[s]].bytes
      /\ ran \in [Tokens -> Seq(Contents)] /\ tries[s] \in Nat
  BY DEF SubmissionInv, Types, Holders, Runs, Sbatch, Serving, Over
<1>2. UNCHANGED <<previews, aged, offered, fate>>
  BY DEF Sbatch
<1>3. CASE UNCHANGED ran
  BY <1>2, <1>3, Unseen DEF NothingShows, Live
<1>4. CASE ran' = [ran EXCEPT ![token[s]] = Append(@, scan[s].bytes)]
  <2>1. Status[token[s]] = "spent" /\ Offer[token[s]] = scan[s].bytes
    BY <1>1 DEF Status, Offer, TokenStatus
  <2>2. Len(ran[token[s]]) < Attempts
    BY <1>1, LenProperties
  <2>3. UNCHANGED <<Status, Offer>>
    BY <1>2 DEF Status, Offer, TokenStatus
  <2>4. Promise!Run(token[s])
    BY <1>4, <2>1, <2>2, <2>3 DEF Promise!Run, Status, Offer
  <2> QED
    BY <1>1, <2>4 DEF PromiseKept, Promise!Next
<1> QED
  BY <1>3, <1>4 DEF Sbatch

LEMMA RestartForgets ==
    ASSUME SubmissionInv, Restart
    PROVE  PromiseKept
<1>1. UNCHANGED <<aged, fate, offered, ran>> /\ DOMAIN previews' = {}
  BY DEF Restart, history
<1>2. \A t \in Tokens :
        TokenStatus(t)' = IF TokenStatus(t) = "offered" THEN "lapsed" ELSE TokenStatus(t)
  BY <1>1 DEF TokenStatus, SubmissionInv, Types
<1>3. Promise!Forget
  BY <1>1, <1>2 DEF Promise!Forget, Status
<1> QED
  BY <1>3 DEF PromiseKept, Promise!Next

LEMMA StepsKeepPromise == SubmissionInv /\ [Next]_vars => [Promise!Next]_(Promise!vars)
<1> SUFFICES ASSUME SubmissionInv, [Next]_vars PROVE PromiseKept
  BY DEF PromiseKept
<1> USE Members
<1>1. ASSUME NEW c \in Callers, Call(c) PROVE PromiseKept
  <2>1. ASSUME UNCHANGED <<previews, aged, history>> PROVE PromiseKept
    BY <2>1, Unseen DEF NothingShows, Live, history
  <2> QED
    BY <1>1, <2>1, InsertMakes, SbatchRuns
       DEF Call, serverVars, RecordPreview, RecordAttempt, CheckAge, Compare, RecordOutcome,
           AnswerList, Scanning
<1>2. CASE Requests
  BY <1>2, TakeSpends, Unseen DEF Requests, StartPreview, StartList, NothingShows, Live, history
<1>3. CASE World \/ (CacheAges /\ UNCHANGED <<serverVars, history, restarts>>) \/ UNCHANGED vars
  BY <1>3, Unseen DEF World, vars, serverVars, history, NothingShows, Live
<1> QED
  BY <1>1, <1>2, <1>3, AgeLapses, RestartForgets DEF Next

LEMMA PromiseStarts == Init => Promise!Init
<1> SUFFICES ASSUME Init PROVE Promise!Init
  OBVIOUS
<1>1. \A t \in Tokens : TokenStatus(t) = "unseen" /\ offered[t].bytes \in Contents
  BY DEF Init, BankInit, TokenStatus, Moment
<1> QED
  BY <1>1 DEF Init, Promise!Init

(* Whatever edits, ages, restarts and failures come between, a token is    *)
(* spent at most once and not after it lapsed, and only what it offered    *)
(* runs for it, Attempts times at most (submission.rs:83-120).             *)
THEOREM TokensAreOneUse == Spec => ImplementsOneUse
<1>1. Init => Promise!Init
  BY PromiseStarts
<1>2. SubmissionInv /\ [Next]_vars => [Promise!Next]_(Promise!vars)
  BY StepsKeepPromise
<1> QED
  BY <1>1, <1>2, SubmissionAlways, PTL DEF Spec, ImplementsOneUse, Promise!Spec
=============================================================================
