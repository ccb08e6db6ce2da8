------------------------------- MODULE JobLog -------------------------------
(***************************************************************************)
(* Reading the log of one job: slurm_read_log with its cursor              *)
(* (mcp/logs.rs), the daemon's log cache (daemon/log.rs) and the read of   *)
(* the file itself (log_service.rs).                                       *)
(*                                                                         *)
(* The bytes of a file are not modelled, only which content they belong    *)
(* to (inc, a new one for every file and every truncation) and where.  An  *)
(* effective generation is a pair of an inode and an epoch: the digests of *)
(* generation() and effective_generation() only tell such pairs apart.     *)
(* That the job is the user's and has the cached name is checked by every  *)
(* step that answers; a check that fails is one of the Mishaps.            *)
(***************************************************************************)
EXTENDS Integers

CONSTANTS
    Readers,        \* MCP clients that follow the log by cursor
    Samplers,       \* subscriptions and wait_job, which ask for metadata only
    Remote,         \* whether the cluster is reached by ssh
    Window,         \* MAX_LOG_WINDOW
    Payload,        \* MAX_LOG_PAYLOAD
    MaxSize,        \* bound: bytes in a file
    MaxFiles,       \* bound: files at the log's path, one after the other
    MaxMishaps      \* bound: files replaced or cut, requests refused, entries evicted

ASSUME JobLogAssumption ==
    /\ Readers \cap Samplers = {}
    /\ Remote \in BOOLEAN
    /\ Payload \in Nat \ {0} /\ Window \in Nat \ {0} /\ Payload <= Window
    /\ MaxSize \in Nat /\ MaxFiles \in Nat \ {0}
    /\ MaxMishaps \in Nat

VARIABLES
    files,      \* [inodes -> [inc, size]]
    current,    \* inode at the log's path, 0 before the job writes
    cuts,       \* truncations so far
    cache,      \* LogEntry of the job: a set of at most one
    request,    \* [Readers and Samplers -> the daemon request in hand]
    cursor,     \* [Readers -> next_cursor of the last reply]
    text,       \* [Readers -> what the client was shown since the last reset]
    panicked,   \* a request thread of the daemon has panicked
    mishaps

fileVars == <<files, current, cuts>>
clientVars == <<cursor, text>>
logVars == <<fileVars, cache, request, clientVars, panicked, mishaps>>

-----------------------------------------------------------------------------
Actors == Readers \cup Samplers
Inodes == 1..MaxFiles
Incs == 1..(MaxFiles + MaxMishaps)

Saturating(a, b) == IF a > b THEN a - b ELSE 0
Least(a, b) == IF a < b THEN a ELSE b

(* LogData: inc and at say which bytes it holds, offset what it claims. *)
LogData == [inode: 0..MaxFiles, epoch: Nat, size: 0..MaxSize,
            offset: 0..MaxSize, inc: 0..(MaxFiles + MaxMishaps), at: 0..MaxSize, len: 0..MaxSize]

(* status is not "available" *)
Unavailable == [inode |-> 0, epoch |-> 0, size |-> 0, offset |-> 0, inc |-> 0, at |-> 0, len |-> 0]

NoCursor == [inode |-> 0, epoch |-> 0, off |-> 0]
NoText == [inc |-> 0, end |-> 0, whole |-> TRUE]
NoRequest == [op |-> "none", stage |-> "idle", direct |-> FALSE, inode |-> 0, size |-> 0]

LogInit ==
    /\ files = [i \in Inodes |-> [inc |-> i, size |-> 0]]
    /\ current = 0
    /\ cuts = 0
    /\ cache = {}
    /\ request = [a \in Actors |-> NoRequest]
    /\ cursor = [r \in Readers |-> NoCursor]
    /\ text = [r \in Readers |-> NoText]
    /\ panicked = FALSE
    /\ mishaps = 0

Mishap == mishaps < MaxMishaps /\ mishaps' = mishaps + 1

-----------------------------------------------------------------------------
(* The job and its surroundings. *)
JobWrites ==
    /\ current # 0
    /\ files[current].size < MaxSize
    /\ files' = [files EXCEPT ![current].size = @ + 1]
    /\ UNCHANGED <<current, cuts, cache, request, clientVars, panicked, mishaps>>

(* The first file, or another one in its place. *)
Rotate ==
    /\ current < MaxFiles
    /\ current' = current + 1
    /\ IF current = 0 THEN UNCHANGED mishaps ELSE Mishap
    /\ UNCHANGED <<files, cuts, cache, request, clientVars, panicked>>

Truncate ==
    /\ current # 0
    /\ Mishap
    /\ cuts' = cuts + 1
    /\ files' = [files EXCEPT ![current] = [inc |-> MaxFiles + cuts + 1, size |-> 0]]
    /\ UNCHANGED <<current, cache, request, clientVars, panicked>>

-----------------------------------------------------------------------------
(* log_service.rs: what a read of the opened file brings, which had size   *)
(* bytes when it was opened.  Over ssh tail counts in the file as it is by *)
(* then, and the offset is worked out from the size before.                *)
ReadBounds(op, size, off) ==
    CASE op = "metadata" -> size
      [] op = "window" -> Saturating(size, Window)
      [] op = "range" -> Least(off, size)

Limit(op) == CASE op = "metadata" -> 0 [] op = "window" -> Window [] op = "range" -> Payload

Bytes(op, inode, size, off) ==
    LET now == files[inode]
        offset == ReadBounds(op, size, off)
        at == IF Remote /\ op = "window" THEN Saturating(now.size, Window)
              ELSE IF Remote /\ op = "range" THEN off
              ELSE offset
    IN  [inode |-> inode, epoch |-> 0, size |-> size, offset |-> offset,
         inc |-> now.inc, at |-> at, len |-> Least(Limit(op), Saturating(now.size, at))]

-----------------------------------------------------------------------------
(* cached_log: metadata of the entry, its whole window, or a part of it.   *)
AnyAge(e) == TRUE     \* mutant: the age of an entry is not looked at

Fresh(e) == e.fresh

MetadataOnly(d) == [d EXCEPT !.offset = d.size, !.at = d.size, !.len = 0]

RangeEnd(d, off) == Least(off + Payload, d.size)

Covers(d, op, off) ==
    CASE op = "metadata" -> TRUE
      [] op = "window" -> \/ d.inode = 0
                        \/ (d.offset + d.len = d.size /\ d.len >= Least(Window, d.size))
      [] op = "range" -> off >= d.offset /\ RangeEnd(d, off) <= d.offset + d.len

(* The part from off on; bytes[first..last] panics when off is beyond it. *)
Part(d, op, off) ==
    CASE op = "metadata" -> MetadataOnly(d)
      [] op = "window" -> d
      [] op = "range" -> [d EXCEPT !.offset = off, !.at = d.at + off - d.offset,
                                   !.len = RangeEnd(d, off) - off]

Panics(d, op, off) == op = "range" /\ off > RangeEnd(d, off)

(* store_log: a smaller file of the same generation was truncated. *)
EpochOf(d) ==
    IF \E e \in cache : e.data.inode = d.inode
    THEN LET e == CHOOSE x \in cache : TRUE
         IN  e.data.epoch + (IF d.inode # 0 /\ d.size < e.data.size THEN 1 ELSE 0)
    ELSE 0

Stored(d) == [d EXCEPT !.epoch = EpochOf(d)]

(* apply_cached_generation *)
WithGeneration(d) ==
    IF \E e \in cache : e.data.inode = d.inode
    THEN [d EXCEPT !.epoch = (CHOOSE e \in cache : TRUE).data.epoch]
    ELSE d

-----------------------------------------------------------------------------
(* read_log(): how the reply d to its request moves the call of a on.      *)
Moves(a, op, stage) == request' = [request EXCEPT ![a] = [NoRequest EXCEPT !.op = op, !.stage = stage]]

SizeConsumed(d) == d.size     \* mutant: next_cursor of a segment is the end of the file

Consumed(d) == d.offset + d.len

CursorAt(d, off) == IF d.inode = 0 THEN NoCursor
                    ELSE [inode |-> d.inode, epoch |-> d.epoch, off |-> off]

(* The text is whole as long as every segment continues it. *)
Continued(t, d) ==
    IF d.len = 0 THEN t
    ELSE IF d.inc = t.inc /\ d.at <= t.end
    THEN [t EXCEPT !.end = IF d.at + d.len > t.end THEN d.at + d.len ELSE t.end]
    ELSE [inc |-> d.inc, end |-> d.at + d.len, whole |-> FALSE]

Accepts(r, d) ==
    /\ d.inode # 0
    /\ d.inode = cursor[r].inode /\ d.epoch = cursor[r].epoch
    /\ cursor[r].off <= d.size

Answer(a, d) ==
    \/ /\ a \in Samplers
       /\ Moves(a, "none", "idle")
       /\ UNCHANGED clientVars
    \/ /\ a \in Readers /\ request[a].op = "metadata"
       /\ Moves(a, IF Accepts(a, d) THEN "range" ELSE "window", "lookup")
       /\ UNCHANGED clientVars
    \/ /\ a \in Readers /\ request[a].op = "window"
       /\ Moves(a, "none", "idle")
       /\ cursor' = [cursor EXCEPT ![a] = CursorAt(d, d.size)]
       /\ text' = [text EXCEPT ![a] = [inc |-> d.inc, end |-> d.at + d.len, whole |-> TRUE]]
    \/ /\ a \in Readers /\ request[a].op = "range"
       /\ Moves(a, "none", "idle")
       /\ cursor' = [cursor EXCEPT ![a] = CursorAt(d, Consumed(d))]
       /\ text' = [text EXCEPT ![a] = Continued(text[a], d)]

(* The cursor's offset; a sampler has none. *)
Offset(a) == IF a \in Readers THEN cursor[a].off ELSE 0

(* The client asks again with the cursor of the last reply, if it had one. *)
Ask(a) ==
    /\ request[a].op = "none"
    /\ Moves(a, IF a \in Samplers \/ cursor[a] # NoCursor THEN "metadata" ELSE "window", "lookup")
    /\ UNCHANGED <<fileVars, cache, clientVars, panicked, mishaps>>

(* An error: not the user's job, no daemon and no file, a timeout. *)
Refused(a) ==
    /\ request[a].op # "none"
    /\ Mishap
    /\ Moves(a, "none", "idle")
    /\ UNCHANGED <<fileVars, cache, clientVars, panicked>>

(* resolve_log_request() up to the cached answer.  The client of a thread  *)
(* that panicked asks again and in the end reads by itself.                *)
Lookup(a) ==
    LET op == request[a].op
        hits == {e \in cache : Fresh(e) /\ Covers(e.data, op, Offset(a))}
    IN  /\ request[a].stage = "lookup"
        /\ \/ \E e \in hits :
                /\ ~Panics(e.data, op, Offset(a))
                /\ Answer(a, Part(e.data, op, Offset(a)))
                /\ UNCHANGED panicked
           \/ \E e \in hits :
                /\ Panics(e.data, op, Offset(a))
                /\ panicked' = TRUE
                /\ request' \in {request, [request EXCEPT ![a].stage = "open", ![a].direct = TRUE]}
                /\ UNCHANGED clientVars
           \/ /\ hits = {}
              /\ request' = [request EXCEPT ![a].stage = "open"]
              /\ UNCHANGED <<clientVars, panicked>>
        /\ UNCHANGED <<fileVars, cache, mishaps>>

(* log_request(): without a daemon the client reads by itself. *)
Bypass(a) ==
    /\ request[a].stage = "lookup"
    /\ Mishap
    /\ request' = [request EXCEPT ![a].stage = "open", ![a].direct = TRUE]
    /\ UNCHANGED <<fileVars, cache, clientVars, panicked>>

Deliver(a, d) ==
    IF request[a].direct
    THEN Answer(a, d) /\ UNCHANGED cache
    ELSE IF request[a].op = "range"
    THEN Answer(a, WithGeneration(d)) /\ UNCHANGED cache
    ELSE /\ cache' = {[fresh |-> TRUE, data |-> Stored(d)]}
         /\ Answer(a, IF request[a].op = "metadata" THEN MetadataOnly(Stored(d)) ELSE Stored(d))

(* resolve(): open the file and look at its size.                          *)
Open(a) ==
    /\ request[a].stage = "open" /\ current # 0
    /\ request' = [request EXCEPT ![a].stage = "read", ![a].inode = current,
                                  ![a].size = files[current].size]
    /\ UNCHANGED <<fileVars, cache, clientVars, panicked, mishaps>>

(* Nothing there yet, or no way to read it now: pending_log, no_stdout.    *)
Missing(a) ==
    /\ request[a].stage = "open"
    /\ IF current = 0 THEN UNCHANGED mishaps ELSE Mishap
    /\ Deliver(a, Unavailable)
    /\ UNCHANGED <<fileVars, panicked>>

Read(a) ==
    /\ request[a].stage = "read"
    /\ Deliver(a, Bytes(request[a].op, request[a].inode, request[a].size, Offset(a)))
    /\ UNCHANGED <<fileVars, panicked, mishaps>>

(* ACTIVE_LOG_TTL or TERMINAL_LOG_TTL is over. *)
Expire ==
    /\ \E e \in cache : e.fresh /\ cache' = {[e EXCEPT !.fresh = FALSE]}
    /\ UNCHANGED <<fileVars, request, clientVars, panicked, mishaps>>

(* Sixty-four other jobs were read, or the daemon was restarted. *)
Forget ==
    /\ cache # {} /\ cache' = {}
    /\ Mishap
    /\ UNCHANGED <<fileVars, request, clientVars, panicked>>

Step(a) == Lookup(a) \/ Open(a) \/ (current = 0 /\ Missing(a)) \/ Read(a)

LogNext ==
    \/ JobWrites \/ Rotate \/ Truncate \/ Expire \/ Forget
    \/ \E a \in Actors : Ask(a) \/ Refused(a) \/ Bypass(a) \/ Missing(a) \/ Step(a)

LogSpec == LogInit /\ [][LogNext]_logVars

(* Time passes and threads run; a client is one that keeps asking. *)
LogFairness ==
    /\ WF_logVars(Expire)
    /\ \A a \in Readers : WF_logVars(Ask(a) \/ Step(a))
    /\ \A a \in Samplers : WF_logVars(Step(a))

FairLogSpec == LogSpec /\ LogFairness

-----------------------------------------------------------------------------
LogTypeOK ==
    /\ files \in [Inodes -> [inc: Incs, size: 0..MaxSize]]
    /\ current \in 0..MaxFiles
    /\ cuts \in 0..MaxMishaps /\ mishaps \in 0..MaxMishaps /\ panicked \in BOOLEAN
    /\ \A e \in cache : e.fresh \in BOOLEAN /\ e.data \in LogData
    /\ \A e, f \in cache : e = f
    /\ request \in [Actors -> [op: {"none", "metadata", "window", "range"},
                               stage: {"idle", "lookup", "open", "read"}, direct: BOOLEAN,
                               inode: 0..MaxFiles, size: 0..MaxSize]]
    /\ \A r \in Readers :
          /\ cursor[r].inode \in 0..MaxFiles /\ cursor[r].off \in 0..MaxSize
          /\ text[r].inc \in 0..(MaxFiles + MaxMishaps) /\ text[r].end \in 0..MaxSize

(* Of a log that is only appended to, a client that follows its cursor is  *)
(* shown every byte: no segment begins beyond what it was shown before,    *)
(* whatever was cached, evicted, refused or read past the daemon.          *)
TextIsWhole == current <= 1 /\ cuts = 0 => \A r \in Readers : text[r].whole

(* Nor does a cursor ever point beyond what was shown of the content it    *)
(* was given out for, when files are replaced but not cut.                 *)
CursorNotAhead ==
    cuts = 0 => \A r \in Readers :
        cursor[r].inode # 0 /\ files[cursor[r].inode].inc = text[r].inc
            => cursor[r].off <= text[r].end

(* What a client is given, text and cursor alike, is true of the log that  *)
(* it was read from, although metadata and range are two requests          *)
(* (mcp/logs.rs:29).                                                       *)
RepliesAreWhole == TextIsWhole /\ CursorNotAhead

(* A client that keeps polling ends up with the cursor at the end of the   *)
(* log, however its requests met with expiring entries, rotations and      *)
(* truncations.                                                            *)
CaughtUp ==
    \A r \in Readers :
        <>[](current # 0 => cursor[r].inode = current /\ cursor[r].off = files[current].size)

(* log_service.rs bounds_are_bounded_and_range_starts_are_clamped: a range *)
(* that starts beyond the end is an empty one.                             *)
RangeStartsAreClamped == ~panicked
=============================================================================
