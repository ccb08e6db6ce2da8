---------------------------- MODULE CommandRunner ----------------------------
(***************************************************************************)
(* One call of command.rs: text, text_with_input or, over ssh, ssh_retry   *)
(* (command/mux.rs), which repeats a command that failed, the last time    *)
(* without the shared connection.                                          *)
(*                                                                         *)
(* The program that is run, its leader, may do anything a program may:     *)
(* write or not, leave its input unread, hang, exit with a descendant left *)
(* in its process group that keeps the output open (holding) or not        *)
(* (quiet).  What it asks the scheduler for may be carried out after it is *)
(* dead.  Output and input are counted in blocks.                          *)
(***************************************************************************)
EXTENDS Integers

CONSTANTS
    TryLimits,      \* how often a call runs its command: 1, or 3 over ssh
    InputSizes,     \* blocks given to stdin; 0 is a call without input
    OutputLimit,    \* MAX_COMMAND_OUTPUT_BYTES
    PipeSize,       \* blocks a pipe holds
    MaxOutput       \* bound: blocks written to one pipe

ASSUME CommandRunnerAssumption ==
    /\ TryLimits \subseteq Nat \ {0} /\ InputSizes \subseteq Nat
    /\ OutputLimit \in Nat /\ PipeSize \in Nat \ {0} /\ MaxOutput \in Nat

VARIABLES
    caller,     \* where the thread that makes the call is
    plan,       \* the tries and the input size of the call
    try,        \* runs of the command so far
    waited,     \* what wait_with_deadline returned
    output,     \* [Pipes -> blocks written, taken and whether the reader goes on]
    input,      \* blocks written to stdin and taken, and the writer's state
    leader,     \* the program: running, exited with a status, or none
    descendant, \* a process it left in its group
    request,    \* [tries -> what came of what that run asks the scheduler for]
    cancelled,  \* the flag of the request the call serves
    expired     \* COMMAND_TIMEOUT went by since the command was started

commandVars == <<caller, plan, try, waited, output, input, leader, descendant,
                 request, cancelled, expired>>
callVars == <<plan, try, waited>>
streams == <<output, input>>
processVars == <<leader, descendant, request>>
flags == <<cancelled, expired>>

-----------------------------------------------------------------------------
Pipes == {"stdout", "stderr"}
FreshPipe == [written |-> 0, taken |-> 0, reading |-> TRUE]

CommandInit ==
    /\ caller = "idle"
    /\ plan = [tries |-> 0, blocks |-> 0]
    /\ try = 0
    /\ waited = "nothing"
    /\ output = [p \in Pipes |-> FreshPipe]
    /\ input = [written |-> 0, taken |-> 0, writer |-> "done"]
    /\ leader = "none"
    /\ descendant = "none"
    /\ request = <<>>
    /\ cancelled = FALSE
    /\ expired = FALSE

CommandTypeOK ==
    /\ caller \in {"idle", "spawn", "try_wait", "check", "stdout", "stderr", "stdin", "judge",
                   "answered", "failed"}
    /\ caller # "idle" => plan \in [tries : TryLimits, blocks : InputSizes]
    /\ try \in 0..plan.tries
    /\ waited \in {"nothing", "success", "failure", "given up"}
    /\ \A p \in Pipes : /\ output[p].written \in 0..MaxOutput
                        /\ output[p].taken \in 0..output[p].written
    /\ input.written \in 0..plan.blocks /\ input.taken \in 0..input.written
    /\ input.writer \in {"writing", "done", "broken"}
    /\ leader \in {"none", "running", "success", "failure"}
    /\ descendant \in {"none", "holding", "quiet"}
    /\ request \in [1..plan.tries -> {"unsent", "sent", "done"}]
    /\ cancelled \in BOOLEAN /\ expired \in BOOLEAN

Holds == leader = "running" \/ descendant = "holding"   \* someone has the far ends open

-----------------------------------------------------------------------------
Ended == {"answered", "failed"}

Begin ==
    /\ caller = "idle"
    /\ caller' = "spawn"
    /\ plan' \in [tries : TryLimits, blocks : InputSizes]
    /\ request' = [n \in 1..plan'.tries |-> "unsent"]
    /\ UNCHANGED <<try, waited, streams, leader, descendant, flags>>

(* command, spawn, and the threads for the three pipes. *)
Spawn ==
    /\ caller = "spawn"
    /\ try' = try + 1
    /\ waited' = "nothing"
    /\ expired' = FALSE
    /\ \/ /\ caller' = "try_wait"
          /\ output' = [p \in Pipes |-> FreshPipe]
          /\ input' = [written |-> 0, taken |-> 0,
                       writer |-> IF plan.blocks = 0 THEN "done" ELSE "writing"]
          /\ leader' = "running"
       \/ /\ caller' = IF try' < plan.tries THEN "spawn" ELSE "failed"
          /\ UNCHANGED <<streams, leader>>
    /\ UNCHANGED <<plan, descendant, request, cancelled>>

(* terminate_process_group, and the wait that reaps the leader. *)
KillLeader == leader' = "none" /\ UNCHANGED descendant   \* mutant: its group is left alone
TerminateGroup == leader' = "none" /\ descendant' = "none"

WaitReturns(outcome) ==
    /\ waited' = outcome
    /\ caller' = "stdout"

(* One turn of wait_with_deadline: a leader that exited is reaped, and what *)
(* it left behind is killed.                                                *)
ReapOnly == leader' = "none" /\ UNCHANGED descendant     \* mutant: an exit needs no killing
Reap == TerminateGroup

TryWait ==
    /\ caller = "try_wait"
    /\ IF leader = "running"
       THEN caller' = "check" /\ UNCHANGED <<waited, leader, descendant>>
       ELSE Reap /\ WaitReturns(leader)
    /\ UNCHANGED <<plan, try, streams, request, flags>>

(* The leader may have exited since: it is given up all the same. *)
CheckDeadline ==
    /\ caller = "check"
    /\ IF cancelled \/ expired
       THEN TerminateGroup /\ WaitReturns("given up")
       ELSE caller' = "try_wait" /\ UNCHANGED <<waited, leader, descendant>>
    /\ UNCHANGED <<plan, try, streams, request, flags>>

(* read_bounded: keeps what fits under the limit, and reads on to the end. *)
EndsWhenDrained(p) == output[p].taken = output[p].written   \* mutant: an empty pipe is its end
AtEnd(p) == output[p].taken = output[p].written /\ ~Holds

Read(p) ==
    /\ caller \notin {"idle", "spawn"} \cup Ended
    /\ output[p].reading
    /\ \/ /\ output[p].taken < output[p].written
          /\ output' = [output EXCEPT ![p].taken = @ + 1]
       \/ /\ AtEnd(p)
          /\ output' = [output EXCEPT ![p].reading = FALSE]
    /\ UNCHANGED <<caller, callVars, input, processVars, flags>>

NoOverflow(p) == FALSE      \* mutant: what does not fit is dropped and not said
Overflow(p) == output[p].taken > OutputLimit
Stored(p) == IF output[p].taken < OutputLimit THEN output[p].taken ELSE OutputLimit

(* The thread that writes the input; no reader left is a broken pipe. *)
WriteInput ==
    /\ input.writer = "writing"
    /\ \/ /\ input.written = plan.blocks
          /\ input' = [input EXCEPT !.writer = "done"]
       \/ /\ Holds /\ input.written < plan.blocks /\ input.written - input.taken < PipeSize
          /\ input' = [input EXCEPT !.written = @ + 1]
       \/ /\ ~Holds /\ input.written < plan.blocks
          /\ input' = [input EXCEPT !.writer = "broken"]
    /\ UNCHANGED <<caller, callVars, output, processVars, flags>>

Join ==
    /\ \/ caller = "stdout" /\ ~output["stdout"].reading /\ caller' = "stderr"
       \/ caller = "stderr" /\ ~output["stderr"].reading /\ caller' = "stdin"
       \/ caller = "stdin" /\ input.writer # "writing" /\ caller' = "judge"
    /\ UNCHANGED <<callVars, streams, processVars, flags>>

Succeeded ==
    /\ input.writer = "done"
    /\ waited = "success"
    /\ \A p \in Pipes : ~Overflow(p)

Judge ==
    /\ caller = "judge"
    /\ caller' = IF Succeeded THEN "answered"
                 ELSE IF try < plan.tries THEN "spawn" ELSE "failed"
    /\ UNCHANGED <<callVars, streams, processVars, flags>>

-----------------------------------------------------------------------------
(* The program, its descendant, the scheduler, the clock and the client.   *)
Write(p) ==
    /\ Holds
    /\ output[p].written < MaxOutput /\ output[p].written - output[p].taken < PipeSize
    /\ output' = [output EXCEPT ![p].written = @ + 1]
    /\ UNCHANGED <<caller, callVars, input, processVars, flags>>

ReadInput ==
    /\ Holds /\ input.taken < input.written
    /\ input' = [input EXCEPT !.taken = @ + 1]
    /\ UNCHANGED <<caller, callVars, output, processVars, flags>>

Ask ==
    /\ leader = "running" /\ request[try] = "unsent"
    /\ request' = [request EXCEPT ![try] = "sent"]
    /\ UNCHANGED <<caller, callVars, streams, leader, descendant, flags>>

(* sbatch, scancel and ssh exit with 0 only for what was carried out. *)
Exit ==
    /\ leader = "running"
    /\ \/ request[try] = "done" /\ leader' = "success"
       \/ leader' = "failure"
    /\ UNCHANGED <<caller, callVars, streams, descendant, request, flags>>

Fork ==
    /\ leader = "running" /\ descendant = "none"
    /\ descendant' \in {"holding", "quiet"}
    /\ UNCHANGED <<caller, callVars, streams, leader, request, flags>>

DescendantExits ==
    /\ descendant # "none"
    /\ descendant' = "none"
    /\ UNCHANGED <<caller, callVars, streams, leader, request, flags>>

CarriedOut(n) ==
    /\ request[n] = "sent"
    /\ request' = [request EXCEPT ![n] = "done"]
    /\ UNCHANGED <<caller, callVars, streams, leader, descendant, flags>>

Cancel ==
    /\ ~cancelled /\ caller \notin {"idle"} \cup Ended
    /\ cancelled' = TRUE
    /\ UNCHANGED <<caller, callVars, streams, processVars, expired>>

Expire ==
    /\ caller \in {"try_wait", "check"} /\ ~expired
    /\ expired' = TRUE
    /\ UNCHANGED <<caller, callVars, streams, processVars, cancelled>>

-----------------------------------------------------------------------------
CallerStep == Spawn \/ TryWait \/ CheckDeadline \/ Join \/ Judge

ProgramStep ==
    \/ \E p \in Pipes : Write(p)
    \/ ReadInput \/ Ask \/ Exit \/ Fork \/ DescendantExits
    \/ \E n \in 1..plan.tries : CarriedOut(n)

CommandNext ==
    \/ Begin
    \/ CallerStep
    \/ \E p \in Pipes : Read(p)
    \/ WriteInput
    \/ ProgramStep
    \/ Cancel
    \/ Expire

(* The threads of this process run and time passes; of the program nothing *)
(* is expected.                                                            *)
CommandFairness ==
    /\ WF_commandVars(CallerStep)
    /\ \A p \in Pipes : WF_commandVars(Read(p))
    /\ WF_commandVars(WriteInput)
    /\ WF_commandVars(Expire)

CommandSpec == CommandInit /\ [][CommandNext]_commandVars /\ CommandFairness

-----------------------------------------------------------------------------
(* A call that is answered was carried out, and its answer is everything   *)
(* that the program wrote, whoever died when (command.rs:163, 244).        *)
AnswersAreWhole ==
    caller = "answered" =>
        /\ request[try] = "done"
        /\ \A p \in Pipes : Stored(p) = output[p].written

(* When a command is over no process of its group is left: not one that    *)
(* hung, nor one its shell put into the background (command.rs:70, 102).   *)
NothingSurvives ==
    caller \in {"spawn"} \cup Ended => leader = "none" /\ descendant = "none"

(* Every call returns, whatever the program does or does not do with its   *)
(* pipes, and even if it never exits (command.rs:95).                      *)
CallsReturn == caller = "spawn" ~> caller \in Ended
=============================================================================
