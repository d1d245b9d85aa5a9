------------------------------- MODULE Sandbox -------------------------------
(***************************************************************************)
(* The agent's Docker sandbox (sandbox/manager.go) and the tool calls that *)
(* run in it (skills/executor.go, tools/skill_exec.go, tools/bash.go).  A  *)
(* large secret of a skill is written to the staging directory, which the  *)
(* container mounts, under the name of its environment variable, and       *)
(* removed after the run.  The model may call several tools at once: their *)
(* executions share the container and the directory.                       *)
(***************************************************************************)
EXTENDS FiniteSets

CONSTANTS Execution,  \* tool calls that run at the same time
          Secret      \* environment variables that hold large secrets

NoOne == "no one"
HalfWritten == "half"
ASSUME SandboxAssumption == {NoOne, HalfWritten} \cap Execution = {}

VARIABLES life,     \* of the agent process, as far as its sandbox goes
          box,      \* the container: "none", "up", or "stray" when nobody knows its ID
          named,    \* m.containerID is set
          dir,      \* the staging directory exists
          staged,   \* whose value each file of the directory holds
          exec,     \* the executions
          mishap    \* what has failed so far

sandboxVars == <<life, box, named, dir, staged, exec, mishap>>

AtRest == [at |-> "rest", wants |-> {}, wrote |-> {}, crossed |-> {}]
NoFiles == [k \in Secret |-> NoOne]

\* NewManager, in runAgent
SandboxInit ==
    /\ life = "new" /\ box = "none" /\ named = FALSE /\ dir = FALSE
    /\ staged = NoFiles /\ exec = [e \in Execution |-> AtRest] /\ mishap = {}

\* Create: the staging directory, then docker run.  When that fails the agent
\* does not start; a container may have been created all the same.
MkdirFails ==
    /\ life = "new" /\ life' = "over"
    /\ UNCHANGED <<box, named, dir, staged, exec, mishap>>
DockerRuns ==
    /\ life = "new" /\ dir' = TRUE
    /\ \/ life' = "starting" /\ box' = "up" /\ named' = TRUE /\ UNCHANGED mishap
       \/ life' = "over" /\ box' \in {"none", "stray"} /\ mishap' = mishap \cup {"run"} /\ UNCHANGED named
    /\ UNCHANGED <<staged, exec>>

\* cleanupLocked forgets the container and the directory whether or not they
\* could be removed.
CleanupLocked ==
    /\ named /\ named' = FALSE
    /\ \E failed \in SUBSET {"rm", "rmdir"} :
         /\ mishap' = mishap \cup failed
         /\ box' = IF "rm" \in failed THEN "stray" ELSE "none"
         /\ dir' = ("rmdir" \in failed)
         /\ staged' \in IF dir' THEN {staged, NoFiles} ELSE {NoFiles}
\* waitReady
Ready ==
    /\ life = "starting" /\ life' = "up"
    /\ UNCHANGED <<box, named, dir, staged, exec, mishap>>
NotReady ==
    /\ life = "starting" /\ life' = "over" /\ CleanupLocked
    /\ UNCHANGED exec
\* The deferred Cleanup of runAgent: Run has returned, and no turn is under way.
Cleanup ==
    /\ life = "up" /\ \A e \in Execution : exec[e].at = "rest"
    /\ life' = "over" /\ CleanupLocked
    /\ UNCHANGED exec

\* ExecBash: a command that is not a skill's runs at once.
ExecBash(e) ==
    /\ life = "up" /\ exec[e].at = "rest"
    /\ exec' = [exec EXCEPT ![e].at = "runs"]
    /\ UNCHANGED <<life, box, named, dir, staged, mishap>>
\* Execute, from skill_exec or from a bash command under /skills/: the secrets
\* that are resolved and large; small ones are passed in the environment.
Execute(e) ==
    /\ life = "up" /\ exec[e].at = "rest"
    /\ \E large \in SUBSET Secret : exec' = [exec EXCEPT ![e] = [AtRest EXCEPT !.at = "stages", !.wants = large]]
    /\ UNCHANGED <<life, box, named, dir, staged, mishap>>

\* Other executions that are using the file of k.
Sharing(e, k) == {f \in Execution \ {e} : k \in exec[f].wrote}
\* e goes on as mine, and those who share the file of k have been crossed.
Writes(e, k, mine) ==
    exec' = [f \in Execution |-> IF f = e THEN mine
                                 ELSE IF f \in Sharing(e, k) THEN [exec[f] EXCEPT !.crossed = @ \cup {k}]
                                 ELSE exec[f]]
Staged(e, k) ==
    [exec[e] EXCEPT !.wants = @ \ {k}, !.wrote = @ \cup {k},
                    !.crossed = @ \cup {j \in {k} : Sharing(e, k) # {}}]
NotStaged(e, k) == [exec[e] EXCEPT !.wants = @ \ {k}]
\* os.WriteFile, one secret after the other; one that fails may leave part of
\* the file, and the secret goes into the environment instead.
StageSecret(e, k) ==
    /\ exec[e].at = "stages" /\ k \in exec[e].wants
    /\ \/ /\ staged' = [staged EXCEPT ![k] = e]
          /\ Writes(e, k, Staged(e, k))
          /\ UNCHANGED mishap
       \/ /\ "write" \notin mishap /\ mishap' = mishap \cup {"write"}
          /\ staged' \in {staged, [staged EXCEPT ![k] = HalfWritten]}
          /\ Writes(e, k, NotStaged(e, k))
    /\ UNCHANGED <<life, box, named, dir>>
\* ExecWithEnv: docker exec, without the manager's mutex.
ExecWithEnv(e) ==
    /\ exec[e].at = "stages" /\ exec[e].wants = {}
    /\ exec' = [exec EXCEPT ![e].at = "runs"]
    /\ UNCHANGED <<life, box, named, dir, staged, mishap>>

\* Mutant: an error of docker exec returns at once.
ReturnOnError(e) ==
    /\ exec[e].at = "runs"
    /\ exec' \in {[exec EXCEPT ![e].at = "removes"], [exec EXCEPT ![e] = AtRest]}
    /\ UNCHANGED <<life, box, named, dir, staged, mishap>>
\* docker exec ends, cannot be started or exceeds its time: the files are
\* removed in each case.  On a timeout only the docker client is killed; what
\* its command does from then on in the container is not looked at.
RunEnds(e) ==
    /\ exec[e].at = "runs"
    /\ exec' = [exec EXCEPT ![e].at = "removes"]
    /\ UNCHANGED <<life, box, named, dir, staged, mishap>>
\* Mutant: the directory is emptied.
RemoveAll(e, k) ==
    /\ exec[e].at = "removes" /\ k \in exec[e].wrote
    /\ staged' = NoFiles
    /\ exec' = [exec EXCEPT ![e].wrote = @ \ {k}]
    /\ UNCHANGED <<life, box, named, dir, mishap>>
\* os.Remove; its error is ignored.
RemoveStaged(e, k) ==
    /\ exec[e].at = "removes" /\ k \in exec[e].wrote
    /\ exec' = [exec EXCEPT ![e].wrote = @ \ {k}]
    /\ \/ staged' = [staged EXCEPT ![k] = NoOne] /\ UNCHANGED mishap
       \/ mishap' = mishap \cup {"remove"} /\ UNCHANGED staged
    /\ UNCHANGED <<life, box, named, dir>>
ExecuteReturns(e) ==
    /\ exec[e].at = "removes" /\ exec[e].wrote = {}
    /\ exec' = [exec EXCEPT ![e] = AtRest]
    /\ UNCHANGED <<life, box, named, dir, staged, mishap>>

\* The agent is killed: nothing is cleaned up, then or at the next start,
\* whose container and directory have names of their own.
AgentKilled ==
    /\ life \in {"starting", "up"} /\ life' = "killed"
    /\ exec' = [e \in Execution |-> AtRest]
    /\ box' = "stray" /\ named' = FALSE
    /\ UNCHANGED <<dir, staged, mishap>>

SandboxNext ==
    \/ MkdirFails \/ DockerRuns \/ Ready \/ NotReady \/ Cleanup \/ AgentKilled
    \/ \E e \in Execution :
         \/ ExecBash(e) \/ Execute(e) \/ ExecWithEnv(e) \/ RunEnds(e) \/ ExecuteReturns(e)
         \/ \E k \in Secret : StageSecret(e, k) \/ RemoveStaged(e, k)

SandboxTypeOK ==
    /\ life \in {"new", "starting", "up", "over", "killed"} /\ box \in {"none", "up", "stray"}
    /\ staged \in [Secret -> Execution \cup {NoOne, HalfWritten}]
    /\ mishap \subseteq {"run", "rm", "rmdir", "write", "remove"}

\* When no tool is running no secret lies in the staging directory, whatever
\* became of the runs, unless the agent was killed, a write broke off or a file
\* could not be removed: such a file stays until Cleanup (Execute).  When the
\* agent has ended the directory is gone unless docker run or the removal had
\* failed, and the container is gone unless docker run or docker rm had failed
\* (Create, cleanupLocked).
NothingLeftBehind ==
    /\ /\ life # "killed" /\ mishap \cap {"write", "remove"} = {}
       /\ \A e \in Execution : exec[e].at = "rest"
       => staged = NoFiles
    /\ life = "over" =>
         /\ dir => mishap \cap {"run", "rmdir"} # {}
         /\ box # "none" => mishap \cap {"run", "rm"} # {}

\* A command that was given the path of a secret finds its own value there as
\* long as docker exec runs, unless another execution wrote the same name meanwhile
\* (Execute names the file after the environment variable alone).
SecretsReachTheSkill ==
    \A e \in Execution : exec[e].at = "runs" =>
        \A k \in exec[e].wrote \ exec[e].crossed : staged[k] = e
=============================================================================
