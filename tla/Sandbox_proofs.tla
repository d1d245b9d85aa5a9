---------------------------- MODULE Sandbox_proofs ----------------------------
(***************************************************************************)
(* Proofs about Sandbox, for any number of executions and of secrets.      *)
(***************************************************************************)
EXTENDS Sandbox, TLAPS

SandboxSpec == SandboxInit /\ [][SandboxNext]_sandboxVars

Run == [at : {"rest", "stages", "runs", "removes"}, wants : SUBSET Secret,
        wrote : SUBSET Secret, crossed : SUBSET Secret]

Types ==
    /\ SandboxTypeOK
    /\ exec \in [Execution -> Run]

\* Nothing runs without the container, and what does not run holds nothing.
RunsInBox ==
    \A e \in Execution :
        /\ life # "up" => exec[e].at = "rest"
        /\ exec[e].at = "rest" => exec[e] = AtRest
        /\ exec[e].wants \cap exec[e].wrote = {}

\* A file that two executions wrote is known to both as crossed, and one that
\* only its owner wrote holds the owner's value until the owner removes it.
Owned ==
    \A e \in Execution : \A k \in exec[e].wrote :
        /\ k \notin exec[e].crossed => staged[k] = e
        /\ \A f \in Execution \ {e} :
              k \in exec[f].wrote => k \in exec[e].crossed

\* Every file belongs to an execution that will remove it.
Accounted ==
    (life # "killed" /\ mishap \cap {"write", "remove"} = {}) =>
        \A k \in Secret : staged[k] # NoOne => \E e \in Execution : k \in exec[e].wrote

\* What is left of the directory and the container when the agent has ended.
Left ==
    /\ life = "new" => ~dir /\ box = "none"
    /\ life = "over" => /\ dir => mishap \cap {"run", "rmdir"} # {}
                        /\ box # "none" => mishap \cap {"run", "rm"} # {}

IInv == Types /\ RunsInBox /\ Owned /\ Accounted /\ Left

(***************************************************************************)
(* The steps that leave the files, the container and the mishaps alone and *)
(* change one execution within its call.                                   *)
(***************************************************************************)
Quiet(e) ==
    /\ UNCHANGED <<life, box, named, dir, staged, mishap>>
    /\ \E r \in Run :
          /\ exec' = [exec EXCEPT ![e] = r]
          /\ r.wrote = exec[e].wrote /\ exec[e].crossed \subseteq r.crossed
          /\ r.wants \cap r.wrote = {}
          /\ r.at = "rest" => r = AtRest
    /\ life = "up"

\* An execution that is not at rest runs while the agent is up.
LEMMA BusyIsUp ==
  ASSUME IInv, NEW e \in Execution, exec[e].at # "rest"
  PROVE  life = "up"
  BY DEF IInv, RunsInBox

LEMMA QuietSteps ==
  ASSUME IInv, NEW e \in Execution,
         ExecBash(e) \/ Execute(e) \/ ExecWithEnv(e) \/ RunEnds(e)
  PROVE  Quiet(e)
<1> USE DEF IInv, Types, SandboxTypeOK, RunsInBox
<1>0. exec[e] \in Run
  BY DEF Run
<1>1. CASE ExecBash(e)
  <2> DEFINE r == [exec[e] EXCEPT !.at = "runs"]
  <2>1. r \in Run /\ r.at = "runs" /\ r.wrote = exec[e].wrote /\ r.crossed = exec[e].crossed
        /\ r.wants = exec[e].wants
    BY <1>0 DEF Run
  <2>2. exec' = [exec EXCEPT ![e] = r]
    BY <1>1 DEF ExecBash
  <2>3. QED
    BY <1>1, <2>1, <2>2 DEF ExecBash, Quiet
<1>2. CASE Execute(e)
  <2>1. PICK large \in SUBSET Secret :
          exec' = [exec EXCEPT ![e] = [AtRest EXCEPT !.at = "stages", !.wants = large]]
    BY <1>2 DEF Execute
  <2> DEFINE r == [AtRest EXCEPT !.at = "stages", !.wants = large]
  <2>2. r \in Run /\ r.at = "stages" /\ r.wrote = {} /\ r.crossed = {}
    BY DEF Run, AtRest
  <2>3. exec[e].wrote = {} /\ exec[e].crossed = {}
    <3>1. exec[e] = AtRest
      BY <1>2 DEF Execute
    <3>2. QED
      BY <3>1 DEF AtRest
  <2>4. exec' = [exec EXCEPT ![e] = r]
    BY <2>1
  <2> HIDE DEF r
  <2>5. QED
    BY <1>2, <2>2, <2>3, <2>4 DEF Execute, Quiet
<1>3. CASE ExecWithEnv(e)
  <2> DEFINE r == [exec[e] EXCEPT !.at = "runs"]
  <2>1. r \in Run /\ r.at = "runs" /\ r.wrote = exec[e].wrote /\ r.crossed = exec[e].crossed
        /\ r.wants = exec[e].wants
    BY <1>0 DEF Run
  <2>2. exec' = [exec EXCEPT ![e] = r] /\ life = "up"
    BY <1>3, BusyIsUp DEF ExecWithEnv
  <2>3. QED
    BY <1>3, <2>1, <2>2 DEF ExecWithEnv, Quiet
<1>4. CASE RunEnds(e)
  <2> DEFINE r == [exec[e] EXCEPT !.at = "removes"]
  <2>1. r \in Run /\ r.at = "removes" /\ r.wrote = exec[e].wrote /\ r.crossed = exec[e].crossed
        /\ r.wants = exec[e].wants
    BY <1>0 DEF Run
  <2>2. exec' = [exec EXCEPT ![e] = r] /\ life = "up"
    BY <1>4, BusyIsUp DEF RunEnds
  <2>3. QED
    BY <1>4, <2>1, <2>2 DEF RunEnds, Quiet
<1>5. QED
  BY <1>1, <1>2, <1>3, <1>4

\* A quiet step keeps the invariant: nobody's files changed hands.
LEMMA QuietKeeps ==
  ASSUME IInv, NEW e \in Execution, Quiet(e)
  PROVE  IInv'
<1>1. PICK r \in Run :
        /\ exec' = [exec EXCEPT ![e] = r]
        /\ r.wrote = exec[e].wrote /\ exec[e].crossed \subseteq r.crossed
        /\ r.wants \cap r.wrote = {}
        /\ r.at = "rest" => r = AtRest
  BY DEF Quiet
<1>2. /\ UNCHANGED <<life, box, named, dir, staged, mishap>>
      /\ life = "up"
  BY DEF Quiet
<1>3. exec \in [Execution -> Run]
  BY DEF IInv, Types
<1>4. \A f \in Execution : /\ exec'[f] = IF f = e THEN r ELSE exec[f]
                           /\ exec'[f].wrote = exec[f].wrote
                           /\ exec[f].crossed \subseteq exec'[f].crossed
  BY <1>1, <1>3
<1>5. Types'
  BY <1>1, <1>2, <1>3 DEF IInv, Types, SandboxTypeOK
<1>6. RunsInBox'
  BY <1>1, <1>2, <1>4 DEF IInv, RunsInBox
<1>7. Owned'
  BY <1>2, <1>4 DEF IInv, Owned
<1>8. Accounted' /\ Left'
  BY <1>2, <1>4 DEF IInv, Accounted, Left
<1>9. QED
  BY <1>5, <1>6, <1>7, <1>8 DEF IInv

\* What writing a file does to the executions: e goes on as mine, and exactly
\* those who share the file are told.
LEMMA WritesTellsSharers ==
  ASSUME exec \in [Execution -> Run], NEW e \in Execution, NEW k \in Secret,
         NEW mine \in Run, Writes(e, k, mine)
  PROVE  /\ exec' \in [Execution -> Run] /\ exec'[e] = mine
         /\ \A f \in Execution \ {e} :
              /\ exec'[f].at = exec[f].at
              /\ exec'[f].wants = exec[f].wants /\ exec'[f].wrote = exec[f].wrote
              /\ exec'[f].crossed = exec[f].crossed \cup (exec[f].wrote \cap {k})
              /\ exec[f] = AtRest => exec'[f] = AtRest
<1>1. exec'[e] = mine
  BY DEF Writes
<1>2. ASSUME NEW f \in Execution \ {e}
      PROVE  /\ exec'[f] \in Run /\ exec'[f].at = exec[f].at
             /\ exec'[f].wants = exec[f].wants /\ exec'[f].wrote = exec[f].wrote
             /\ exec'[f].crossed = exec[f].crossed \cup (exec[f].wrote \cap {k})
             /\ exec[f] = AtRest => exec'[f] = AtRest
  <2>1. exec[f] \in Run /\ (f \in Sharing(e, k) <=> k \in exec[f].wrote)
    BY DEF Sharing
  <2>2. CASE k \in exec[f].wrote
    <3>1. exec'[f] = [exec[f] EXCEPT !.crossed = @ \cup {k}]
      BY <2>1, <2>2 DEF Writes
    <3>2. exec[f] # AtRest
      BY <2>2 DEF AtRest
    <3>3. QED
      BY <2>1, <2>2, <3>1, <3>2 DEF Run
  <2>3. CASE k \notin exec[f].wrote
    <3>1. exec'[f] = exec[f]
      BY <2>1, <2>3 DEF Writes
    <3>2. QED
      BY <2>1, <2>3, <3>1
  <2>4. QED
    BY <2>2, <2>3
<1>3. exec' \in [Execution -> Run]
  <2>1. \A f \in Execution : exec'[f] \in Run
    BY <1>1, <1>2
  <2>2. exec' = [f \in Execution |-> exec'[f]]
    BY DEF Writes
  <2>3. QED
    BY <2>1, <2>2
<1>4. QED
  BY <1>1, <1>2, <1>3

\* os.WriteFile of a secret.
LEMMA StageKeeps ==
  ASSUME IInv, NEW e \in Execution, NEW k \in Secret, StageSecret(e, k)
  PROVE  IInv'
<1>1. /\ exec \in [Execution -> Run] /\ staged \in [Secret -> Execution \cup {NoOne, HalfWritten}]
      /\ exec[e] \in Run /\ life = "up"
  BY BusyIsUp DEF IInv, Types, SandboxTypeOK, StageSecret
<1>2. UNCHANGED <<life, box, named, dir>> /\ exec[e].at = "stages" /\ k \in exec[e].wants
  BY DEF StageSecret
<1>3. k \notin exec[e].wrote
  BY <1>2 DEF IInv, RunsInBox
<1>4. CASE staged' = [staged EXCEPT ![k] = e] /\ Writes(e, k, Staged(e, k)) /\ UNCHANGED mishap
  <2> DEFINE mine == Staged(e, k)
  <2>1. /\ mine \in Run /\ mine.at = "stages"
        /\ mine.wants = exec[e].wants \ {k} /\ mine.wrote = exec[e].wrote \cup {k}
        /\ mine.crossed = exec[e].crossed \cup {j \in {k} : Sharing(e, k) # {}}
    BY <1>1, <1>2 DEF Staged, Run
  <2> HIDE DEF mine
  <2>2. /\ exec' \in [Execution -> Run] /\ exec'[e] = mine
        /\ \A f \in Execution \ {e} :
             /\ exec'[f].at = exec[f].at
             /\ exec'[f].wants = exec[f].wants /\ exec'[f].wrote = exec[f].wrote
             /\ exec'[f].crossed = exec[f].crossed \cup (exec[f].wrote \cap {k})
             /\ exec[f] = AtRest => exec'[f] = AtRest
    BY <1>1, <1>4, <2>1, WritesTellsSharers DEF mine
  <2>3. Sharing(e, k) = {} <=> \A f \in Execution \ {e} : k \notin exec[f].wrote
    BY DEF Sharing
  <2>4. staged'[k] = e /\ \A j \in Secret \ {k} : staged'[j] = staged[j]
    BY <1>1, <1>4
  <2>5. Types'
    BY <1>1, <1>2, <1>4, <2>2 DEF IInv, Types, SandboxTypeOK
  <2>6. RunsInBox'
    BY <1>1, <1>2, <2>1, <2>2 DEF IInv, RunsInBox
  <2>7. Owned'
    <3> SUFFICES ASSUME NEW f \in Execution, NEW j \in exec'[f].wrote
                 PROVE  /\ j \notin exec'[f].crossed => staged'[j] = f
                        /\ \A g \in Execution \ {f} : j \in exec'[g].wrote => j \in exec'[f].crossed
      BY DEF Owned
    <3>1. CASE j = k /\ f = e
      BY <2>1, <2>2, <2>3, <2>4, <3>1
    <3>2. CASE j = k /\ f # e
      BY <2>2, <3>2
    <3>3. CASE j # k
      <4>1. j \in exec[f].wrote /\ j \in Secret
        BY <1>1, <2>1, <2>2, <3>3 DEF Run
      <4>2. j \in exec'[f].crossed <=> j \in exec[f].crossed
        BY <2>1, <2>2, <3>3
      <4>3. \A g \in Execution : j \in exec'[g].wrote => j \in exec[g].wrote
        BY <2>1, <2>2, <3>3
      <4>4. QED
        BY <2>4, <3>3, <4>1, <4>2, <4>3 DEF IInv, Owned
    <3>4. QED
      BY <3>1, <3>2, <3>3
  <2>8. Accounted' /\ Left'
    <3>1. \A f \in Execution : exec[f].wrote \subseteq exec'[f].wrote
      BY <2>1, <2>2
    <3>2. k \in exec'[e].wrote
      BY <2>1, <2>2
    <3>3. QED
      BY <1>2, <1>4, <2>4, <3>1, <3>2 DEF IInv, Accounted, Left
  <2>9. QED
    BY <2>5, <2>6, <2>7, <2>8 DEF IInv
<1>5. CASE /\ mishap' = mishap \cup {"write"}
           /\ staged' \in {staged, [staged EXCEPT ![k] = HalfWritten]}
           /\ Writes(e, k, NotStaged(e, k))
  <2> DEFINE mine == NotStaged(e, k)
  <2>1. /\ mine \in Run /\ mine.at = "stages"
        /\ mine.wants = exec[e].wants \ {k} /\ mine.wrote = exec[e].wrote
        /\ mine.crossed = exec[e].crossed
    BY <1>1, <1>2 DEF NotStaged, Run
  <2> HIDE DEF mine
  <2>2. /\ exec' \in [Execution -> Run] /\ exec'[e] = mine
        /\ \A f \in Execution \ {e} :
             /\ exec'[f].at = exec[f].at
             /\ exec'[f].wants = exec[f].wants /\ exec'[f].wrote = exec[f].wrote
             /\ exec'[f].crossed = exec[f].crossed \cup (exec[f].wrote \cap {k})
             /\ exec[f] = AtRest => exec'[f] = AtRest
    BY <1>1, <1>5, <2>1, WritesTellsSharers DEF mine
  <2>3. \A j \in Secret \ {k} : staged'[j] = staged[j]
    BY <1>1, <1>5
  <2>4. Types'
    <3>1. staged' \in [Secret -> Execution \cup {NoOne, HalfWritten}]
      BY <1>1, <1>5
    <3>2. QED
      BY <1>1, <1>2, <1>5, <2>2, <3>1 DEF IInv, Types, SandboxTypeOK
  <2>5. RunsInBox'
    BY <1>1, <1>2, <2>1, <2>2 DEF IInv, RunsInBox
  <2>6. Owned'
    <3> SUFFICES ASSUME NEW f \in Execution, NEW j \in exec'[f].wrote
                 PROVE  /\ j \notin exec'[f].crossed => staged'[j] = f
                        /\ \A g \in Execution \ {f} : j \in exec'[g].wrote => j \in exec'[f].crossed
      BY DEF Owned
    <3>1. j \in exec[f].wrote /\ j \in Secret /\ exec[f].crossed \subseteq exec'[f].crossed
      BY <1>1, <2>1, <2>2 DEF Run
    <3>2. \A g \in Execution : j \in exec'[g].wrote => j \in exec[g].wrote
      BY <2>1, <2>2
    <3>3. CASE j = k
      <4>1. f # e
        BY <1>3, <3>1, <3>3
      <4>2. QED
        BY <2>2, <3>1, <3>3, <4>1
    <3>4. CASE j # k
      BY <2>3, <3>1, <3>2, <3>4 DEF IInv, Owned
    <3>5. QED
      BY <3>3, <3>4
  <2>7. Accounted' /\ Left'
    BY <1>2, <1>5 DEF IInv, Accounted, Left
  <2>8. QED
    BY <2>4, <2>5, <2>6, <2>7 DEF IInv
<1>6. QED
  BY <1>4, <1>5 DEF StageSecret

\* os.Remove of a staged file, and the return of Execute.
LEMMA RemoveKeeps ==
  ASSUME IInv, NEW e \in Execution, NEW k \in Secret, RemoveStaged(e, k)
  PROVE  IInv'
<1>1. /\ exec \in [Execution -> Run] /\ staged \in [Secret -> Execution \cup {NoOne, HalfWritten}]
      /\ exec[e] \in Run /\ life = "up"
  BY BusyIsUp DEF IInv, Types, SandboxTypeOK, RemoveStaged
<1>2. /\ UNCHANGED <<life, box, named, dir>> /\ exec[e].at = "removes" /\ k \in exec[e].wrote
      /\ mishap' \in {mishap, mishap \cup {"remove"}}
  BY DEF RemoveStaged
<1>3. /\ staged'[k] = NoOne \/ "remove" \in mishap'
      /\ \A j \in Secret \ {k} : staged'[j] = staged[j]
  BY <1>1 DEF RemoveStaged
<1> DEFINE mine == [exec[e] EXCEPT !.wrote = @ \ {k}]
<1>4. /\ mine \in Run /\ mine.at = "removes" /\ mine.wants = exec[e].wants
      /\ mine.wrote = exec[e].wrote \ {k} /\ mine.crossed = exec[e].crossed
  BY <1>1, <1>2 DEF Run
<1>5. exec' = [exec EXCEPT ![e] = mine]
  BY DEF RemoveStaged
<1> HIDE DEF mine
<1>6. \A f \in Execution : exec'[f] = IF f = e THEN mine ELSE exec[f]
  BY <1>1, <1>5
<1>7. Types'
  <2>1. exec' \in [Execution -> Run]
    BY <1>1, <1>4, <1>5
  <2>2. staged' \in [Secret -> Execution \cup {NoOne, HalfWritten}]
    BY <1>1 DEF RemoveStaged
  <2>3. QED
    BY <1>1, <1>2, <2>1, <2>2 DEF IInv, Types, SandboxTypeOK
<1>8. RunsInBox'
  BY <1>1, <1>2, <1>4, <1>6 DEF IInv, RunsInBox
<1>9. Owned'
  <2> SUFFICES ASSUME NEW f \in Execution, NEW j \in exec'[f].wrote
               PROVE  /\ j \notin exec'[f].crossed => staged'[j] = f
                      /\ \A g \in Execution \ {f} : j \in exec'[g].wrote => j \in exec'[f].crossed
    BY DEF Owned
  <2>1. j \in exec[f].wrote /\ j \in Secret /\ exec'[f].crossed = exec[f].crossed
    BY <1>1, <1>4, <1>6 DEF Run
  <2>2. \A g \in Execution : j \in exec'[g].wrote => j \in exec[g].wrote
    BY <1>4, <1>6
  <2>3. CASE j = k
    <3>1. f # e
      BY <1>4, <1>6, <2>3
    <3>2. j \in exec[f].crossed
      BY <1>2, <2>1, <2>3, <3>1 DEF IInv, Owned
    <3>3. QED
      BY <2>1, <3>2
  <2>4. CASE j # k
    BY <1>3, <2>1, <2>2, <2>4 DEF IInv, Owned
  <2>5. QED
    BY <2>3, <2>4
<1>10. Accounted' /\ Left'
  <2>1. \A f \in Execution : exec[f].wrote \ {k} \subseteq exec'[f].wrote
    BY <1>4, <1>6
  <2>2. QED
    BY <1>2, <1>3, <2>1 DEF IInv, Accounted, Left
<1>11. QED
  BY <1>7, <1>8, <1>9, <1>10 DEF IInv

\* Every step in which no execution moves on: create, clean up, be killed.
LEMMA LifeKeeps ==
  ASSUME IInv, MkdirFails \/ DockerRuns \/ Ready \/ NotReady \/ Cleanup \/ AgentKilled
  PROVE  IInv'
<1>1. /\ exec \in [Execution -> Run] /\ staged \in [Secret -> Execution \cup {NoOne, HalfWritten}]
  BY DEF IInv, Types, SandboxTypeOK
<1>2. AtRest \in Run /\ AtRest.at = "rest" /\ AtRest.wants = {} /\ AtRest.wrote = {}
  BY DEF AtRest, Run
<1>3. NoFiles \in [Secret -> Execution \cup {NoOne, HalfWritten}] /\ \A k \in Secret : NoFiles[k] = NoOne
  BY DEF NoFiles
<1>4. CASE MkdirFails \/ DockerRuns \/ Ready
  <2>1. UNCHANGED <<staged, exec>> /\ life # "up" /\ life # "killed" /\ life' # "killed" /\ mishap \subseteq mishap'
        /\ \A x \in {"write", "remove"} : x \in mishap' => x \in mishap
    BY <1>4 DEF MkdirFails, DockerRuns, Ready
  <2>2. Types'
    BY <1>4, <2>1 DEF IInv, Types, SandboxTypeOK, MkdirFails, DockerRuns, Ready
  <2>3. RunsInBox' /\ Owned' /\ Accounted'
    BY <2>1 DEF IInv, RunsInBox, Owned, Accounted
  <2>4. Left'
    BY <1>4 DEF IInv, Left, MkdirFails, DockerRuns, Ready
  <2>5. QED
    BY <2>2, <2>3, <2>4 DEF IInv
<1>5. CASE NotReady \/ Cleanup
  <2>1. /\ UNCHANGED exec /\ life' = "over" /\ CleanupLocked
        /\ \A e \in Execution : exec[e] = AtRest
    BY <1>5 DEF IInv, RunsInBox, NotReady, Cleanup
  <2>2. Types'
    BY <1>3, <2>1 DEF IInv, Types, SandboxTypeOK, CleanupLocked
  <2>3. RunsInBox' /\ Owned'
    BY <1>2, <2>1 DEF IInv, RunsInBox, Owned
  <2>4. staged' \in {staged, NoFiles} /\ mishap \subseteq mishap' /\ life # "killed"
    BY <1>5, <2>1 DEF CleanupLocked, NotReady, Cleanup
  <2>5. Accounted'
    BY <1>2, <1>3, <2>1, <2>4 DEF IInv, Accounted
  <2>6. Left'
    BY <2>1 DEF Left, CleanupLocked
  <2>7. QED
    BY <2>2, <2>3, <2>5, <2>6 DEF IInv
<1>6. CASE AgentKilled
  <2>1. /\ life' = "killed" /\ box' = "stray" /\ UNCHANGED <<dir, staged, mishap>>
        /\ exec' = [e \in Execution |-> AtRest]
    BY <1>6 DEF AgentKilled
  <2>2. Types'
    BY <1>2, <2>1 DEF IInv, Types, SandboxTypeOK
  <2>3. RunsInBox' /\ Owned' /\ Accounted' /\ Left'
    BY <1>2, <2>1 DEF RunsInBox, Owned, Accounted, Left
  <2>4. QED
    BY <2>2, <2>3 DEF IInv
<1>7. QED
  BY <1>4, <1>5, <1>6

\* Execute returns when it has removed all it wrote.
LEMMA ReturnKeeps ==
  ASSUME IInv, NEW e \in Execution, ExecuteReturns(e)
  PROVE  IInv'
<1>1. exec \in [Execution -> Run] /\ AtRest \in Run
  BY DEF IInv, Types, AtRest, Run
<1>2. AtRest.wrote = {} /\ AtRest.wants = {}
  BY DEF AtRest
<1>3. /\ UNCHANGED <<life, box, named, dir, staged, mishap>>
      /\ exec' = [exec EXCEPT ![e] = AtRest] /\ exec[e].wrote = {}
  BY DEF ExecuteReturns
<1>4. \A f \in Execution : /\ exec'[f] = IF f = e THEN AtRest ELSE exec[f]
                           /\ exec'[f].wrote = exec[f].wrote
  BY <1>1, <1>2, <1>3
<1>5. Types'
  BY <1>1, <1>3 DEF IInv, Types, SandboxTypeOK
<1>6. RunsInBox'
  <2>1. life = "up"
    BY BusyIsUp DEF ExecuteReturns
  <2>2. QED
    BY <1>2, <1>3, <1>4, <2>1 DEF IInv, RunsInBox
<1>7. Owned'
  BY <1>2, <1>3, <1>4 DEF IInv, Owned
<1>8. Accounted' /\ Left'
  BY <1>3, <1>4 DEF IInv, Accounted, Left
<1>9. QED
  BY <1>5, <1>6, <1>7, <1>8 DEF IInv

\* The invariant holds in every state of every behaviour.
THEOREM Inductive == SandboxSpec => []IInv
<1>1. SandboxInit => IInv
  <2> SUFFICES ASSUME SandboxInit PROVE IInv
    OBVIOUS
  <2>1. AtRest \in Run /\ AtRest.at = "rest" /\ AtRest.wants = {} /\ AtRest.wrote = {}
    BY DEF AtRest, Run
  <2>2. \A e \in Execution : exec[e] = AtRest
    BY DEF SandboxInit
  <2>3. \A k \in Secret : staged[k] = NoOne
    BY DEF SandboxInit, NoFiles
  <2>4. Types
    BY <2>1 DEF SandboxInit, NoFiles, Types, SandboxTypeOK
  <2>5. RunsInBox /\ Owned /\ Accounted
    BY <2>1, <2>2, <2>3 DEF RunsInBox, Owned, Accounted
  <2>6. Left
    BY DEF SandboxInit, Left
  <2>7. QED
    BY <2>4, <2>5, <2>6 DEF IInv
<1>2. IInv /\ [SandboxNext]_sandboxVars => IInv'
  <2> SUFFICES ASSUME IInv, [SandboxNext]_sandboxVars PROVE IInv'
    OBVIOUS
  <2>1. CASE MkdirFails \/ DockerRuns \/ Ready \/ NotReady \/ Cleanup \/ AgentKilled
    BY <2>1, LifeKeeps
  <2>2. ASSUME NEW e \in Execution, ExecBash(e) \/ Execute(e) \/ ExecWithEnv(e) \/ RunEnds(e)
        PROVE  IInv'
    <3>1. Quiet(e)
      BY <2>2, QuietSteps
    <3>2. QED
      BY <3>1, QuietKeeps
  <2>3. ASSUME NEW e \in Execution, ExecuteReturns(e) PROVE IInv'
    BY <2>3, ReturnKeeps
  <2>4. ASSUME NEW e \in Execution, NEW k \in Secret, StageSecret(e, k) \/ RemoveStaged(e, k)
        PROVE  IInv'
    BY <2>4, StageKeeps, RemoveKeeps
  <2>5. CASE UNCHANGED sandboxVars
    BY <2>5 DEF sandboxVars, IInv, Types, SandboxTypeOK, RunsInBox, Owned, Accounted, Left
  <2>6. QED
    BY <2>1, <2>2, <2>3, <2>4, <2>5 DEF SandboxNext
<1>3. QED
  BY <1>1, <1>2, PTL DEF SandboxSpec

\* While a command runs, the files it was given hold its own secrets unless
\* another execution wrote the same name, for any number of executions and
\* secrets (Execute).
THEOREM OwnSecrets == SandboxSpec => []SecretsReachTheSkill
<1>1. IInv => SecretsReachTheSkill
  BY DEF IInv, Owned, SecretsReachTheSkill
<1>2. QED
  BY <1>1, Inductive, PTL

\* No secret is left in the staging directory when no tool runs, and neither
\* the directory nor the container outlives the agent, except after the
\* failures the property names (Execute, Create, cleanupLocked).
THEOREM CleanAfterwards == SandboxSpec => []NothingLeftBehind
<1>1. IInv => NothingLeftBehind
  <2> SUFFICES ASSUME IInv PROVE NothingLeftBehind
    OBVIOUS
  <2>1. ASSUME life # "killed", mishap \cap {"write", "remove"} = {}, \A e \in Execution : exec[e].at = "rest"
        PROVE  staged = NoFiles
    <3>1. \A e \in Execution : exec[e].wrote = {}
      BY <2>1 DEF IInv, RunsInBox, AtRest
    <3>2. \A k \in Secret : staged[k] = NoOne
      BY <2>1, <3>1 DEF IInv, Accounted
    <3>3. QED
      BY <3>2 DEF IInv, Types, SandboxTypeOK, NoFiles
  <2>2. QED
    BY <2>1 DEF IInv, Left, NothingLeftBehind
<1>2. QED
  BY <1>1, Inductive, PTL
===============================================================================
