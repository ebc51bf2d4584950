------------------------------ MODULE MCSandbox ------------------------------
(***************************************************************************)
(* The sandbox server, the files in it and the skill installer, which      *)
(* share no variable: one run explores each by itself, as `part` says.     *)
(***************************************************************************)
EXTENDS SandboxExec, SandboxFiles, SkillsInstall, TLC

VARIABLE part
sandboxVars == <<vars, filesVars, skillsVars, part>>

\* Two repositories.  The first holds the skills b and c/b, which get the same
\* name, and one in b, whose folder's name sorts before SKILL.md; the second the skill
\* at its root, one in a folder that sorts after SKILL.md, and a loose playbook.
Skill == 5
MCTrees ==
  (20 :> {<<11, Skill>>, <<11, 13>>, <<11, 1, Skill>>, <<12, 11, Skill>>})
  @@ (21 :> {<<Skill>>, <<7, Skill>>, <<11, 6>>})
MCSubpaths == {<<>>, <<11>>, <<11, Skill>>}
MCBig == {<<20, <<11, 13>>>>}
MCClean == [n \in 1..21 |-> n]

MCInit == part \in {"exec", "files", "skills"} /\ Init /\ FilesInit /\ SkillsInit

Exec(A) == part = "exec" /\ A /\ UNCHANGED <<filesVars, skillsVars, part>>

MCNext ==
  \/ Exec(Next)
  \/ part = "files" /\ FilesNext /\ UNCHANGED <<vars, skillsVars, part>>
  \/ part = "skills" /\ SkillsNext /\ UNCHANGED <<vars, filesVars, part>>

\* The fairness of SandboxExec's FairSpec.
MCSpec ==
  /\ MCInit /\ [][MCNext]_sandboxVars
  /\ WF_sandboxVars(Exec(Tick))
  /\ \A c \in Calls : WF_sandboxVars(Exec(Handle(c)))

(***************************************************************************)
(* The inductive invariants that the proofs about the parts rest on, each  *)
(* with the part's types.                                                  *)
(***************************************************************************)
PartsInv == SInv /\ FilesInv /\ SkillsInv
=============================================================================
