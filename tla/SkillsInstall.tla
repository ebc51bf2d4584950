---------------------------- MODULE SkillsInstall ----------------------------
(***************************************************************************)
(* Installing skills (skills_install.py, tools/skills.py): the tree of a   *)
(* repository is listed, each skill's files are written to a folder of the *)
(* sandbox that all users share, one command a file, and its playbook goes *)
(* into the user's store.  Several installs may run at once.               *)
(*                                                                         *)
(* A path is a sequence of names, a name a number: numbers are ordered as  *)
(* the names are, of which none begins with another.                       *)
(***************************************************************************)
EXTENDS Integers, SequencesExt

CONSTANTS Users,
          Trees,          \* the repositories: their name to their files
          Subpaths,
          SkillMd,        \* the name SKILL.md
          Markdown,       \* the names that end in .md
          Clean,          \* a name without extension and unsafe characters
          Big,            \* the files over 1,000,000 bytes
          Cap, FilesPerSkill,
          MaxInstalls     \* bound on installs

Names == DOMAIN Clean
Paths == Seq(Names)

ASSUME SkillsAssumption ==
  /\ Cap \in Nat \ {0} /\ FilesPerSkill \in Nat \ {0} /\ MaxInstalls \in Nat
  /\ SkillMd \in Markdown /\ SkillMd \in Names

ASSUME TreesAssumption ==
  /\ Names \subseteq Nat /\ \A name \in Names : Clean[name] \in Names
  /\ Subpaths \subseteq Paths
  /\ \A repo \in DOMAIN Trees :
       repo \in Names /\ IsFiniteSet(Trees[repo]) /\ Trees[repo] \subseteq Paths \ {<<>>}

VARIABLES installs,   \* in the order they were asked for
          disk,       \* <<folder, path>> to the writers so far
          playbooks,  \* <<user, key>> to what is stored there
          late        \* writes that go on although nobody waits
skillsVars == <<installs, disk, playbooks, late>>

-----------------------------------------------------------------------------
\* What there is to install.

Forms == {"shorthand", "repo_url", "tree_url", "blob_dir_url", "blob_md_url", "md_url", "else"}

\* parse_source
ParseSource(form) == CASE form \in {"blob_md_url", "md_url"} -> "raw"
                       [] form = "else" -> "junk"
                       [] OTHER -> "github_repo"

Before(p, q) ==
  \E n \in 0..Len(p) :
    /\ n < Len(q) /\ \A m \in 1..n : p[m] = q[m]
    /\ n = Len(p) \/ p[n + 1] < q[n + 1]

InOrder(paths) ==
  [n \in 1..Cardinality(paths) |->
     CHOOSE p \in paths : Cardinality({q \in paths : Before(q, p)}) = n - 1]

\* Mutant of First: no limit.
FirstAll(n, s) == s

First(n, s) == SubSeq(s, 1, IF n < Len(s) THEN n ELSE Len(s))

\* The folder's name, or the repository's for the root.
DirName(d, repo) == Clean[IF d = <<>> THEN repo ELSE Last(d)]

\* skill_key_from_path
SkillKey(path, repo) ==
  IF Last(path) = SkillMd THEN DirName(Front(path), repo) ELSE Clean[Last(path)]

\* skill_dirs_from_tree: the folders of SKILL.md files, by name.
SkillDirs(tree, sub, repo) ==
  LET dirs == {Front(p) : p \in {q \in tree : Last(q) = SkillMd}}
      named == InOrder({<<DirName(d, repo)>> \o d : d \in {e \in dirs : IsPrefix(sub, e)}})
  IN  [i \in DOMAIN named |-> Tail(named[i])]

\* files_under
FilesUnder(tree, d) ==
  InOrder({SubSeq(p, Len(d) + 1, Len(p)) : p \in {q \in tree : IsStrictPrefix(d, q)}})

\* select_skill_paths
SelectSkillPaths(tree, sub) ==
  LET scoped == {p \in tree : IsPrefix(sub, p)}
      skills == {p \in scoped : Last(p) = SkillMd}
  IN  InOrder(IF skills # {} THEN skills ELSE {p \in scoped : Last(p) \in Markdown})

\* Mutant of PlaybookRel: the last of them.
PlaybookRelLast(rels) == rels[Max({n \in DOMAIN rels : Last(rels[n]) = SkillMd})]

\* The first SKILL.md in order.
PlaybookRel(rels) == rels[Min({n \in DOMAIN rels : Last(rels[n]) = SkillMd})]

FolderItem(tree, d, repo) ==
  LET rels == FilesUnder(tree, d)
  IN  [key |-> DirName(d, repo), folder |-> TRUE, dir |-> d,
       path |-> d \o PlaybookRel(rels), files |-> First(FilesPerSkill, rels)]

LooseItem(path, repo) ==
  [key |-> SkillKey(path, repo), folder |-> FALSE, dir |-> <<>>, path |-> path, files |-> <<>>]

\* Skills with their folders, or else loose playbooks.
Items(tree, sub, repo) ==
  LET dirs == First(Cap, SkillDirs(tree, sub, repo))
      loose == First(Cap, SelectSkillPaths(tree, sub))
  IN  IF dirs # <<>> THEN [i \in DOMAIN dirs |-> FolderItem(tree, dirs[i], repo)]
                     ELSE [i \in DOMAIN loose |-> LooseItem(loose[i], repo)]

-----------------------------------------------------------------------------
Pcs == {"asked", "working", "reported", "none_found", "bad_source", "error"}

ItemType ==
  [key : Names, folder : BOOLEAN, dir : Paths, path : Paths, files : Seq(Paths)]
InstallType ==
  [user : Users, repo : DOMAIN Trees, sub : Paths, failed : SUBSET Paths, found : BOOLEAN,
   pc : Pcs, items : Seq(ItemType)]
EntryType == [by : DOMAIN installs, dir : Paths]
PlaceType == Names \X Paths

SkillsTypeOK ==
  /\ installs \in Seq(InstallType) /\ Len(installs) <= MaxInstalls
  /\ \A i \in DOMAIN installs : Len(installs[i].items) <= Cap
  /\ disk \in [DOMAIN disk -> Seq(EntryType)]
  /\ late \subseteq [by : DOMAIN installs, dir : Paths, at : PlaceType]
  /\ playbooks \in
       [DOMAIN playbooks -> [by : DOMAIN installs, item : ItemType, failed : SUBSET Paths]]

SkillsInit == installs = <<>> /\ disk = <<>> /\ playbooks = <<>> /\ late = {}

With(f, k, v) == [a \in DOMAIN f \cup {k} |-> IF a = k THEN v ELSE f[a]]
Log(at) == IF at \in DOMAIN disk THEN disk[at] ELSE <<>>

Change(i, from, r) == installs[i].pc = from /\ installs' = [installs EXCEPT ![i] = r]
Stop(i, from, how) == Change(i, from, [installs[i] EXCEPT !.pc = how])

\* The tool is called.
Ask(user, form, repo, sub) ==
  LET kind == ParseSource(form)
      one == LooseItem(Append(sub, SkillMd), repo)
  IN  /\ Len(installs) < MaxInstalls
      /\ installs' = Append(installs,
           [user |-> user, repo |-> repo, sub |-> sub, failed |-> {}, found |-> FALSE,
            pc |-> CASE kind = "raw" -> "working" [] kind = "junk" -> "bad_source"
                     [] OTHER -> "asked",
            items |-> IF kind = "raw" THEN <<one>> ELSE <<>>])
      /\ UNCHANGED <<disk, playbooks, late>>

\* The subpath has served then.
ListTree(i) ==
  LET r == installs[i]
      items == Items(Trees[r.repo], r.sub, r.repo)
  IN  /\ Change(i, "asked", [r EXCEPT !.pc = "working", !.items = items, !.sub = <<>>])
      /\ UNCHANGED <<disk, playbooks, late>>

Item(i) == Head(installs[i].items)
Rel(i) == Head(Item(i).files)
HasFile(i) == installs[i].items # <<>> /\ Item(i).files # <<>>
Entry(i) == [by |-> i, dir |-> Item(i).dir]
Place(i) == <<Item(i).key, Rel(i)>>
Advanced(i) == [installs[i] EXCEPT !.items[1].files = Tail(@)]
IsBig(i) == <<installs[i].repo, Item(i).dir \o Rel(i)>> \in Big

SkipBig(i) ==
  /\ HasFile(i) /\ IsBig(i) /\ Change(i, "working", Advanced(i))
  /\ UNCHANGED <<disk, playbooks, late>>

WriteFile(i) ==
  /\ HasFile(i) /\ ~IsBig(i) /\ Change(i, "working", Advanced(i))
  /\ disk' = With(disk, Place(i), Append(Log(Place(i)), Entry(i)))
  /\ UNCHANGED <<playbooks, late>>

\* The command fails; its exit code is not looked at, the file is counted.
FailQuietly(i) ==
  /\ HasFile(i) /\ ~IsBig(i)
  /\ Change(i, "working", [Advanced(i) EXCEPT !.failed = @ \cup {Rel(i)}])
  /\ UNCHANGED <<disk, playbooks, late>>

\* Mutant of LoseWrite: a command that takes too long is passed over.
PassOverWrite(i) ==
  /\ HasFile(i) /\ ~IsBig(i) /\ Change(i, "working", [Advanced(i) EXCEPT !.failed = @ \cup {Rel(i)}])
  /\ late' = late \cup {[by |-> i, dir |-> Item(i).dir, at |-> Place(i)]}
  /\ UNCHANGED <<disk, playbooks>>

\* No answer in 60 seconds, a broken connection, or the turn is cancelled: the
\* install ends with an error, the command goes on.
LoseWrite(i) ==
  /\ HasFile(i) /\ ~IsBig(i) /\ Stop(i, "working", "error")
  /\ late' = late \cup {[by |-> i, dir |-> Item(i).dir, at |-> Place(i)]}
  /\ UNCHANGED <<disk, playbooks>>

Land(w) ==
  /\ late' = late \ {w}
  /\ disk' = With(disk, w.at, Append(Log(w.at), [by |-> w.by, dir |-> w.dir]))
  /\ UNCHANGED <<installs, playbooks>>

Stored(i) ==
  /\ Change(i, "working",
       [installs[i] EXCEPT !.items = Tail(@), !.failed = {}, !.found = TRUE])
  /\ playbooks' = With(playbooks, <<installs[i].user, Item(i).key>>,
       [by |-> i, item |-> Item(i), failed |-> installs[i].failed])
  /\ UNCHANGED <<disk, late>>

\* Mutant of StorePlaybook: before the files.
StoreAnyTime(i) == installs[i].items # <<>> /\ Stored(i)

StorePlaybook(i) == installs[i].items # <<>> /\ Item(i).files = <<>> /\ Stored(i)

Report(i) ==
  /\ installs[i].items = <<>>
  /\ Stop(i, "working", IF installs[i].found THEN "reported" ELSE "none_found")
  /\ UNCHANGED <<disk, playbooks, late>>

\* A fetch or the store fails, or the turn is cancelled.
Fail(i) ==
  /\ \E from \in {"asked", "working"} : Stop(i, from, "error")
  /\ UNCHANGED <<disk, playbooks, late>>

InstallStep(i) ==
  \/ ListTree(i) \/ SkipBig(i) \/ WriteFile(i) \/ FailQuietly(i) \/ LoseWrite(i)
  \/ StorePlaybook(i) \/ Report(i) \/ Fail(i)

SkillsRest ==
  /\ Len(installs) = MaxInstalls /\ late = {}
  /\ \A i \in DOMAIN installs : installs[i].pc \notin {"asked", "working"}
  /\ UNCHANGED skillsVars

SkillsNext ==
  \/ \E user \in Users, form \in Forms, repo \in DOMAIN Trees, sub \in Subpaths :
       Ask(user, form, repo, sub)
  \/ \E i \in DOMAIN installs : InstallStep(i)
  \/ \E w \in late : Land(w)
  \/ SkillsRest

SkillsSpec == SkillsInit /\ [][SkillsNext]_skillsVars

-----------------------------------------------------------------------------
\* Properties.

Folders == {k \in DOMAIN playbooks : playbooks[k].item.folder}
Rels(repo, dir) == ToSet(First(FilesPerSkill, FilesUnder(Trees[repo], dir)))

IsOwn(item) == item.path = Append(item.dir, SkillMd)

OnDisk(i, dir, key, rel) ==
  <<installs[i].repo, dir \o rel>> \in Big \/ [by |-> i, dir |-> dir] \in ToSet(Log(<<key, rel>>))

(***************************************************************************)
(* "A SKILL.md-defined skill installs its playbook into the store [...]    *)
(* AND materializes its whole folder - scripts included - into the         *)
(* sandbox" (skills_install.py:229-231, tools/skills.py:31-35): whatever   *)
(* stored playbook points to a folder is that folder's own, and every file *)
(* of it was written, up to the limits on size and number.  False: the     *)
(* first SKILL.md in order may be one further down (skills_install.py:273) *)
(* and a command may fail without anybody looking (:290).                  *)
(***************************************************************************)
InstalledAsDocumented ==
  \A k \in Folders :
    LET b == playbooks[k]
    IN  /\ IsOwn(b.item)
        /\ \A rel \in Rels(installs[b.by].repo, b.item.dir) : OnDisk(b.by, b.item.dir, k[2], rel)

(***************************************************************************)
(* What does hold.  A wrong playbook is stored only for a folder that has  *)
(* another SKILL.md in a folder that sorts before its own.                 *)
(***************************************************************************)
OwnOrNested(item, tree) ==
  \/ IsOwn(item)
  \/ \E p \in tree :
       IsStrictPrefix(item.dir, p) /\ Last(p) = SkillMd /\ p[Len(item.dir) + 1] < SkillMd

PlaybookOwnOrNested ==
  \A k \in Folders : OwnOrNested(playbooks[k].item, Trees[installs[playbooks[k].by].repo])

(***************************************************************************)
(* And a file is missing behind a stored playbook only if its command      *)
(* failed: the playbook comes after all of them, also in installs that end *)
(* with an error, and beside others.                                       *)
(***************************************************************************)
Treated(i, dir, key, rel, failed) == rel \in failed \/ OnDisk(i, dir, key, rel)

CodeBeforePlaybook ==
  \A k \in Folders :
    LET b == playbooks[k]
    IN  \A rel \in Rels(installs[b.by].repo, b.item.dir) :
          Treated(b.by, b.item.dir, k[2], rel, b.failed)

(***************************************************************************)
(* Both: the two defects go no further than that.                          *)
(***************************************************************************)
SkillDefectsBounded == PlaybookOwnOrNested /\ CodeBeforePlaybook

(***************************************************************************)
(* An install that reported what it installed writes nothing afterwards:   *)
(* only of one that ended with INSTALL_ERROR may a write still land.       *)
(***************************************************************************)
QuietAfterReport == \A w \in late : installs[w.by].pc = "error"

(***************************************************************************)
(* Why the folder is there: of the item an install is at, each file has    *)
(* been treated or is still to come; of those after it, all are to come.   *)
(***************************************************************************)
Followed(i, r) ==
  \A n \in DOMAIN r.items :
    LET item == r.items[n]
    IN  item.folder =>
          /\ OwnOrNested(item, Trees[r.repo])
          /\ \A rel \in Rels(r.repo, item.dir) :
               \/ rel \in ToSet(item.files)
               \/ n = 1 /\ Treated(i, item.dir, item.key, rel, r.failed)

ItemsFollowed == \A i \in DOMAIN installs : Followed(i, installs[i])

\* All of it: what every step of an install keeps.
SkillsInv == SkillsTypeOK /\ SkillDefectsBounded /\ QuietAfterReport /\ ItemsFollowed
=============================================================================
