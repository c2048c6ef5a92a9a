---------------------------- MODULE ChangeLedger ----------------------------
(***************************************************************************)
(* tools/dev/code-change-ledger.ts with the tools of code-worktree.ts: the *)
(* changes of coding agents to the files of one task.  The agents of the   *)
(* task's subtasks work in one worktree, side by side.  Every change has a *)
(* snapshot with the text before and after it, by which it can be accepted *)
(* or undone.  A tool call is a sequence of reads and writes of the        *)
(* database and of files; other calls, and people, come in between.        *)
(***************************************************************************)
EXTENDS Integers, FiniteSets

CONSTANTS
    Calls,          \* tool calls; a written text is named by the call that wrote it
    Files,
    MaxAtWork,      \* bound: calls at a time
    MaxTrees,       \* bound: worktrees the task has one after another
    MaxEdits        \* bound: changes made by others

ASSUME LedgerAssumption ==
    /\ MaxAtWork \in Nat
    /\ MaxTrees \in Nat
    /\ MaxEdits \in Nat
    /\ Calls \cap {"none", "old", "missing", "live edit", "tree edit"} = {}

VARIABLES
    text,           \* <<place, file>> -> text
    origin,         \* file -> text the task began with
    base,           \* file -> text at the merge base of the task's branch
    path,           \* artifact.worktreePath: "none", "there", or "gone" but not yet unset
    trees,          \* worktrees so far
    unique,         \* whether init-db has made the index on (taskId, path)
    snap,           \* call -> the snapshot it has inserted
    call,           \* call -> step and what it has read
    edited,         \* history: <<place, file>> changed by others than the calls
    raced           \* history: files with a rejection beside a write or a rejection

treeVars == <<base, path, trees>>
history == <<edited, raced>>
vars == <<text, origin, treeVars, unique, snap, call, history>>

Texts == {"old", "missing", "live edit", "tree edit"} \cup Calls
Maybe(S) == S \cup {"none"}
Places == {"live", "tree"}

Snapshot == [status : {"open", "accepted", "rejected", "conflict"},
             file : Files, before : Texts, after : Maybe(Texts)]
NotMade == [status |-> "none", file |-> "none", before |-> "none", after |-> "none"]

\* A snapshot as it was read, with its id.
Doc == [id : Calls, file : Files, before : Texts, after : Maybe(Texts)]
MaybeDoc == [id : Maybe(Calls), file : Maybe(Files), before : Maybe(Texts),
             after : Maybe(Texts)]
NoDoc == [id |-> "none", file |-> "none", before |-> "none", after |-> "none"]

All == {"rejectAll", "acceptAll"}
Snapping == {"before", "write", "after"}
Rejecting == {"reject", "rejectAll"}
Tools == Snapping \cup Rejecting \cup {"accept", "acceptAll"}

CallRecord ==
    [step : {"idle", "find", "read", "insert", "write", "reread", "update",
             "next", "check", "restore", "mark", "done"},
     tool : Maybe(Tools), file : Maybe(Files), place : Places,
     doc : MaybeDoc, todo : SUBSET Doc,
     seen : Maybe(Texts),
     verdict : {"none", "accepted", "rejected", "conflict"}]

TypeOK ==
    /\ text \in [Places \X Files -> Texts]
    /\ origin \in [Files -> {"old", "missing"}]
    /\ base \in [Files -> Texts]
    /\ path \in {"none", "there", "gone"}
    /\ trees \in 0..MaxTrees
    /\ unique \in BOOLEAN
    /\ snap \in [Calls -> Snapshot \cup {NotMade}]
    /\ call \in [Calls -> CallRecord]
    /\ edited \subseteq Places \X Files
    /\ raced \subseteq Files

NotBegun == [step |-> "idle", tool |-> "none", file |-> "none", place |-> "live",
             doc |-> NoDoc, todo |-> {}, seen |-> "none", verdict |-> "none"]
Over == [NotBegun EXCEPT !.step = "done"]

Init ==
    /\ origin \in [Files -> {"old", "missing"}]
    /\ text = [x \in Places \X Files |-> IF x[1] = "live" THEN origin[x[2]] ELSE "missing"]
    /\ base = origin
    /\ path = "none"
    /\ trees = 0
    /\ unique \in BOOLEAN
    /\ snap = [c \in Calls |-> NotMade]
    /\ call = [c \in Calls |-> NotBegun]
    /\ edited = {}
    /\ raced = {}

-----------------------------------------------------------------------------
(* Calls: where they work, and what they find                               *)

AtWork(c) == call[c].step \notin {"idle", "done"}

\* getWorkspacePath: without a worktree it is the live repository.
Place == IF path = "none" THEN "live" ELSE "tree"

Affects(file, f) == file \in {f, "none"}

\* A rejection beside a write or another rejection of the same file.
Meets(tool, file, f) ==
    /\ Affects(file, f)
    /\ \E c \in Calls :
        /\ AtWork(c)
        /\ Affects(call[c].file, f)
        /\ {tool, call[c].tool} \subseteq Rejecting \cup {"write"}
        /\ {tool, call[c].tool} \cap Rejecting # {}

Starts(c, tool, file) ==
    /\ call[c].step = "idle"
    /\ Cardinality({k \in Calls : AtWork(k)}) < MaxAtWork
    /\ call' = [call EXCEPT ![c] = [NotBegun EXCEPT !.step = "find", !.tool = tool,
                                                    !.file = file,
                                                    !.place = IF tool \in Snapping THEN Place
                                                              ELSE "live"]]
    /\ raced' = raced \cup {f \in Files : Meets(tool, file, f)}
    /\ UNCHANGED <<text, origin, treeVars, unique, snap, edited>>

\* getWorkspacePathForWrite refuses the live repository.
Begin(c, tool, file) ==
    /\ file = "none" <=> tool \in All
    /\ tool \in {"write", "after"} => path # "none"
    /\ Starts(c, tool, file)

Of(f) == {i \in Calls : snap[i].status # "none" /\ snap[i].file = f}
OpenOnes == {i \in Calls : snap[i].status = "open"}
Ref(i) == [NoDoc EXCEPT !.id = i]
DocOf(i) == [id |-> i, file |-> snap[i].file, before |-> snap[i].before, after |-> snap[i].after]

\* A call of one of the tools goes on from a step, with only its own record changed.
Reads(c, step, tools, r) ==
    /\ call[c].step = step
    /\ call[c].tool \in tools
    /\ call' = [call EXCEPT ![c] = r]
    /\ UNCHANGED <<text, origin, treeVars, unique, snap, history>>

\* The tracked write takes an open snapshot, or makes one.
FindOpen(c) ==
    LET found == Of(call[c].file) \cap OpenOnes
    IN \/ \E i \in found :
            Reads(c, "find", {"write"}, [call[c] EXCEPT !.step = "write", !.doc = Ref(i)])
       \/ /\ found = {}
          /\ Reads(c, "find", {"write"}, [call[c] EXCEPT !.step = "read"])

\* findOne({ taskId, path }): whichever, of any status; duplicates have no order here.
FindAny(c) ==
    LET found == Of(call[c].file)
    IN \/ /\ found = {}
          /\ \/ Reads(c, "find", {"before"}, [call[c] EXCEPT !.step = "read"])
             \/ Reads(c, "find", {"after", "reject", "accept"}, Over)
       \/ \E i \in found :
          \/ Reads(c, "find", {"before"}, Over)
          \/ Reads(c, "find", {"after"}, [call[c] EXCEPT !.step = "reread", !.doc = Ref(i)])
          \/ Reads(c, "find", {"reject", "accept"},
                   [call[c] EXCEPT !.step = "next", !.todo = {DocOf(i)}])

\* reject_all and accept_all; the order of updatedAt is left open.
FindAll(c) ==
    Reads(c, "find", All, [call[c] EXCEPT !.step = "next", !.todo = {DocOf(i) : i \in OpenOnes}])

-----------------------------------------------------------------------------
(* Snapshots made, files written, snapshots completed                       *)

Text(c) == text[<<call[c].place, call[c].file>>]

ReadBefore(c) ==
    Reads(c, "read", Tools, [call[c] EXCEPT !.step = "insert", !.seen = Text(c)])

\* With the index a second snapshot of a file is refused, and the tool has failed.
InsertRefused(c) ==
    /\ unique
    /\ Of(call[c].file) # {}
    /\ Reads(c, "insert", Tools, Over)

Insert(c) ==
    /\ call[c].step = "insert"
    /\ unique => Of(call[c].file) = {}
    /\ snap' = [snap EXCEPT ![c] = [status |-> "open", file |-> call[c].file,
                                    before |-> call[c].seen, after |-> "none"]]
    /\ call' = [call EXCEPT ![c] =
                 IF @.tool = "before" THEN Over
                 ELSE [@ EXCEPT !.step = "write", !.seen = "none",
                                !.doc = Ref(c)]]
    /\ UNCHANGED <<text, origin, treeVars, unique, history>>

WriteFile(c) ==
    /\ call[c].step = "write"
    /\ text' = [text EXCEPT ![<<call[c].place, call[c].file>>] = c]
    /\ call' = [call EXCEPT ![c].step = "reread"]
    /\ UNCHANGED <<origin, treeVars, unique, snap, history>>

Reread(c) ==
    Reads(c, "reread", Tools, [call[c] EXCEPT !.step = "update", !.seen = Text(c)])

\* Mutant: what a snapshot said the file became is what the file was before.
UpdateRebases(c) ==
    /\ call[c].step = "update"
    /\ snap' = [snap EXCEPT ![call[c].doc.id] =
                 [@ EXCEPT !.status = "open", !.after = call[c].seen,
                           !.before = IF snap[call[c].doc.id].after = "none" THEN @
                                      ELSE snap[call[c].doc.id].after]]
    /\ call' = [call EXCEPT ![c] = Over]
    /\ UNCHANGED <<text, origin, treeVars, unique, history>>

Update(c) ==
    /\ call[c].step = "update"
    /\ snap' = [snap EXCEPT ![call[c].doc.id] = [@ EXCEPT !.status = "open",
                                                          !.after = call[c].seen]]
    /\ call' = [call EXCEPT ![c] = Over]
    /\ UNCHANGED <<text, origin, treeVars, unique, history>>

-----------------------------------------------------------------------------
(* acceptSnapshot and rejectSnapshot, one snapshot after another            *)

NextDoc(c) ==
    \/ /\ call[c].todo = {}
       /\ Reads(c, "next", Tools, Over)
    \/ \E d \in call[c].todo :
        Reads(c, "next", Tools, [call[c] EXCEPT !.step = "check", !.doc = d,
                                                !.todo = @ \ {d}, !.place = Place])

Checked(c) == text[<<call[c].place, call[c].doc.file>>]
Verdict(c, verdict) == [call[c] EXCEPT !.step = "mark", !.verdict = verdict]

CheckAccepted(c) ==
    LET after == call[c].doc.after
    IN Reads(c, "check", {"accept", "acceptAll"},
             Verdict(c, IF after \in {"none", Checked(c)} THEN "accepted" ELSE "conflict"))

\* Mutant: what cannot be undone counts as rejected as well.
CheckRejectedBlindly(c) ==
    LET r == IF call[c].doc.after # Checked(c) THEN Verdict(c, "rejected")
             ELSE [call[c] EXCEPT !.step = "restore"]
    IN Reads(c, "check", Rejecting, r)

\* Mutant: a change is undone whatever has become of the file since.
CheckRejectedUnseen(c) ==
    Reads(c, "check", Rejecting, IF call[c].doc.after = "none" THEN Verdict(c, "rejected")
                                 ELSE [call[c] EXCEPT !.step = "restore"])

CheckRejected(c) ==
    LET after == call[c].doc.after
        r == IF after = "none" THEN Verdict(c, "rejected")
             ELSE IF after # Checked(c) THEN Verdict(c, "conflict")
             ELSE [call[c] EXCEPT !.step = "restore"]
    IN Reads(c, "check", Rejecting, r)

\* writeFile, or unlink for a file that did not exist.
Restore(c) ==
    /\ call[c].step = "restore"
    /\ text' = [text EXCEPT ![<<call[c].place, call[c].doc.file>>] = call[c].doc.before]
    /\ call' = [call EXCEPT ![c] = Verdict(c, "rejected")]
    /\ UNCHANGED <<origin, treeVars, unique, snap, history>>

MarkSnapshot(c) ==
    /\ call[c].step = "mark"
    /\ snap' = [snap EXCEPT ![call[c].doc.id].status = call[c].verdict]
    /\ call' = [call EXCEPT ![c] = [@ EXCEPT !.step = "next", !.doc = NoDoc,
                                             !.verdict = "none"]]
    /\ UNCHANGED <<text, origin, treeVars, unique, history>>

-----------------------------------------------------------------------------
(* code-worktree.ts: the worktree comes, is merged and goes                 *)

TreeOf(f) == text[<<"tree", f>>]
LiveOf(f) == text[<<"live", f>>]
WithTexts(place, t) == [x \in Places \X Files |-> IF x[1] = place THEN t[x[2]] ELSE text[x]]

\* git worktree add refuses a directory in which a late write has left files.
InitWorktree ==
    /\ path = "none"
    /\ trees < MaxTrees
    /\ \A f \in Files : TreeOf(f) = "missing"
    /\ path' = "there"
    /\ trees' = trees + 1
    /\ text' = WithTexts("tree", [f \in Files |-> LiveOf(f)])
    /\ base' = [f \in Files |-> LiveOf(f)]
    /\ UNCHANGED <<origin, unique, snap, call, history>>

\* git commit in the worktree and git merge in the live repository, which changes
\* nothing when a file was changed differently on both sides.
ApplyPatch ==
    /\ path = "there"
    /\ \A f \in Files : \/ TreeOf(f) = base[f]
                        \/ LiveOf(f) \in {base[f], TreeOf(f)}
    /\ text' = WithTexts("live", [f \in Files |-> IF TreeOf(f) = base[f] THEN LiveOf(f)
                                                  ELSE TreeOf(f)])
    /\ base' = [f \in Files |-> TreeOf(f)]
    /\ UNCHANGED <<origin, path, trees, unique, snap, call, history>>

\* git worktree remove, and git branch -D.
RemoveWorktree ==
    /\ path = "there"
    /\ path' = "gone"
    /\ text' = WithTexts("tree", [f \in Files |-> "missing"])
    /\ UNCHANGED <<origin, base, trees, unique, snap, call, history>>

\* $unset: { worktreePath, branchName }
ForgetWorktree ==
    /\ path = "gone"
    /\ path' = "none"
    /\ UNCHANGED <<text, origin, base, trees, unique, snap, call, history>>

-----------------------------------------------------------------------------
(* The others, and the whole                                                *)

\* A person's commit in the live repository; a person or an agent's editor in the worktree.
Edit(place, f) ==
    /\ place = "tree" => path = "there"
    /\ <<place, f>> \notin edited
    /\ Cardinality(edited) < MaxEdits
    /\ edited' = edited \cup {<<place, f>>}
    /\ text' = [text EXCEPT ![<<place, f>>] = IF place = "live" THEN "live edit" ELSE "tree edit"]
    /\ UNCHANGED <<origin, treeVars, unique, snap, call, raced>>

CallStep(c) ==
    \/ FindOpen(c) \/ FindAny(c) \/ FindAll(c)
    \/ ReadBefore(c) \/ InsertRefused(c) \/ Insert(c) \/ WriteFile(c) \/ Reread(c) \/ Update(c)
    \/ NextDoc(c) \/ CheckAccepted(c) \/ CheckRejected(c) \/ Restore(c) \/ MarkSnapshot(c)

Next ==
    \/ \E c \in Calls :
        \/ \E tool \in Tools, file \in Maybe(Files) : Begin(c, tool, file)
        \/ CallStep(c)
    \/ InitWorktree \/ ApplyPatch \/ RemoveWorktree \/ ForgetWorktree
    \/ \E place \in Places, f \in Files : Edit(place, f)

\* Without fairness a call may stop at any step: so does one whose next await throws,
\* or whose server is restarted.
Spec == Init /\ [][Next]_vars

-----------------------------------------------------------------------------
(* Properties                                                               *)

\* What a file was before the agents of a task changed it can be had again: it is
\* there, or in a snapshot, however many subtasks wrote the file at a time and
\* whatever was accepted, undone, refused or interrupted.
OriginalKept ==
    \A f \in Files :
        (/\ trees = 1 /\ path = "there"
         /\ \A place \in Places : <<place, f>> \notin edited)
        => \/ TreeOf(f) = origin[f]
           \/ \E i \in Of(f) : snap[i].before = origin[f]

\* No snapshot of the file was made of what an agent had written already.  With the
\* index that is so of every file; without it two writes at a time may make two snapshots.
Plain(f) == \A i \in Of(f) : snap[i].before \notin Calls

\* What the ledger's tools do to the live repository, which only a merge and a person
\* ought to change: nothing while a worktree is recorded, although the tools that undo
\* take the path of the reading ones; and once the task's worktree is removed a
\* rejection still writes there, but only the text from before one of its snapshots,
\* and only over what an agent wrote and a merge has brought there, in a file nobody
\* else has changed and with the index on the snapshots.
LiveChangedByUndo ==
    [][\A f \in Files :
        (trees <= 1 /\ LiveOf(f)' # LiveOf(f))
        => \/ ApplyPatch \/ Edit("live", f)
           \/ /\ path = "none"
              /\ \E i \in Of(f) : LiveOf(f)' = snap[i].before
              /\ unique /\ (\A place \in Places : <<place, f>> \notin edited)
                   => LiveOf(f) \in Calls]_vars

\* What an agent has written in the worktree is accounted for: unless a rejection
\* met a write or another rejection of the file, a snapshot of it that is not rejected
\* tells of it, or its call has not finished.  Without the index this is said of files
\* whose snapshots hold no agent's text: undoing a change that was made on a text
\* already rejected brings that text back, and both its snapshots are rejected.
WorkIsAccounted ==
    \A f \in Files :
        (/\ path = "there" /\ f \notin raced
         /\ unique \/ Plain(f)
         /\ TreeOf(f) \in Calls \ {base[f]})
        => \/ AtWork(TreeOf(f))
           \/ \E i \in Of(f) : snap[i].status # "rejected"
=============================================================================
