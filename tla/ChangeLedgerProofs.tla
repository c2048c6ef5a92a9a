------------------------- MODULE ChangeLedgerProofs -------------------------
(***************************************************************************)
(* What TLAPS proves of the change ledger: for any number of calls, files  *)
(* and worktrees, with and without the index on the snapshots.             *)
(***************************************************************************)
EXTENDS ChangeLedger, TLAPS

-----------------------------------------------------------------------------
(* The inductive invariant                                                  *)

\* The task's first worktree has not been removed.
Unremoved == trees = 0 \/ (trees = 1 /\ path # "none")

Refers(i, f) == i \in Calls /\ snap[i].status # "none" /\ snap[i].file = f

\* What a call's record says at each of its steps.
RecordOK(r) ==
    /\ r.tool \in {"write", "after"} => r.place = "tree" /\ trees >= 1
    /\ trees = 0 => r.place = "live"
    /\ r.step = "find" /\ r.tool \notin All => r.file \in Files
    /\ r.step \in {"read", "insert", "write", "reread", "update"} => r.file \in Files
    /\ r.step \in {"read", "insert"} => r.tool \in {"before", "write"}
    /\ r.step = "write" => r.tool = "write"
    /\ r.step \in {"reread", "update"} => r.tool \in {"write", "after"}
    /\ r.step \in {"insert", "update"} => r.seen \in Texts
    /\ r.step \in {"write", "reread", "update"} => Refers(r.doc.id, r.file)
    /\ r.step \in {"next", "check", "restore", "mark"} => r.tool \notin {"write", "after"}
    /\ r.step \in {"check", "restore", "mark"} =>
        /\ r.doc \in Doc
        /\ Refers(r.doc.id, r.doc.file)
    /\ r.step \in {"check", "restore"} /\ r.doc.after # "none" =>
        /\ trees >= 1
        /\ Unremoved => r.place = "tree"
    /\ r.step = "restore" => r.doc.after # "none"
    /\ r.step = "mark" => r.verdict # "none"
    /\ \A d \in r.todo : Refers(d.id, d.file) /\ (d.after # "none" => trees >= 1)

RecordsOK == \A c \in Calls : RecordOK(call[c])

TreesOK ==
    /\ trees = 0 => path = "none"
    /\ \A i \in Calls : snap[i].after # "none" => trees >= 1

\* The first worktree is to come or there, and nobody else has touched the file.
Own(f) ==
    /\ trees = 0 \/ (trees = 1 /\ path = "there")
    /\ \A place \in Places : <<place, f>> \notin edited

\* As long as there is no snapshot of a file nobody has written it, and whoever is
\* about to make the first one has read what it was.
KeptOK(f) ==
    /\ Of(f) = {} =>
        /\ LiveOf(f) = origin[f]
        /\ path = "there" => TreeOf(f) = origin[f]
        /\ \A c \in Calls :
            call[c].step = "insert" /\ call[c].file = f => call[c].seen = origin[f]
    /\ Of(f) # {} => \E i \in Of(f) : snap[i].before = origin[f]

OriginsOK == \A f \in Files : Own(f) => KeptOK(f)

\* A call inserts one snapshot at most.
Early == {"idle", "find", "read", "insert"}
FreshOK == \A c \in Calls : call[c].step \in Early => snap[c].status = "none"

Inv == TypeOK /\ TreesOK /\ RecordsOK /\ FreshOK

-----------------------------------------------------------------------------
(* Records                                                                  *)

\* Nothing a record says of snapshots and worktrees becomes false.
Later ==
    /\ \A i \in Calls : snap[i].status # "none" =>
        snap'[i].status # "none" /\ snap'[i].file = snap[i].file
    /\ trees \in Nat /\ trees' \in Nat
    /\ trees' >= trees
    /\ Unremoved' => Unremoved

\* Other calls' records stay good.
LEMMA RecordStays ==
    ASSUME NEW r, RecordOK(r), Later
    PROVE  RecordOK(r)'
<1>1. \A i, f : Refers(i, f) => Refers(i, f)'
  BY DEF Refers, Later
<1>2. trees' >= 1 \/ ~(trees >= 1)
  BY DEF Later
<1>3. trees' = 0 => trees = 0
  BY DEF Later
<1> HIDE DEF Later
<1>4. Unremoved' => Unremoved
  BY DEF Later
<1>5. (r.step \in {"write", "reread", "update"} => Refers(r.doc.id, r.file)')
  BY <1>1 DEF RecordOK
<1>6. (r.step \in {"check", "restore", "mark"} => r.doc \in Doc /\ Refers(r.doc.id, r.doc.file)')
  BY <1>1 DEF RecordOK
<1>7. \A d \in r.todo : Refers(d.id, d.file)' /\ (d.after # "none" => trees' >= 1)
  BY <1>1, <1>2 DEF RecordOK
<1> QED
  BY <1>2, <1>3, <1>4, <1>5, <1>6, <1>7 DEF RecordOK

\* One record changes, to a good one.
LEMMA RecordMoves ==
    ASSUME TypeOK, RecordsOK, Later, NEW c \in Calls, NEW r \in CallRecord,
           call' = [call EXCEPT ![c] = r], RecordOK(r)'
    PROVE  call' \in [Calls -> CallRecord] /\ RecordsOK'
<1>1. call' \in [Calls -> CallRecord]
  BY DEF TypeOK
<1>2. \A q : RecordOK(q) => RecordOK(q)'
  BY RecordStays
<1>3. ASSUME NEW k \in Calls PROVE RecordOK(call[k])'
  <2>1. CASE k = c
    <3>1. call'[k] = r
      BY <2>1 DEF TypeOK
    <3> QED
      BY <3>1
  <2>2. CASE k # c
    <3>1. call'[k] = call[k]
      BY <2>2 DEF TypeOK
    <3>2. RecordOK(call[k])
      BY DEF RecordsOK
    <3> QED
      BY <3>1, <3>2, <1>2
  <2> QED
    BY <2>1, <2>2
<1> QED
  BY <1>1, <1>3 DEF RecordsOK


\* A snapshot that was made, and what a reader of it has.
LEMMA MadeFacts ==
    ASSUME Inv, NEW i \in Calls, snap[i].status # "none"
    PROVE  /\ snap[i] \in Snapshot
           /\ DocOf(i) \in Doc
           /\ Refers(i, snap[i].file)
           /\ DocOf(i).id = i /\ DocOf(i).file = snap[i].file
           /\ DocOf(i).after # "none" => trees >= 1
<1>1. snap[i] \in Snapshot
  BY DEF Inv, TypeOK, NotMade
<1>2. DocOf(i) \in Doc
  BY <1>1 DEF DocOf, Doc, Snapshot
<1> QED
  BY <1>1, <1>2 DEF DocOf, Refers, Inv, TreesOK

\* A call that only reads goes on with a good record.
LEMMA ReadsKeep ==
    ASSUME Inv, NEW c \in Calls, NEW step, NEW tools, NEW r \in CallRecord,
           Reads(c, step, tools, r), RecordOK(r), r.step \in Early => step \in Early
    PROVE  Inv'
<1> USE DEF Reads, treeVars, history
<1>1. Later
  BY DEF Later, Inv, TypeOK, Unremoved
<1>2. RecordOK(r)'
  BY <1>1, RecordStays
<1>3. call' \in [Calls -> CallRecord] /\ RecordsOK'
  BY <1>1, <1>2, RecordMoves DEF Inv
<1>4. TypeOK'
  BY <1>3 DEF Inv, TypeOK
<1>5. TreesOK'
  BY DEF Inv, TreesOK
<1>6. FreshOK'
  <2> SUFFICES ASSUME NEW k \in Calls, call'[k].step \in Early
               PROVE  snap[k].status = "none"
    BY DEF FreshOK
  <2>1. CASE k = c
    BY <2>1 DEF Inv, TypeOK, FreshOK
  <2>2. CASE k # c
    <3>1. call'[k] = call[k]
      BY <2>2 DEF Inv, TypeOK
    <3> QED
      BY <3>1 DEF Inv, FreshOK
  <2> QED
    BY <2>1, <2>2
<1> QED
  BY <1>3, <1>4, <1>5, <1>6 DEF Inv

\* A call moves on, and changes a snapshot or a text.
LEMMA MoveKeeps ==
    ASSUME Inv, NEW c \in Calls, NEW p \in CallRecord, call' = [call EXCEPT ![c] = p],
           RecordOK(p)', p.step \notin Early, Later,
           text' \in [Places \X Files -> Texts],
           snap' \in [Calls -> Snapshot \cup {NotMade}],
           UNCHANGED <<origin, treeVars, unique, history>>,
           \A i \in Calls : i # c => (snap[i].status = "none" => snap'[i].status = "none"),
           \A i \in Calls : snap'[i].after # "none" => trees >= 1
    PROVE  Inv'
<1>1. call' \in [Calls -> CallRecord] /\ RecordsOK'
  BY RecordMoves DEF Inv
<1>2. TypeOK'
  BY <1>1 DEF Inv, TypeOK, treeVars, history
<1>3. TreesOK'
  BY DEF Inv, TreesOK, treeVars
<1>4. FreshOK'
  BY DEF Inv, TypeOK, FreshOK
<1> QED
  BY <1>1, <1>2, <1>3, <1>4 DEF Inv

\* A call's record is one, and it is good.
LEMMA CallFacts ==
    ASSUME Inv, NEW c \in Calls
    PROVE  call[c] \in CallRecord /\ RecordOK(call[c])
BY DEF Inv, TypeOK, RecordsOK

\* A finished call says nothing.
LEMMA OverIsGood ==
    ASSUME TRUE
    PROVE  Over \in CallRecord /\ RecordOK(Over)
<1>1. NoDoc \in MaybeDoc
  BY DEF NoDoc, MaybeDoc, Maybe
<1>2. /\ Over.step = "done" /\ Over.tool = "none" /\ Over.file = "none"
      /\ Over.place = "live" /\ Over.doc = NoDoc /\ Over.todo = {} /\ Over.seen = "none"
      /\ Over.verdict = "none"
  BY DEF Over, NotBegun
<1>3. Over \in CallRecord
  BY <1>1 DEF Over, NotBegun, CallRecord, Maybe, Places
<1>4. RecordOK(Over)
  BY <1>2 DEF RecordOK
<1> QED
  BY <1>3, <1>4

\* The place a call works at.
LEMMA PlaceFacts ==
    ASSUME Inv
    PROVE  /\ Place \in Places
           /\ trees = 0 => Place = "live"
           /\ path # "none" => Place = "tree" /\ trees >= 1
           /\ Unremoved /\ trees >= 1 => Place = "tree"
BY DEF Inv, TypeOK, TreesOK, Place, Places, Unremoved

-----------------------------------------------------------------------------
(* The invariant is kept                                                    *)

LEMMA InitInv == Init => Inv
<1> SUFFICES ASSUME Init PROVE Inv
  OBVIOUS
<1> USE DEF Init
<1>1. NotBegun \in CallRecord
  <2>1. NoDoc \in MaybeDoc
    BY DEF NoDoc, MaybeDoc, Maybe
  <2> QED
    BY <2>1 DEF NotBegun, CallRecord, Maybe, Places
<1>2. TypeOK
  <2>1. /\ origin \in [Files -> Texts]
        /\ base \in [Files -> Texts]
    BY DEF Texts
  <2>2. text \in [Places \X Files -> Texts]
    BY <2>1 DEF Texts, Places
  <2>3. call \in [Calls -> CallRecord]
    BY <1>1
  <2>4. snap \in [Calls -> Snapshot \cup {NotMade}]
    OBVIOUS
  <2>5. trees \in 0..MaxTrees
    <3>1. MaxTrees \in Nat
      BY LedgerAssumption
    <3>2. trees = 0
      OBVIOUS
    <3> HIDE DEF Init
    <3> QED
      BY <3>1, <3>2
  <2>7. edited \subseteq Places \X Files /\ raced \subseteq Files
    BY Zenon
  <2>6. path \in {"none", "there", "gone"} /\ unique \in BOOLEAN
        /\ origin \in [Files -> {"old", "missing"}]
    OBVIOUS
  <2> HIDE DEF Init
  <2> QED
    BY <2>1, <2>2, <2>3, <2>4, <2>5, <2>6, <2>7 DEF TypeOK
<1>3. RecordOK(NotBegun)
  BY DEF RecordOK, NotBegun
<1>4. RecordsOK
  BY <1>3 DEF RecordsOK
<1>5. TreesOK /\ FreshOK
  BY DEF TreesOK, FreshOK, NotMade
<1> QED
  BY <1>2, <1>4, <1>5 DEF Inv

LEMMA BeginKeeps ==
    ASSUME Inv, NEW c \in Calls, NEW tool \in Tools, NEW file \in Maybe(Files),
           Begin(c, tool, file)
    PROVE  Inv'
<1> DEFINE r == [NotBegun EXCEPT !.step = "find", !.tool = tool, !.file = file,
                                 !.place = IF tool \in Snapping THEN Place ELSE "live"]
<1> USE DEF Begin, Starts, treeVars
<1>1. /\ r.step = "find" /\ r.tool = tool /\ r.file = file
      /\ r.place = (IF tool \in Snapping THEN Place ELSE "live")
      /\ r.doc = NoDoc /\ r.todo = {} /\ r.seen = "none" /\ r.verdict = "none"
  BY DEF NotBegun
<1>2. r \in CallRecord
  <2>1. NoDoc \in MaybeDoc
    BY DEF NoDoc, MaybeDoc, Maybe
  <2>2. Place \in Places /\ "live" \in Places
    BY PlaceFacts DEF Places
  <2> QED
    BY <2>1, <2>2 DEF NotBegun, CallRecord, Maybe
<1>3. call' = [call EXCEPT ![c] = r]
  OBVIOUS
<1>4. RecordOK(r)
  <2>1. tool \notin All => file \in Files
    BY DEF Maybe
  <2> QED
    BY <1>1, <2>1, PlaceFacts DEF RecordOK, Snapping
<1> HIDE DEF r
<1>5. Later
  BY DEF Later, Inv, TypeOK, Unremoved
<1>6. PICK q \in CallRecord : q = r
  BY <1>2
<1>7. call' \in [Calls -> CallRecord] /\ RecordsOK'
  <2>1. RecordOK(q)
    BY <1>4, <1>6
  <2>2. RecordOK(q)'
    BY <1>5, <2>1, RecordStays
  <2> QED
    BY <1>3, <1>5, <1>6, <2>2, RecordMoves DEF Inv
<1>8. TypeOK'
  BY <1>7 DEF Inv, TypeOK
<1>9. TreesOK'
  BY DEF Inv, TreesOK
<1>10. FreshOK'
  BY DEF Inv, TypeOK, FreshOK, Early
<1> QED
  BY <1>7, <1>8, <1>9, <1>10 DEF Inv

LEMMA FindOpenKeeps ==
    ASSUME Inv, NEW c \in Calls, FindOpen(c)
    PROVE  Inv'
<1> USE CallFacts
<1>1. call[c].step = "find" /\ call[c].tool = "write" /\ call[c].file \in Files
  BY DEF FindOpen, Reads, RecordOK, All
<1>2. ASSUME NEW i \in Of(call[c].file),
             Reads(c, "find", {"write"}, [call[c] EXCEPT !.step = "write", !.doc = Ref(i)])
      PROVE  Inv'
  <2>1. i \in Calls /\ Refers(i, call[c].file)
    BY <1>2 DEF Of, Refers
  <2>2. Ref(i) \in MaybeDoc /\ Ref(i).id = i
    BY <2>1 DEF Ref, NoDoc, MaybeDoc, Maybe
  <2> DEFINE r == [call[c] EXCEPT !.step = "write", !.doc = Ref(i)]
  <2>3. r \in CallRecord
    BY <2>2 DEF CallRecord
  <2>4. RecordOK(r)
    BY <1>1, <2>1, <2>2 DEF RecordOK, CallRecord
  <2> QED
    BY <1>2, <2>3, <2>4, ReadsKeep DEF Early, CallRecord
<1>3. ASSUME Reads(c, "find", {"write"}, [call[c] EXCEPT !.step = "read"])
      PROVE  Inv'
  <2> DEFINE r == [call[c] EXCEPT !.step = "read"]
  <2>1. r \in CallRecord
    BY DEF CallRecord
  <2>2. RecordOK(r)
    BY <1>1 DEF RecordOK, CallRecord
  <2> QED
    BY <1>3, <2>1, <2>2, ReadsKeep DEF Early, CallRecord
<1> QED
  BY <1>2, <1>3 DEF FindOpen

LEMMA FindAnyKeeps ==
    ASSUME Inv, NEW c \in Calls, FindAny(c)
    PROVE  Inv'
<1> USE CallFacts
<1>1. call[c].step = "find" /\ call[c].tool \in {"before", "after", "reject", "accept"}
  BY DEF FindAny, Reads
<1>2. call[c].file \in Files
  BY <1>1 DEF RecordOK, All
<1>3. ASSUME Reads(c, "find", {"before"}, [call[c] EXCEPT !.step = "read"])
      PROVE  Inv'
  <2> DEFINE r == [call[c] EXCEPT !.step = "read"]
  <2>1. r \in CallRecord
    BY DEF CallRecord
  <2>2. RecordOK(r)
    BY <1>1, <1>2, <1>3 DEF RecordOK, CallRecord, Reads
  <2> QED
    BY <1>3, <2>1, <2>2, ReadsKeep DEF Early, CallRecord
<1>4. ASSUME NEW tools, Reads(c, "find", tools, Over)
      PROVE  Inv'
  BY <1>4, OverIsGood, ReadsKeep DEF Early, Over, NotBegun
<1>5. ASSUME NEW i \in Of(call[c].file),
             Reads(c, "find", {"after"}, [call[c] EXCEPT !.step = "reread", !.doc = Ref(i)])
      PROVE  Inv'
  <2>1. i \in Calls /\ Refers(i, call[c].file)
    BY <1>5 DEF Of, Refers
  <2>2. Ref(i) \in MaybeDoc /\ Ref(i).id = i
    BY <2>1 DEF Ref, NoDoc, MaybeDoc, Maybe
  <2> DEFINE r == [call[c] EXCEPT !.step = "reread", !.doc = Ref(i)]
  <2>3. r \in CallRecord
    BY <2>2 DEF CallRecord
  <2>4. RecordOK(r)
    BY <1>1, <1>2, <1>5, <2>1, <2>2 DEF RecordOK, CallRecord, Reads
  <2> QED
    BY <1>5, <2>3, <2>4, ReadsKeep DEF Early, CallRecord
<1>6. ASSUME NEW i \in Of(call[c].file),
             Reads(c, "find", {"reject", "accept"},
                   [call[c] EXCEPT !.step = "next", !.todo = {DocOf(i)}])
      PROVE  Inv'
  <2>1. i \in Calls /\ snap[i].status # "none"
    BY <1>6 DEF Of
  <2>2. /\ DocOf(i) \in Doc /\ Refers(DocOf(i).id, DocOf(i).file)
        /\ DocOf(i).after # "none" => trees >= 1
    BY <2>1, MadeFacts
  <2> DEFINE r == [call[c] EXCEPT !.step = "next", !.todo = {DocOf(i)}]
  <2>3. r \in CallRecord
    BY <2>2 DEF CallRecord
  <2>4. RecordOK(r)
    BY <1>1, <1>2, <1>6, <2>2 DEF RecordOK, CallRecord, Reads
  <2> QED
    BY <1>6, <2>3, <2>4, ReadsKeep DEF Early, CallRecord
<1> QED
  BY <1>3, <1>4, <1>5, <1>6 DEF FindAny

LEMMA FindAllKeeps ==
    ASSUME Inv, NEW c \in Calls, FindAll(c)
    PROVE  Inv'
<1> USE CallFacts
<1> DEFINE r == [call[c] EXCEPT !.step = "next", !.todo = {DocOf(i) : i \in OpenOnes}]
<1>1. call[c].step = "find" /\ call[c].tool \in All
  BY DEF FindAll, Reads
<1>2. \A i \in OpenOnes : /\ DocOf(i) \in Doc /\ Refers(DocOf(i).id, DocOf(i).file)
                          /\ DocOf(i).after # "none" => trees >= 1
  BY MadeFacts DEF OpenOnes
<1>3. r \in CallRecord
  <2>1. {DocOf(i) : i \in OpenOnes} \subseteq Doc
    BY <1>2
  <2> QED
    BY <2>1 DEF CallRecord
<1>4. r.step = "next" /\ r.tool = call[c].tool /\ r.place = call[c].place
      /\ r.todo = {DocOf(i) : i \in OpenOnes}
  BY DEF CallRecord
<1>5. RecordOK(r)
  <2>1. \A d \in r.todo : Refers(d.id, d.file) /\ (d.after # "none" => trees >= 1)
    BY <1>2, <1>4
  <2>2. r.tool \notin {"write", "after"}
    BY <1>1, <1>4 DEF All
  <2>3. trees = 0 => r.place = "live"
    BY <1>4 DEF RecordOK
  <2> HIDE DEF r
  <2> QED
    BY <1>4, <2>1, <2>2, <2>3 DEF RecordOK
<1> QED
  BY <1>3, <1>5, ReadsKeep DEF Early, CallRecord, FindAll

LEMMA ReadBeforeKeeps ==
    ASSUME Inv, NEW c \in Calls, ReadBefore(c)
    PROVE  Inv'
<1> USE CallFacts
<1> DEFINE r == [call[c] EXCEPT !.step = "insert", !.seen = Text(c)]
<1>1. call[c].step = "read" /\ call[c].file \in Files /\ call[c].place \in Places
  BY DEF ReadBefore, Reads, RecordOK, CallRecord
<1>2. Text(c) \in Texts
  BY <1>1 DEF Text, Inv, TypeOK
<1>3. r \in CallRecord
  BY <1>2 DEF CallRecord, Maybe
<1>4. RecordOK(r)
  BY <1>1, <1>2 DEF RecordOK, CallRecord
<1> QED
  BY <1>3, <1>4, ReadsKeep DEF Early, CallRecord, ReadBefore

LEMMA RereadKeeps ==
    ASSUME Inv, NEW c \in Calls, Reread(c)
    PROVE  Inv'
<1> USE CallFacts
<1> DEFINE r == [call[c] EXCEPT !.step = "update", !.seen = Text(c)]
<1>1. call[c].step = "reread" /\ call[c].file \in Files /\ call[c].place \in Places
  BY DEF Reread, Reads, RecordOK, CallRecord
<1>2. Text(c) \in Texts
  BY <1>1 DEF Text, Inv, TypeOK
<1>3. r \in CallRecord
  BY <1>2 DEF CallRecord, Maybe
<1>4. RecordOK(r)
  BY <1>1, <1>2 DEF RecordOK, CallRecord
<1> QED
  BY <1>3, <1>4, ReadsKeep DEF Early, CallRecord, Reread

LEMMA InsertRefusedKeeps ==
    ASSUME Inv, NEW c \in Calls, InsertRefused(c)
    PROVE  Inv'
BY OverIsGood, ReadsKeep DEF Early, Over, NotBegun, InsertRefused

LEMMA NextDocKeeps ==
    ASSUME Inv, NEW c \in Calls, NextDoc(c)
    PROVE  Inv'
<1> USE CallFacts
<1>1. CASE Reads(c, "next", Tools, Over)
  BY <1>1, OverIsGood, ReadsKeep DEF Early, Over, NotBegun
<1>2. ASSUME NEW d \in call[c].todo,
             Reads(c, "next", Tools, [call[c] EXCEPT !.step = "check", !.doc = d,
                                                     !.todo = @ \ {d}, !.place = Place])
      PROVE  Inv'
  <2> DEFINE r == [call[c] EXCEPT !.step = "check", !.doc = d,
                                  !.todo = @ \ {d}, !.place = Place]
  <2>1. call[c].step = "next"
    BY <1>2 DEF Reads
  <2>2. d \in Doc /\ d \in MaybeDoc
    BY DEF CallRecord, Doc, MaybeDoc, Maybe
  <2>3. Refers(d.id, d.file) /\ (d.after # "none" => trees >= 1)
    BY DEF RecordOK
  <2>4. r \in CallRecord
    BY <2>2, PlaceFacts DEF CallRecord
  <2>5. /\ r.step = "check" /\ r.doc = d /\ r.todo = call[c].todo \ {d} /\ r.place = Place
        /\ r.tool = call[c].tool
    BY DEF CallRecord
  <2>6. r.tool \notin {"write", "after"}
    BY <2>1, <2>5 DEF RecordOK
  <2>7. \A e \in r.todo : Refers(e.id, e.file) /\ (e.after # "none" => trees >= 1)
    BY <2>5 DEF RecordOK
  <2> HIDE DEF r
  <2>8. RecordOK(r)
    BY <2>2, <2>3, <2>5, <2>6, <2>7, PlaceFacts DEF RecordOK
  <2> QED
    BY <1>2, <2>4, <2>8, <2>5, ReadsKeep DEF Early, r
<1> QED
  BY <1>1, <1>2 DEF NextDoc

LEMMA CheckKeeps ==
    ASSUME Inv, NEW c \in Calls, CheckAccepted(c) \/ CheckRejected(c)
    PROVE  Inv'
<1> USE CallFacts
<1>1. call[c].step = "check"
  BY DEF CheckAccepted, CheckRejected, Reads
<1>2. ASSUME NEW verdict \in {"accepted", "rejected", "conflict"}, NEW tools,
             Reads(c, "check", tools, Verdict(c, verdict))
      PROVE  Inv'
  <2>1. Verdict(c, verdict) \in CallRecord
    BY DEF Verdict, CallRecord
  <2>2. RecordOK(Verdict(c, verdict))
    BY <1>1 DEF Verdict, RecordOK, CallRecord
  <2>3. Verdict(c, verdict).step = "mark"
    BY DEF Verdict, CallRecord
  <2> QED
    BY <1>2, <2>1, <2>2, <2>3, ReadsKeep DEF Early
<1>3. ASSUME call[c].doc.after # "none", NEW tools,
             Reads(c, "check", tools, [call[c] EXCEPT !.step = "restore"])
      PROVE  Inv'
  <2> DEFINE r == [call[c] EXCEPT !.step = "restore"]
  <2>1. r \in CallRecord
    BY DEF CallRecord
  <2>2. RecordOK(r)
    BY <1>1, <1>3 DEF RecordOK, CallRecord
  <2> QED
    BY <1>3, <2>1, <2>2, ReadsKeep DEF Early, CallRecord
<1>4. CASE CheckAccepted(c)
  BY <1>2, <1>4 DEF CheckAccepted
<1>5. CASE CheckRejected(c)
  BY <1>2, <1>3, <1>5 DEF CheckRejected
<1> QED
  BY <1>4, <1>5

LEMMA InsertKeeps ==
    ASSUME Inv, NEW c \in Calls, Insert(c)
    PROVE  Inv'
<1> USE CallFacts DEF Insert, treeVars, history
<1> DEFINE new == [status |-> "open", file |-> call[c].file,
                   before |-> call[c].seen, after |-> "none"]
           q == IF call[c].tool = "before" THEN Over
                ELSE [call[c] EXCEPT !.step = "write", !.seen = "none", !.doc = Ref(c)]
<1>1. /\ call[c].file \in Files /\ call[c].seen \in Texts
      /\ call[c].tool \in {"before", "write"}
  BY DEF RecordOK
<1>2. new \in Snapshot /\ new.status # "none" /\ new.file = call[c].file /\ new.after = "none"
  BY <1>1 DEF Snapshot, Maybe
<1>3. snap' = [snap EXCEPT ![c] = new]
  OBVIOUS
<1> HIDE DEF new
<1>4. snap' \in [Calls -> Snapshot \cup {NotMade}]
  BY <1>2, <1>3 DEF Inv, TypeOK
<1>5. /\ \A i \in Calls \ {c} : snap'[i] = snap[i]
      /\ snap'[c] = new
  BY <1>3 DEF Inv, TypeOK
<1>6. snap[c].status = "none"
  BY DEF Inv, FreshOK, Early
<1>7. \A i \in Calls : snap[i].status # "none" => snap'[i] = snap[i]
  BY <1>5, <1>6
<1>8. Later
  BY <1>7 DEF Later, Inv, TypeOK, Unremoved
<1>9. q \in CallRecord
  <2>1. Ref(c) \in MaybeDoc
    BY DEF Ref, NoDoc, MaybeDoc, Maybe
  <2> QED
    BY <2>1, OverIsGood DEF CallRecord, Maybe
<1>10. PICK p \in CallRecord : p = q
  BY <1>9
<1>11. RecordOK(p)' /\ p.step \notin Early
  <2>1. CASE call[c].tool = "before"
    <3>1. RecordOK(Over)'
      BY <1>8, OverIsGood, RecordStays
    <3>2. p = Over
      BY <2>1, <1>10
    <3> QED
      BY <3>1, <3>2 DEF Over, NotBegun, Early
  <2>2. CASE call[c].tool = "write"
    <3>1. p = [call[c] EXCEPT !.step = "write", !.seen = "none", !.doc = Ref(c)]
      BY <2>2, <1>10
    <3>2. /\ p.step = "write" /\ p.tool = "write" /\ p.file = call[c].file
          /\ p.place = call[c].place /\ p.todo = call[c].todo /\ p.doc = Ref(c)
      BY <2>2, <3>1 DEF CallRecord
    <3>3. Ref(c).id = c
      BY DEF Ref, NoDoc
    <3>4. Refers(p.doc.id, p.file)'
      BY <1>2, <1>5, <3>2, <3>3 DEF Refers
    <3>5. \A d \in p.todo : Refers(d.id, d.file)' /\ (d.after # "none" => trees' >= 1)
      BY <1>7, <3>2 DEF RecordOK, Refers
    <3>6. p.place = "tree" /\ trees' >= 1
      BY <2>2, <3>2 DEF RecordOK
    <3>7. trees \in Nat
      BY DEF Inv, TypeOK
    <3>8. RecordOK(p)'
      BY <1>1, <3>2, <3>4, <3>5, <3>6, <3>7 DEF RecordOK
    <3> QED
      BY <3>2, <3>8 DEF Early
  <2> QED
    BY <1>1, <2>1, <2>2
<1>12. call' = [call EXCEPT ![c] = p]
  BY <1>10
<1>13. text' \in [Places \X Files -> Texts] /\ UNCHANGED <<origin, treeVars, unique, history>>
  BY DEF Inv, TypeOK
<1>14. \A i \in Calls : i # c => (snap[i].status = "none" => snap'[i].status = "none")
  BY <1>5
<1>15. \A i \in Calls : snap'[i].after # "none" => trees >= 1
  BY <1>2, <1>5 DEF Inv, TreesOK
<1> QED
  BY <1>4, <1>8, <1>11, <1>12, <1>13, <1>14, <1>15, MoveKeeps

\* A step from a record to another one, with what it says taken over.
LEMMA TextSteps ==
    ASSUME Inv, NEW c \in Calls, WriteFile(c) \/ Restore(c)
    PROVE  Inv'
<1> USE CallFacts DEF WriteFile, Restore, treeVars, history
<1>1. Later
  BY DEF Later, Inv, TypeOK, Unremoved
<1>2. text' \in [Places \X Files -> Texts]
  <2>1. CASE WriteFile(c)
    BY <2>1 DEF Inv, TypeOK, Texts
  <2>2. CASE Restore(c)
    <3>1. call[c].doc.before \in Texts
      BY <2>2 DEF RecordOK, Doc
    <3> QED
      BY <2>2, <3>1 DEF Inv, TypeOK
  <2> QED
    BY <2>1, <2>2
<1>3. \E p \in CallRecord : /\ call' = [call EXCEPT ![c] = p]
                            /\ RecordOK(p)
                            /\ p.step \notin Early
  <2>1. CASE WriteFile(c)
    <3> DEFINE r == [call[c] EXCEPT !.step = "reread"]
    <3>1. r \in CallRecord
      BY DEF CallRecord
    <3>2. RecordOK(r)
      BY <2>1 DEF RecordOK, CallRecord
    <3>3. r.step \notin Early
      BY DEF Early, CallRecord
    <3> QED
      BY <2>1, <3>1, <3>2, <3>3
  <2>2. CASE Restore(c)
    <3>1. Verdict(c, "rejected") \in CallRecord
      BY DEF Verdict, CallRecord
    <3>2. RecordOK(Verdict(c, "rejected"))
      BY <2>2 DEF Verdict, RecordOK, CallRecord
    <3>3. Verdict(c, "rejected").step \notin Early
      BY DEF Verdict, Early, CallRecord
    <3> QED
      BY <2>2, <3>1, <3>2, <3>3
  <2> QED
    BY <2>1, <2>2
<1>4. PICK p \in CallRecord : /\ call' = [call EXCEPT ![c] = p]
                              /\ RecordOK(p)
                              /\ p.step \notin Early
  BY <1>3
<1>5. RecordOK(p)'
  BY <1>1, <1>4, RecordStays
<1>6. snap' = snap /\ UNCHANGED <<origin, treeVars, unique, history>>
  OBVIOUS
<1> QED
  BY <1>1, <1>2, <1>4, <1>5, <1>6, MoveKeeps DEF Inv, TypeOK, TreesOK

LEMMA UpdateKeeps ==
    ASSUME Inv, NEW c \in Calls, Update(c)
    PROVE  Inv'
<1> USE CallFacts DEF Update, treeVars, history
<1> DEFINE i == call[c].doc.id
           new == [snap[i] EXCEPT !.status = "open", !.after = call[c].seen]
<1>1. /\ i \in Calls /\ snap[i].status # "none" /\ call[c].seen \in Texts
      /\ trees >= 1
  BY DEF RecordOK, Refers
<1>2. snap[i] \in Snapshot
  BY <1>1, MadeFacts
<1>3. new \in Snapshot /\ new.status = "open" /\ new.file = snap[i].file
  BY <1>1, <1>2 DEF Snapshot, Maybe
<1>4. snap' = [snap EXCEPT ![i] = new]
  OBVIOUS
<1> HIDE DEF new
<1>5. snap' \in [Calls -> Snapshot \cup {NotMade}]
  BY <1>1, <1>3, <1>4 DEF Inv, TypeOK
<1>6. /\ \A k \in Calls : k # i => snap'[k] = snap[k]
      /\ snap'[i] = new
  BY <1>1, <1>4 DEF Inv, TypeOK
<1>7. Later
  BY <1>3, <1>6 DEF Later, Inv, TypeOK, Unremoved
<1>8. RecordOK(Over)'
  BY <1>7, OverIsGood, RecordStays
<1>9. Over.step \notin Early
  BY DEF Over, NotBegun, Early
<1>10. text' \in [Places \X Files -> Texts] /\ UNCHANGED <<origin, treeVars, unique, history>>
  BY DEF Inv, TypeOK
<1>11. \A k \in Calls : snap[k].status = "none" => snap'[k].status = "none"
  BY <1>1, <1>6
<1>12. call' = [call EXCEPT ![c] = Over]
  OBVIOUS
<1> QED
  BY <1>1, <1>5, <1>7, <1>8, <1>9, <1>10, <1>11, <1>12, OverIsGood, MoveKeeps

LEMMA MarkKeeps ==
    ASSUME Inv, NEW c \in Calls, MarkSnapshot(c)
    PROVE  Inv'
<1> USE CallFacts DEF MarkSnapshot, treeVars, history
<1> DEFINE i == call[c].doc.id
           new == [snap[i] EXCEPT !.status = call[c].verdict]
           r == [call[c] EXCEPT !.step = "next", !.doc = NoDoc, !.verdict = "none"]
<1>1. /\ i \in Calls /\ snap[i].status # "none"
      /\ call[c].verdict \in {"accepted", "rejected", "conflict"}
  BY DEF RecordOK, Refers, CallRecord
<1>2. snap[i] \in Snapshot
  BY <1>1, MadeFacts
<1>3. new \in Snapshot /\ new.status # "none" /\ new.file = snap[i].file
      /\ new.after = snap[i].after
  BY <1>1, <1>2 DEF Snapshot
<1>4. snap' = [snap EXCEPT ![i] = new]
  OBVIOUS
<1> HIDE DEF new
<1>5. snap' \in [Calls -> Snapshot \cup {NotMade}]
  BY <1>1, <1>3, <1>4 DEF Inv, TypeOK
<1>6. /\ \A k \in Calls : k # i => snap'[k] = snap[k]
      /\ snap'[i] = new
  BY <1>1, <1>4 DEF Inv, TypeOK
<1>7. Later
  <2>1. \A k \in Calls : snap[k].status # "none" =>
            snap'[k].status # "none" /\ snap'[k].file = snap[k].file
    BY <1>3, <1>6
  <2>2. trees \in Nat /\ trees' = trees /\ path' = path
    BY DEF Inv, TypeOK
  <2> QED
    BY <2>1, <2>2 DEF Later, Unremoved
<1>8. r \in CallRecord
  <2>1. NoDoc \in MaybeDoc
    BY DEF NoDoc, MaybeDoc, Maybe
  <2> QED
    BY <2>1 DEF CallRecord
<1>9. RecordOK(r) /\ r.step \notin Early
  BY DEF RecordOK, CallRecord, Early
<1>10. call' = [call EXCEPT ![c] = r]
  OBVIOUS
<1> HIDE DEF r
<1>11. PICK p \in CallRecord : p = r
  BY <1>8
<1>12. RecordOK(p)'
  BY <1>7, <1>9, <1>11, RecordStays
<1>13. text' \in [Places \X Files -> Texts] /\ UNCHANGED <<origin, treeVars, unique, history>>
  BY DEF Inv, TypeOK
<1>14. \A k \in Calls : snap[k].status = "none" => snap'[k].status = "none"
  BY <1>1, <1>6
<1>15. \A k \in Calls : snap'[k].after # "none" => trees >= 1
  BY <1>3, <1>6 DEF Inv, TreesOK
<1> QED
  BY <1>5, <1>7, <1>9, <1>10, <1>11, <1>12, <1>13, <1>14, <1>15, MoveKeeps

-----------------------------------------------------------------------------
(* What is not a step of a call leaves the records as they are              *)

\* Worktrees come and go, and others edit files.
Surroundings ==
    \/ InitWorktree \/ ApplyPatch \/ RemoveWorktree \/ ForgetWorktree
    \/ \E place \in Places, f \in Files : Edit(place, f)

\* They leave the invariant as it is if they change worktrees and edits as they may.
LEMMA SurroundingsLeaveCalls ==
    ASSUME Inv, UNCHANGED <<origin, unique, snap, call, raced>>,
           text' \in [Places \X Files -> Texts], base' \in [Files -> Texts],
           trees \in Nat, trees' \in Nat, trees' \in 0..MaxTrees, trees' >= trees,
           path' \in {"none", "there", "gone"}, edited' \subseteq Places \X Files,
           trees' = 0 => path' = "none", Unremoved' => Unremoved
    PROVE  Inv'
<1>4. Later
  BY DEF Later
<1>5. RecordsOK'
  <2> SUFFICES ASSUME NEW c \in Calls PROVE RecordOK(call[c])'
    BY DEF RecordsOK
  <2>1. PICK q : q = call[c]
    OBVIOUS
  <2>2. RecordOK(q)
    BY <2>1, CallFacts
  <2>3. RecordOK(q)'
    BY <1>4, <2>2, RecordStays
  <2>4. q = call'[c]
    BY <2>1
  <2> QED
    BY <2>3, <2>4
<1>6. TypeOK'
  BY DEF Inv, TypeOK
<1>7. TreesOK'
  BY DEF Inv, TreesOK
<1>8. FreshOK'
  BY DEF Inv, FreshOK
<1> QED
  BY <1>5, <1>6, <1>7, <1>8 DEF Inv

LEMMA SurroundingsKeep ==
    ASSUME Inv, Surroundings
    PROVE  Inv'
<1>1. text' \in [Places \X Files -> Texts] /\ base' \in [Files -> Texts]
  <2> USE DEF Inv, TypeOK, WithTexts, TreeOf, LiveOf
  <2>1. CASE InitWorktree
    BY <2>1 DEF InitWorktree, Places
  <2>2. CASE ApplyPatch
    BY <2>2 DEF ApplyPatch, Places
  <2>3. CASE RemoveWorktree
    BY <2>3 DEF RemoveWorktree, Texts
  <2>4. CASE ForgetWorktree
    BY <2>4 DEF ForgetWorktree
  <2>5. CASE \E place \in Places, f \in Files : Edit(place, f)
    BY <2>5 DEF Edit, Texts, treeVars
  <2> QED
    BY <2>1, <2>2, <2>3, <2>4, <2>5 DEF Surroundings
<1>2. trees \in 0..MaxTrees /\ trees \in Nat /\ MaxTrees \in Nat
  <2>1. MaxTrees \in Nat
    BY LedgerAssumption
  <2>2. trees \in 0..MaxTrees
    BY DEF Inv, TypeOK
  <2> QED
    BY <2>1, <2>2
<1>3. CASE InitWorktree
  <2>1. path = "none" /\ path' = "there" /\ trees < MaxTrees /\ trees' = trees + 1
    BY <1>3 DEF InitWorktree
  <2>2. UNCHANGED <<origin, unique, snap, call, edited, raced>>
    BY <1>3 DEF InitWorktree, history
  <2>3. trees' \in 0..MaxTrees /\ trees' >= trees /\ trees' \in Nat /\ trees' # 0
    BY <1>2, <2>1
  <2>4. Unremoved' => Unremoved
    BY <1>2, <2>1, <2>3 DEF Unremoved
  <2> QED
    BY <1>1, <1>2, <2>1, <2>2, <2>3, <2>4, SurroundingsLeaveCalls DEF Inv, TypeOK
<1>4. CASE ApplyPatch
  <2>1. path' = path /\ trees' = trees /\ UNCHANGED <<origin, unique, snap, call, edited, raced>>
    BY <1>4 DEF ApplyPatch, history
  <2> QED
    BY <1>1, <1>2, <2>1, SurroundingsLeaveCalls DEF Inv, TypeOK, TreesOK, Unremoved
<1>5. CASE RemoveWorktree
  <2>1. /\ path = "there" /\ path' = "gone" /\ trees' = trees
        /\ UNCHANGED <<origin, unique, snap, call, edited, raced>>
    BY <1>5 DEF RemoveWorktree, history
  <2>2. trees # 0
    BY <2>1 DEF Inv, TreesOK
  <2> QED
    BY <1>1, <1>2, <2>1, <2>2, SurroundingsLeaveCalls DEF Inv, TypeOK, Unremoved
<1>6. CASE ForgetWorktree
  <2>1. /\ path' = "none" /\ path = "gone" /\ trees' = trees
        /\ UNCHANGED <<origin, unique, snap, call, edited, raced>>
    BY <1>6 DEF ForgetWorktree, history
  <2> QED
    BY <1>1, <1>2, <2>1, SurroundingsLeaveCalls DEF Inv, TypeOK, TreesOK, Unremoved
<1>7. ASSUME NEW place \in Places, NEW f \in Files, Edit(place, f)
      PROVE  Inv'
  <2>1. /\ path' = path /\ trees' = trees /\ edited' = edited \cup {<<place, f>>}
        /\ UNCHANGED <<origin, unique, snap, call, raced>>
    BY <1>7 DEF Edit, treeVars
  <2>2. edited' \subseteq Places \X Files
    BY <2>1 DEF Inv, TypeOK
  <2> QED
    BY <1>1, <1>2, <2>1, <2>2, SurroundingsLeaveCalls DEF Inv, TypeOK, TreesOK, Unremoved
<1> QED
  BY <1>3, <1>4, <1>5, <1>6, <1>7 DEF Surroundings

LEMMA NextInv == Inv /\ [Next]_vars => Inv'
<1> SUFFICES ASSUME Inv, [Next]_vars PROVE Inv'
  OBVIOUS
<1>1. CASE UNCHANGED vars
  BY <1>1 DEF vars, treeVars, history, Inv, TypeOK, TreesOK, RecordsOK, FreshOK, RecordOK, Refers,
              Unremoved
<1>2. ASSUME NEW c \in Calls, NEW tool \in Tools, NEW file \in Maybe(Files),
             Begin(c, tool, file)
      PROVE  Inv'
  BY <1>2, BeginKeeps
<1>3. ASSUME NEW c \in Calls, CallStep(c) PROVE Inv'
  BY <1>3, FindOpenKeeps, FindAnyKeeps, FindAllKeeps, ReadBeforeKeeps, InsertRefusedKeeps,
     InsertKeeps, TextSteps, RereadKeeps, UpdateKeeps, NextDocKeeps, CheckKeeps, MarkKeeps
     DEF CallStep
<1> QED
  BY <1>1, <1>2, <1>3, SurroundingsKeep DEF Next, Surroundings

LEMMA Invariant == Spec => []Inv
<1> QED
  BY InitInv, NextInv, PTL DEF Spec

\* The variables of the ledger keep their types.
THEOREM TypeCorrect == Spec => []TypeOK
<1>1. Inv => TypeOK
  BY DEF Inv
<1> QED
  BY <1>1, Invariant, PTL

-----------------------------------------------------------------------------
(* The originals                                                            *)

\* A call that changes neither texts nor snapshots: what it may have read is the text.
LEMMA QuietStepKeepsOrigins ==
    ASSUME Inv, OriginsOK, NEW c \in Calls,
           UNCHANGED <<text, origin, path, trees, snap, edited>>,
           \A k \in Calls : k # c => call'[k] = call[k],
           call'[c].step = "insert" =>
               /\ call[c].step = "read"
               /\ call'[c].file = call[c].file
               /\ call'[c].seen = Text(c)
    PROVE  OriginsOK'
<1> SUFFICES ASSUME NEW f \in Files, Own(f) PROVE KeptOK(f)'
  BY DEF OriginsOK, Own
<1>1. KeptOK(f)
  BY DEF OriginsOK
<1>2. Of(f)' = Of(f) /\ LiveOf(f)' = LiveOf(f) /\ TreeOf(f)' = TreeOf(f)
  BY DEF Of, LiveOf, TreeOf
<1>3. ASSUME Of(f) = {}, NEW k \in Calls, call'[k].step = "insert", call'[k].file = f
      PROVE  call'[k].seen = origin[f]
  <2>1. CASE k # c
    BY <1>1, <1>3, <2>1 DEF KeptOK
  <2>2. CASE k = c
    <3>1. call[c].file = f /\ call[c].place \in Places /\ (trees = 0 => call[c].place = "live")
      BY <1>3, <2>2, CallFacts DEF CallRecord, RecordOK
    <3>2. call[c].place = "live" \/ (call[c].place = "tree" /\ path = "there")
      BY <3>1 DEF Own, Places
    <3>3. Text(c) = origin[f]
      BY <1>1, <1>3, <3>1, <3>2 DEF Text, KeptOK, LiveOf, TreeOf
    <3> QED
      BY <1>3, <2>2, <3>3
  <2> QED
    BY <2>1, <2>2
<1> QED
  BY <1>1, <1>2, <1>3 DEF KeptOK

\* Which calls are such steps.
LEMMA ReadsKeepOrigins ==
    ASSUME Inv, OriginsOK, NEW c \in Calls, NEW step, NEW tools, NEW r,
           Reads(c, step, tools, r),
           r.step = "insert" =>
               call[c].step = "read" /\ r.file = call[c].file /\ r.seen = Text(c)
    PROVE  OriginsOK'
<1>1. call'[c] = r /\ \A k \in Calls : k # c => call'[k] = call[k]
  BY DEF Reads, Inv, TypeOK
<1>2. UNCHANGED <<text, origin, path, trees, snap, edited>>
  BY DEF Reads, treeVars, history
<1> QED
  BY <1>1, <1>2, QuietStepKeepsOrigins

LEMMA QuietStepsKeepOrigins ==
    ASSUME Inv, OriginsOK, NEW c \in Calls,
           \/ FindOpen(c) \/ FindAny(c) \/ FindAll(c) \/ ReadBefore(c) \/ InsertRefused(c)
           \/ Reread(c) \/ NextDoc(c) \/ CheckAccepted(c) \/ CheckRejected(c)
    PROVE  OriginsOK'
<1> USE CallFacts DEF CallRecord
<1>1. CASE FindOpen(c)
  <2>1. ASSUME NEW i, Reads(c, "find", {"write"}, [call[c] EXCEPT !.step = "write", !.doc = Ref(i)])
        PROVE  OriginsOK'
    BY <2>1, ReadsKeepOrigins
  <2>2. ASSUME Reads(c, "find", {"write"}, [call[c] EXCEPT !.step = "read"])
        PROVE  OriginsOK'
    BY <2>2, ReadsKeepOrigins
  <2> QED
    BY <1>1, <2>1, <2>2 DEF FindOpen
<1>2. Over.step = "done"
  BY DEF Over, NotBegun
<1>3. ASSUME NEW step, NEW tools, Reads(c, step, tools, Over)
      PROVE  OriginsOK'
  BY <1>2, <1>3, ReadsKeepOrigins
<1>4. CASE FindAny(c)
  <2>1. ASSUME Reads(c, "find", {"before"}, [call[c] EXCEPT !.step = "read"])
        PROVE  OriginsOK'
    BY <2>1, ReadsKeepOrigins
  <2>2. ASSUME NEW i, Reads(c, "find", {"after"}, [call[c] EXCEPT !.step = "reread", !.doc = Ref(i)])
        PROVE  OriginsOK'
    BY <2>2, ReadsKeepOrigins
  <2>3. ASSUME NEW i, Reads(c, "find", {"reject", "accept"},
                            [call[c] EXCEPT !.step = "next", !.todo = {DocOf(i)}])
        PROVE  OriginsOK'
    BY <2>3, ReadsKeepOrigins
  <2> QED
    BY <1>3, <1>4, <2>1, <2>2, <2>3 DEF FindAny
<1>5. CASE FindAll(c)
  BY <1>5, ReadsKeepOrigins DEF FindAll
<1>6. CASE ReadBefore(c)
  <2>1. call[c].step = "read"
    BY <1>6 DEF ReadBefore, Reads
  <2> DEFINE r == [call[c] EXCEPT !.step = "insert", !.seen = Text(c)]
  <2>2. r.file = call[c].file /\ r.seen = Text(c)
    OBVIOUS
  <2> QED
    BY <1>6, <2>1, <2>2, ReadsKeepOrigins DEF ReadBefore
<1>7. CASE InsertRefused(c)
  BY <1>3, <1>7 DEF InsertRefused
<1>8. CASE Reread(c)
  BY <1>8, ReadsKeepOrigins DEF Reread
<1>9. CASE NextDoc(c)
  <2>1. ASSUME NEW d, Reads(c, "next", Tools, [call[c] EXCEPT !.step = "check", !.doc = d,
                                                              !.todo = @ \ {d}, !.place = Place])
        PROVE  OriginsOK'
    BY <2>1, ReadsKeepOrigins
  <2> QED
    BY <1>3, <1>9, <2>1 DEF NextDoc
<1>10. CASE CheckAccepted(c) \/ CheckRejected(c)
  <2>1. ASSUME NEW tools, NEW verdict, Reads(c, "check", tools, Verdict(c, verdict))
        PROVE  OriginsOK'
    <3>1. Verdict(c, verdict).step = "mark"
      BY DEF Verdict
    <3> QED
      BY <2>1, <3>1, ReadsKeepOrigins
  <2>2. ASSUME NEW tools, Reads(c, "check", tools, [call[c] EXCEPT !.step = "restore"])
        PROVE  OriginsOK'
    BY <2>2, ReadsKeepOrigins
  <2> QED
    BY <1>10, <2>1, <2>2 DEF CheckAccepted, CheckRejected
<1> QED
  BY <1>1, <1>4, <1>5, <1>6, <1>7, <1>8, <1>9, <1>10

LEMMA BeginKeepsOrigins ==
    ASSUME Inv, OriginsOK, NEW c \in Calls, NEW tool, NEW file, Begin(c, tool, file)
    PROVE  OriginsOK'
<1>1. /\ \A k \in Calls : k # c => call'[k] = call[k]
      /\ call'[c].step # "insert"
      /\ UNCHANGED <<text, origin, path, trees, snap, edited>>
  BY DEF Begin, Starts, NotBegun, treeVars, Inv, TypeOK
<1> QED
  BY <1>1, QuietStepKeepsOrigins

\* What is written is a file with a snapshot.
LEMMA TextStepsKeepOrigins ==
    ASSUME Inv, OriginsOK, NEW c \in Calls, WriteFile(c) \/ Restore(c)
    PROVE  OriginsOK'
<1> SUFFICES ASSUME NEW f \in Files, Own(f) PROVE KeptOK(f)'
  BY DEF OriginsOK, Own, WriteFile, Restore, treeVars, history
<1>1. KeptOK(f)
  BY DEF OriginsOK
<1> DEFINE g == IF call[c].step = "write" THEN call[c].file ELSE call[c].doc.file
<1>2. /\ Of(g) # {}
      /\ \E t : text' = [text EXCEPT ![<<call[c].place, g>>] = t]
  BY CallFacts DEF WriteFile, Restore, RecordOK, Refers, Of
<1>3. UNCHANGED <<origin, path, trees, snap>>
  BY DEF WriteFile, Restore, treeVars
<1>4. \A k \in Calls : call'[k].step = "insert" => call'[k] = call[k]
  <2>1. call[c] \in CallRecord /\ call \in [Calls -> CallRecord]
    BY CallFacts DEF Inv, TypeOK
  <2>2. CASE WriteFile(c)
    <3>1. call' = [call EXCEPT ![c].step = "reread"]
      BY <2>2 DEF WriteFile
    <3> QED
      BY <2>1, <3>1 DEF CallRecord
  <2>3. CASE Restore(c)
    <3>1. call' = [call EXCEPT ![c] = Verdict(c, "rejected")]
      BY <2>3 DEF Restore
    <3>2. Verdict(c, "rejected").step = "mark"
      BY <2>1 DEF Verdict, CallRecord
    <3> QED
      BY <2>1, <3>1, <3>2
  <2> QED
    BY <2>2, <2>3
<1>5. Of(f)' = Of(f)
  BY <1>3 DEF Of
<1>6. CASE Of(f) # {}
  BY <1>1, <1>3, <1>5, <1>6 DEF KeptOK
<1>7. CASE Of(f) = {}
  <2>1. f # g
    BY <1>2, <1>7
  <2>2. LiveOf(f)' = LiveOf(f) /\ TreeOf(f)' = TreeOf(f)
    BY <1>2, <2>1 DEF LiveOf, TreeOf, Inv, TypeOK, Places
  <2> QED
    BY <1>1, <1>3, <1>4, <1>5, <1>7, <2>2 DEF KeptOK
<1> QED
  BY <1>6, <1>7

\* Neither a completed snapshot nor a marked one has another text before.
LEMMA SnapStepsKeepOrigins ==
    ASSUME Inv, OriginsOK, NEW c \in Calls, Update(c) \/ MarkSnapshot(c)
    PROVE  OriginsOK'
<1> SUFFICES ASSUME NEW f \in Files, Own(f) PROVE KeptOK(f)'
  BY DEF OriginsOK, Own, Update, MarkSnapshot, treeVars, history
<1>1. KeptOK(f)
  BY DEF OriginsOK
<1> DEFINE i == call[c].doc.id
<1>2. i \in Calls /\ snap[i].status # "none"
  BY CallFacts DEF Update, MarkSnapshot, RecordOK, Refers
<1>3. snap[i] \in Snapshot
  BY <1>2, MadeFacts
<1>4. /\ \A k \in Calls : k # i => snap'[k] = snap[k]
      /\ snap'[i].status # "none" /\ snap'[i].file = snap[i].file
      /\ snap'[i].before = snap[i].before
  <2>1. CASE Update(c)
    <3>1. snap' = [snap EXCEPT ![i] = [@ EXCEPT !.status = "open", !.after = call[c].seen]]
      BY <2>1 DEF Update
    <3> QED
      BY <1>2, <1>3, <3>1 DEF Snapshot, Inv, TypeOK
  <2>2. CASE MarkSnapshot(c)
    <3>1. snap' = [snap EXCEPT ![i].status = call[c].verdict]
      BY <2>2 DEF MarkSnapshot
    <3>2. call[c].verdict # "none"
      BY <2>2, CallFacts DEF MarkSnapshot, RecordOK
    <3> QED
      BY <1>2, <1>3, <3>1, <3>2 DEF Snapshot, Inv, TypeOK
  <2> QED
    BY <2>1, <2>2
<1>5. UNCHANGED <<text, origin, path, trees>>
  BY DEF Update, MarkSnapshot, treeVars
<1>6. \A k \in Calls : call'[k].step = "insert" => call'[k] = call[k]
  <2>1. call[c] \in CallRecord /\ call \in [Calls -> CallRecord]
    BY CallFacts DEF Inv, TypeOK
  <2>2. CASE Update(c)
    <3>1. call' = [call EXCEPT ![c] = Over] /\ Over.step = "done"
      BY <2>2 DEF Update, Over, NotBegun
    <3> QED
      BY <2>1, <3>1
  <2>3. CASE MarkSnapshot(c)
    <3>1. call' = [call EXCEPT ![c] = [@ EXCEPT !.step = "next", !.doc = NoDoc,
                                                !.verdict = "none"]]
      BY <2>3 DEF MarkSnapshot
    <3> QED
      BY <2>1, <3>1 DEF CallRecord
  <2> QED
    BY <2>2, <2>3
<1>7. Of(f)' = Of(f)
  BY <1>2, <1>4 DEF Of
<1>8. \A k \in Of(f) : snap'[k].before = snap[k].before
  BY <1>4 DEF Of
<1> QED
  BY <1>1, <1>5, <1>6, <1>7, <1>8 DEF KeptOK, LiveOf, TreeOf

\* The first snapshot of a file has what the file was.
LEMMA InsertKeepsOrigins ==
    ASSUME Inv, OriginsOK, NEW c \in Calls, Insert(c)
    PROVE  OriginsOK'
<1> SUFFICES ASSUME NEW f \in Files, Own(f) PROVE KeptOK(f)'
  BY DEF OriginsOK, Own, Insert, treeVars, history
<1>1. KeptOK(f)
  BY DEF OriginsOK
<1>2. snap[c].status = "none" /\ call[c].step = "insert"
  BY DEF Inv, FreshOK, Early, Insert
<1>3. /\ \A k \in Calls : k # c => snap'[k] = snap[k]
      /\ snap'[c].status # "none" /\ snap'[c].file = call[c].file
      /\ snap'[c].before = call[c].seen
  BY DEF Insert, Inv, TypeOK
<1>4. UNCHANGED <<text, origin, path, trees>>
  BY DEF Insert, treeVars
<1>5. \A k \in Calls : call'[k].step = "insert" => call'[k] = call[k]
  BY CallFacts DEF Insert, Over, NotBegun, Inv, TypeOK, CallRecord
<1>6. Of(f)' = IF f = call[c].file THEN Of(f) \cup {c} ELSE Of(f)
  BY <1>2, <1>3 DEF Of
<1>7. \A k \in Of(f) : snap'[k] = snap[k]
  BY <1>2, <1>3 DEF Of
<1>8. CASE Of(f)' = {}
  BY <1>1, <1>4, <1>5, <1>6, <1>8 DEF KeptOK, LiveOf, TreeOf
<1>9. CASE Of(f) # {}
  BY <1>1, <1>4, <1>6, <1>7, <1>9 DEF KeptOK
<1>10. CASE Of(f) = {} /\ Of(f)' # {}
  <2>1. f = call[c].file /\ c \in Of(f)'
    BY <1>6, <1>10
  <2>2. call[c].seen = origin[f]
    BY <1>1, <1>2, <1>10, <2>1 DEF KeptOK
  <2> QED
    BY <1>3, <1>4, <1>10, <2>1, <2>2 DEF KeptOK
<1> QED
  BY <1>8, <1>9, <1>10

\* A new worktree has the files as they were; a merge leaves what nobody wrote.
LEMMA SurroundingsKeepOrigins ==
    ASSUME Inv, OriginsOK, Surroundings
    PROVE  OriginsOK'
<1> SUFFICES ASSUME NEW f \in Files, Own(f)' PROVE KeptOK(f)'
  BY DEF OriginsOK
<1>1. UNCHANGED <<origin, snap, call>>
  BY DEF Surroundings, InitWorktree, ApplyPatch, RemoveWorktree, ForgetWorktree, Edit
<1>2. Of(f)' = Of(f)
  BY <1>1 DEF Of
<1>3. trees \in Nat /\ (trees = 0 => path = "none")
  BY DEF Inv, TypeOK, TreesOK
<1>4. Own(f)
  <2>1. \A place \in Places : <<place, f>> \notin edited
    BY DEF Own, Surroundings, InitWorktree, ApplyPatch, RemoveWorktree, ForgetWorktree, Edit,
           history
  <2>2. trees = 0 \/ (trees = 1 /\ path = "there")
    <3>1. trees' = 0 \/ (trees' = 1 /\ path' = "there")
      BY DEF Own
    <3>2. CASE InitWorktree
      BY <1>3, <3>1, <3>2 DEF InitWorktree
    <3>3. CASE ApplyPatch
      BY <3>1, <3>3 DEF ApplyPatch
    <3>4. CASE RemoveWorktree
      BY <1>3, <3>1, <3>4 DEF RemoveWorktree
    <3>5. CASE ForgetWorktree
      BY <1>3, <3>1, <3>5 DEF ForgetWorktree
    <3>6. CASE \E place \in Places, g \in Files : Edit(place, g)
      BY <3>1, <3>6 DEF Edit, treeVars
    <3> QED
      BY <3>2, <3>3, <3>4, <3>5, <3>6 DEF Surroundings
  <2> QED
    BY <2>1, <2>2 DEF Own
<1>5. KeptOK(f)
  BY <1>4 DEF OriginsOK
<1>6. CASE Of(f) # {}
  BY <1>1, <1>2, <1>5, <1>6 DEF KeptOK
<1>7. ASSUME Of(f) = {}
      PROVE  LiveOf(f)' = origin[f] /\ (path' = "there" => TreeOf(f)' = origin[f])
  <2>1. LiveOf(f) = origin[f] /\ (path = "there" => TreeOf(f) = origin[f])
    BY <1>5, <1>7 DEF KeptOK
  <2> USE DEF LiveOf, TreeOf, WithTexts, Places
  <2>2. CASE InitWorktree
    BY <2>1, <2>2 DEF InitWorktree
  <2>3. CASE ApplyPatch
    BY <2>1, <2>3 DEF ApplyPatch
  <2>4. CASE RemoveWorktree
    BY <2>1, <2>4 DEF RemoveWorktree
  <2>5. CASE ForgetWorktree
    BY <2>1, <2>5 DEF ForgetWorktree
  <2>6. ASSUME NEW place \in Places, NEW g \in Files, Edit(place, g)
        PROVE  LiveOf(f)' = origin[f] /\ (path' = "there" => TreeOf(f)' = origin[f])
    <3>1. g # f
      BY <2>6 DEF Edit, Own
    <3> QED
      BY <2>1, <2>6, <3>1 DEF Edit, treeVars, Inv, TypeOK
  <2> QED
    BY <2>2, <2>3, <2>4, <2>5, <2>6 DEF Surroundings
<1> QED
  BY <1>1, <1>2, <1>5, <1>6, <1>7 DEF KeptOK

LEMMA NextOrigins == Inv /\ OriginsOK /\ [Next]_vars => OriginsOK'
<1> SUFFICES ASSUME Inv, OriginsOK, [Next]_vars PROVE OriginsOK'
  OBVIOUS
<1>1. CASE UNCHANGED vars
  BY <1>1 DEF vars, treeVars, history, OriginsOK, Own, KeptOK, Of, LiveOf, TreeOf
<1>2. ASSUME NEW c \in Calls, NEW tool \in Tools, NEW file \in Maybe(Files),
             Begin(c, tool, file)
      PROVE  OriginsOK'
  BY <1>2, BeginKeepsOrigins
<1>3. ASSUME NEW c \in Calls, CallStep(c) PROVE OriginsOK'
  BY <1>3, QuietStepsKeepOrigins, TextStepsKeepOrigins, SnapStepsKeepOrigins,
     InsertKeepsOrigins DEF CallStep
<1> QED
  BY <1>1, <1>2, <1>3, SurroundingsKeepOrigins DEF Next, Surroundings

LEMMA InitOrigins == Init => OriginsOK
<1> SUFFICES ASSUME Init, NEW f \in Files PROVE KeptOK(f)
  BY DEF OriginsOK
<1>1. Of(f) = {}
  BY DEF Init, Of, NotMade
<1>2. LiveOf(f) = origin[f] /\ path = "none"
  BY DEF Init, LiveOf, Places
<1>3. \A c \in Calls : call[c].step # "insert"
  BY DEF Init, NotBegun
<1> QED
  BY <1>1, <1>2, <1>3 DEF KeptOK

\* Whatever subtasks write, accept, undo or leave unfinished side by side, the text a
\* file of the task had can be had again.
THEOREM OriginalsStay == Spec => []OriginalKept
<1>1. Inv /\ OriginsOK => OriginalKept
  <2> SUFFICES ASSUME OriginsOK, NEW f \in Files, trees = 1, path = "there",
                      \A place \in Places : <<place, f>> \notin edited
               PROVE  TreeOf(f) = origin[f] \/ \E i \in Of(f) : snap[i].before = origin[f]
    BY DEF OriginalKept
  <2>1. KeptOK(f)
    BY DEF OriginsOK, Own
  <2> QED
    BY <2>1 DEF KeptOK
<1> QED
  BY <1>1, InitOrigins, NextOrigins, Invariant, PTL DEF Spec

-----------------------------------------------------------------------------
(* The work that is accounted for                                           *)

\* An agent's text that the branch does not have.
Dirty(f) == path = "there" /\ TreeOf(f) \in Calls \ {base[f]}

AtFile(c, f) == AtWork(c) /\ Affects(call[c].file, f)

\* A rejection beside a write or another rejection is a race, at each of their steps.
RacesOK ==
    \A f \in Files : \A c, d \in Calls :
        (/\ c # d /\ AtFile(c, f) /\ AtFile(d, f)
         /\ call[c].tool \in Rejecting
         /\ call[d].tool \in Rejecting \cup {"write"})
        => f \in raced

\* What a call holds of a snapshot is of a file it is about, with the text before.
Holds(r) == {d \in r.todo \cup {r.doc} : d \in r.todo \/ r.step \in {"check", "restore", "mark"}}
HoldsOK(r) == \A d \in Holds(r) : d.before = snap[d.id].before /\ Affects(r.file, d.file)
HoldingsOK == \A c \in Calls : HoldsOK(call[c])

FilesOK == \A c \in Calls : call[c].tool \in All => call[c].file = "none"

\* With the index: whoever makes a file's first snapshot has read no agent's text.
PlainAt(f) ==
    /\ Plain(f)
    /\ Of(f) = {} =>
        /\ LiveOf(f) \notin Calls /\ TreeOf(f) \notin Calls
        /\ \A c \in Calls :
            call[c].step = "insert" /\ call[c].file = f => call[c].seen \notin Calls
PlainOK == unique => \A f \in Files : PlainAt(f)

\* A rejection looks where the agents write, and a file it has undone is undone.
Undoing(r, f) ==
    /\ r.step \in {"check", "restore"} /\ Dirty(f) => r.place = "tree"
    /\ r.step = "mark" /\ r.verdict = "rejected" /\ r.doc.after # "none" => ~Dirty(f)
Undoes(r) == r.step = "restore" \/ (r.step = "mark" /\ r.verdict = "rejected")
UndoOK(r) ==
    /\ Undoes(r) => r.tool \in Rejecting
    /\ r.tool \in Rejecting =>
        \A f \in Files : f = r.doc.file /\ f \notin raced /\ Plain(f) => Undoing(r, f)
UndoingsOK == \A c \in Calls : UndoOK(call[c])

\* The rejections that would reject snapshot j without looking at the file.
Blind(r, j) ==
    /\ r.step \notin {"idle", "done"} /\ r.tool \in Rejecting
    /\ \E d \in Holds(r) : d.after = "none" /\ d.id = j

\* A snapshot that tells of the file and that no rejection at work takes back unseen.
Accounts(j) ==
    /\ snap[j].status # "rejected" /\ snap[j].after # "none"
    /\ \A c \in Calls : ~Blind(call[c], j)

WritesOn(r, f) == r.tool = "write" /\ r.file = f /\ r.step \in {"reread", "update"}

Accounted(f) == WritesOn(call[TreeOf(f)], f) \/ \E j \in Of(f) : Accounts(j)
AccountsOK == \A f \in Files : f \notin raced /\ Plain(f) /\ Dirty(f) => Accounted(f)

WorkInv == FilesOK /\ RacesOK /\ HoldingsOK /\ UndoingsOK /\ PlainOK /\ AccountsOK

\* What a step of a call leaves as it was.
LEMMA StepShape ==
    ASSUME Inv, NEW c \in Calls, CallStep(c)
    PROVE  /\ AtWork(c)
           /\ \A k \in Calls : k # c => call'[k] = call[k]
           /\ \/ call'[c] = Over
              \/ call'[c].tool = call[c].tool /\ call'[c].file = call[c].file
           /\ UNCHANGED <<base, path, trees, raced, unique>>
<1> USE DEF treeVars, history, AtWork
<1>1. call \in [Calls -> CallRecord] /\ call[c] \in CallRecord
  BY CallFacts DEF Inv, TypeOK
<1> USE <1>1
<1> DEFINE Shape == /\ call[c].step \notin {"idle", "done"}
                    /\ \A k \in Calls : k # c => call'[k] = call[k]
                    /\ \/ call'[c] = Over
                       \/ call'[c].tool = call[c].tool /\ call'[c].file = call[c].file
                    /\ UNCHANGED <<base, path, trees, raced, unique>>
<1>2. ASSUME NEW step, NEW tools, NEW r, Reads(c, step, tools, r), step \notin {"idle", "done"},
             r = Over \/ (r.tool = call[c].tool /\ r.file = call[c].file)
      PROVE  Shape
  BY <1>2 DEF Reads
<1>3. CASE FindOpen(c)
  <2>1. ASSUME NEW i, Reads(c, "find", {"write"}, [call[c] EXCEPT !.step = "write", !.doc = Ref(i)])
        PROVE  Shape
    <3> DEFINE r == [call[c] EXCEPT !.step = "write", !.doc = Ref(i)]
    <3>1. r.tool = call[c].tool /\ r.file = call[c].file
      BY DEF CallRecord
    <3>2. Reads(c, "find", {"write"}, r)
      BY <2>1
    <3> HIDE DEF r
    <3> QED
      BY <1>2, <3>1, <3>2
  <2>2. ASSUME Reads(c, "find", {"write"}, [call[c] EXCEPT !.step = "read"])
        PROVE  Shape
    BY <1>2, <2>2 DEF CallRecord
  <2> QED
    BY <1>3, <2>1, <2>2 DEF FindOpen
<1>4. CASE FindAny(c)
  <2>1. ASSUME Reads(c, "find", {"before"}, [call[c] EXCEPT !.step = "read"])
        PROVE  Shape
    BY <1>2, <2>1 DEF CallRecord
  <2>2. ASSUME NEW i, Reads(c, "find", {"after"}, [call[c] EXCEPT !.step = "reread", !.doc = Ref(i)])
        PROVE  Shape
    <3> DEFINE r == [call[c] EXCEPT !.step = "reread", !.doc = Ref(i)]
    <3>1. r.tool = call[c].tool /\ r.file = call[c].file
      BY DEF CallRecord
    <3>2. Reads(c, "find", {"after"}, r)
      BY <2>2
    <3> HIDE DEF r
    <3> QED
      BY <1>2, <3>1, <3>2
  <2>3. ASSUME NEW i, Reads(c, "find", {"reject", "accept"},
                            [call[c] EXCEPT !.step = "next", !.todo = {DocOf(i)}])
        PROVE  Shape
    <3> DEFINE r == [call[c] EXCEPT !.step = "next", !.todo = {DocOf(i)}]
    <3>1. r.tool = call[c].tool /\ r.file = call[c].file
      BY DEF CallRecord
    <3>2. Reads(c, "find", {"reject", "accept"}, r)
      BY <2>3
    <3> HIDE DEF r
    <3> QED
      BY <1>2, <3>1, <3>2
  <2>4. ASSUME NEW tools, Reads(c, "find", tools, Over) PROVE Shape
    BY <1>2, <2>4
  <2> QED
    BY <1>4, <2>1, <2>2, <2>3, <2>4 DEF FindAny
<1>5. CASE FindAll(c)
  <2> DEFINE r == [call[c] EXCEPT !.step = "next", !.todo = {DocOf(i) : i \in OpenOnes}]
  <2>1. r.tool = call[c].tool /\ r.file = call[c].file
    BY DEF CallRecord
  <2>2. Reads(c, "find", All, r)
    BY <1>5 DEF FindAll
  <2> HIDE DEF r
  <2> QED
    BY <1>2, <2>1, <2>2
<1>6. CASE ReadBefore(c) \/ Reread(c)
  <2>1. ASSUME NEW t, NEW s, NEW u,
               Reads(c, s, Tools, [call[c] EXCEPT !.step = t, !.seen = u]), s \in {"read", "reread"}
        PROVE  Shape
    BY <1>2, <2>1 DEF CallRecord
  <2> QED
    BY <1>6, <2>1 DEF ReadBefore, Reread
<1>7. CASE InsertRefused(c)
  BY <1>2, <1>7 DEF InsertRefused
<1>8. CASE Insert(c)
  BY <1>8 DEF Insert, CallRecord
<1>9. CASE WriteFile(c)
  BY <1>9 DEF WriteFile, CallRecord
<1>10. CASE Update(c)
  BY <1>10 DEF Update
<1>11. CASE NextDoc(c)
  <2>1. ASSUME NEW d, Reads(c, "next", Tools, [call[c] EXCEPT !.step = "check", !.doc = d,
                                                              !.todo = @ \ {d}, !.place = Place])
        PROVE  Shape
    <3> DEFINE r == [call[c] EXCEPT !.step = "check", !.doc = d, !.todo = @ \ {d}, !.place = Place]
    <3>1. r.tool = call[c].tool /\ r.file = call[c].file
      BY DEF CallRecord
    <3>2. Reads(c, "next", Tools, r)
      BY <2>1
    <3> HIDE DEF r
    <3> QED
      BY <1>2, <3>1, <3>2
  <2>2. ASSUME Reads(c, "next", Tools, Over) PROVE Shape
    BY <1>2, <2>2
  <2> QED
    BY <1>11, <2>1, <2>2 DEF NextDoc
<1>12. \A v : Verdict(c, v).tool = call[c].tool /\ Verdict(c, v).file = call[c].file
  BY DEF Verdict, CallRecord
<1>13. CASE CheckAccepted(c) \/ CheckRejected(c)
  <2>1. ASSUME NEW tools, NEW v, Reads(c, "check", tools, Verdict(c, v)) PROVE Shape
    BY <1>2, <1>12, <2>1
  <2>2. ASSUME NEW tools, Reads(c, "check", tools, [call[c] EXCEPT !.step = "restore"])
        PROVE  Shape
    BY <1>2, <2>2 DEF CallRecord
  <2> QED
    BY <1>13, <2>1, <2>2 DEF CheckAccepted, CheckRejected
<1>14. CASE Restore(c)
  BY <1>12, <1>14 DEF Restore
<1>15. CASE MarkSnapshot(c)
  BY <1>15 DEF MarkSnapshot, CallRecord
<1>16. Shape
  BY <1>3, <1>4, <1>5, <1>6, <1>7, <1>8, <1>9, <1>10, <1>11, <1>13, <1>14, <1>15 DEF CallStep
<1> QED
  BY <1>16

\* Which calls are at work on a file changes only when one begins or ends.
LEMMA RacesStay ==
    ASSUME Inv, RacesOK, [Next]_vars
    PROVE  RacesOK'
<1>1. raced \subseteq raced'
  <2>1. ASSUME NEW c \in Calls, CallStep(c) PROVE raced' = raced
    BY <2>1, StepShape
  <2> QED
    BY <2>1 DEF Next, vars, history, Begin, Starts, InitWorktree, ApplyPatch, RemoveWorktree,
       ForgetWorktree, Edit
<1>2. ASSUME NEW c \in Calls, NEW tool, NEW file, Begin(c, tool, file)
      PROVE  RacesOK'
  <2>1. /\ \A k \in Calls : k # c => call'[k] = call[k]
        /\ call'[c].tool = tool /\ call'[c].file = file
        /\ \A f \in Files : Meets(tool, file, f) => f \in raced'
    BY <1>2 DEF Begin, Starts, NotBegun, Inv, TypeOK
  <2> SUFFICES ASSUME NEW f \in Files, NEW k \in Calls, NEW d \in Calls,
                      k # d, AtFile(k, f)', AtFile(d, f)', call'[k].tool \in Rejecting,
                      call'[d].tool \in Rejecting \cup {"write"}
               PROVE  f \in raced'
    BY DEF RacesOK
  <2>2. CASE k # c /\ d # c
    BY <1>1, <2>1, <2>2 DEF RacesOK, AtFile, AtWork
  <2>3. CASE k = c
    <3>1. call'[d] = call[d] /\ AtWork(d) /\ Affects(call[d].file, f) /\ Affects(file, f)
      BY <2>1, <2>3 DEF AtFile, AtWork
    <3> QED
      BY <2>1, <2>3, <3>1 DEF Meets
  <2>4. CASE d = c
    <3>1. call'[k] = call[k] /\ AtWork(k) /\ Affects(call[k].file, f) /\ Affects(file, f)
      BY <2>1, <2>4 DEF AtFile, AtWork
    <3> QED
      BY <2>1, <2>4, <3>1 DEF Meets
  <2> QED
    BY <2>2, <2>3, <2>4
<1>3. ASSUME \A k \in Calls : AtWork(k)' =>
                 AtWork(k) /\ call'[k].tool = call[k].tool /\ call'[k].file = call[k].file
      PROVE  RacesOK'
  BY <1>1, <1>3 DEF RacesOK, AtFile
<1>4. ASSUME NEW c \in Calls, CallStep(c) PROVE RacesOK'
  BY <1>3, <1>4, StepShape DEF AtWork, Over, NotBegun
<1>5. ASSUME UNCHANGED call PROVE RacesOK'
  BY <1>3, <1>5 DEF AtWork
<1> QED
  BY <1>2, <1>4, <1>5 DEF Next, vars, InitWorktree, ApplyPatch, RemoveWorktree, ForgetWorktree,
     Edit

Quiet(c) ==
    \/ FindOpen(c) \/ FindAny(c) \/ FindAll(c) \/ ReadBefore(c) \/ InsertRefused(c)
    \/ Reread(c) \/ NextDoc(c) \/ CheckAccepted(c) \/ CheckRejected(c)

\* How record r comes from record q when a call only reads.
ReadFrom(q, r, t) ==
    /\ r.step = "insert" => q.step = "read" /\ r.file = q.file /\ r.seen = t
    /\ \A d \in Holds(r) :
        \/ d \in Holds(q)
        \/ \E i \in Calls :
            snap[i].status # "none" /\ d = DocOf(i) /\ Affects(q.file, d.file)
    /\ \A f \in Files : WritesOn(q, f) => WritesOn(r, f)
    /\ r.step = "check" => r.place = Place
    /\ r.step = "restore" =>
        q.step = "check" /\ q.doc = r.doc /\ q.place = r.place /\ q.tool \in Rejecting
    /\ r.step = "mark" /\ r.verdict = "rejected" => r.doc.after = "none" /\ q.tool \in Rejecting

LEMMA OverFrom ==
    ASSUME NEW q, q.step \notin {"reread", "update"}, NEW t
    PROVE  ReadFrom(q, Over, t)
<1>1. Over.step = "done" /\ Over.todo = {}
  BY DEF Over, NotBegun
<1>2. Holds(Over) = {}
  BY <1>1 DEF Holds
<1> QED
  BY <1>1, <1>2 DEF ReadFrom, WritesOn

\* A step that goes on to no step of this kind and holds no more than before.
LEMMA GoesOn ==
    ASSUME NEW q, NEW r, NEW t, q.step \notin {"reread", "update"},
           r.step \notin {"insert", "check", "restore", "mark"}, r.todo = q.todo
    PROVE  ReadFrom(q, r, t)
BY DEF ReadFrom, Holds, WritesOn

LEMMA FindsFrom ==
    ASSUME Inv, FilesOK, NEW c \in Calls, FindOpen(c) \/ FindAny(c) \/ FindAll(c)
    PROVE  ReadFrom(call[c], call'[c], Text(c))
<1> DEFINE q == call[c]
<1>1. q \in CallRecord /\ q.step = "find" /\ call \in [Calls -> CallRecord]
  BY CallFacts DEF FindOpen, FindAny, FindAll, Reads, Inv, TypeOK
<1> DEFINE Good(r) == ReadFrom(q, r, Text(c))
<1>2. ASSUME NEW tools, NEW r, Reads(c, "find", tools, r), Good(r) PROVE Good(call'[c])
  <2>1. call'[c] = r
    BY <1>1, <1>2 DEF Reads
  <2> QED
    BY <1>2, <2>1
<1>3. ASSUME NEW tools, NEW s \in {"write", "read", "reread"}, NEW d,
             Reads(c, "find", tools, [q EXCEPT !.step = s, !.doc = d])
      PROVE  Good(call'[c])
  <2> DEFINE r == [q EXCEPT !.step = s, !.doc = d]
  <2>1. r.step = s /\ r.todo = q.todo
    BY <1>1 DEF CallRecord
  <2>2. Reads(c, "find", tools, r)
    BY <1>3
  <2> HIDE DEF r
  <2>3. Good(r)
    BY <1>1, <2>1, GoesOn
  <2> HIDE DEF Good
  <2> QED
    BY <1>2, <2>2, <2>3
<1>4. ASSUME NEW tools, Reads(c, "find", tools, [q EXCEPT !.step = "read"])
      PROVE  Good(call'[c])
  <2> DEFINE r == [q EXCEPT !.step = "read"]
  <2>1. r.step = "read" /\ r.todo = q.todo
    BY <1>1 DEF CallRecord
  <2>2. Reads(c, "find", tools, r)
    BY <1>4
  <2> HIDE DEF r
  <2>3. Good(r)
    BY <1>1, <2>1, GoesOn
  <2> HIDE DEF Good
  <2> QED
    BY <1>2, <2>2, <2>3
<1>5. ASSUME NEW tools, Reads(c, "find", tools, Over) PROVE Good(call'[c])
  <2>1. Good(Over)
    BY <1>1, OverFrom
  <2> HIDE DEF Good
  <2> QED
    BY <1>2, <1>5, <2>1
<1>6. ASSUME NEW tools, NEW I \in SUBSET Calls,
             \A i \in I : snap[i].status # "none" /\ Affects(q.file, snap[i].file),
             Reads(c, "find", tools, [q EXCEPT !.step = "next", !.todo = {DocOf(i) : i \in I}])
      PROVE  Good(call'[c])
  <2> DEFINE r == [q EXCEPT !.step = "next", !.todo = {DocOf(i) : i \in I}]
  <2>1. r.step = "next" /\ r.todo = {DocOf(i) : i \in I}
    BY <1>1 DEF CallRecord
  <2>2. Reads(c, "find", tools, r)
    BY <1>6
  <2> HIDE DEF r
  <2>3. \A d \in Holds(r) : d \in {DocOf(i) : i \in I}
    BY <2>1 DEF Holds
  <2>4. \A i \in I : DocOf(i).file = snap[i].file
    BY DEF DocOf
  <2>5. \A d \in Holds(r) :
            \E i \in Calls : snap[i].status # "none" /\ d = DocOf(i) /\ Affects(q.file, d.file)
    BY <1>6, <2>3, <2>4
  <2>6. ReadFrom(q, r, Text(c))
    BY <1>1, <2>1, <2>5 DEF ReadFrom, WritesOn
  <2> HIDE DEF Good, q
  <2> QED
    BY <1>2, <2>2, <2>6 DEF Good
<1>7. CASE FindOpen(c)
  BY <1>3, <1>4, <1>7 DEF FindOpen
<1>8. CASE FindAny(c)
  <2>1. ASSUME NEW i \in Of(q.file),
               Reads(c, "find", {"reject", "accept"}, [q EXCEPT !.step = "next", !.todo = {DocOf(i)}])
        PROVE  Good(call'[c])
    <3>1. {i} \in SUBSET Calls /\ \A k \in {i} : snap[k].status # "none"
                                                 /\ Affects(q.file, snap[k].file)
      BY <2>1 DEF Of, Affects
    <3>2. {DocOf(i)} = {DocOf(k) : k \in {i}}
      OBVIOUS
    <3>3. Reads(c, "find", {"reject", "accept"},
                [q EXCEPT !.step = "next", !.todo = {DocOf(k) : k \in {i}}])
      BY <2>1, <3>2
    <3> HIDE DEF q, Good
    <3> QED
      BY <1>6, <3>1, <3>3
  <2> QED
    BY <1>3, <1>4, <1>5, <1>8, <2>1 DEF FindAny
<1>9. CASE FindAll(c)
  <2>1. q.file = "none"
    BY <1>9 DEF FindAll, Reads, FilesOK
  <2>2. OpenOnes \in SUBSET Calls /\ \A i \in OpenOnes : snap[i].status # "none"
    BY DEF OpenOnes
  <2>3. \A i \in OpenOnes : Affects(q.file, snap[i].file)
    BY <2>1 DEF Affects
  <2>4. Reads(c, "find", All, [q EXCEPT !.step = "next", !.todo = {DocOf(i) : i \in OpenOnes}])
    BY <1>9 DEF FindAll
  <2>5. Good(call'[c])
    <3> HIDE DEF q, Good
    <3> QED
      BY <1>6, <2>2, <2>3, <2>4
  <2> QED
    BY <2>5
<1> QED
  BY <1>7, <1>8, <1>9 DEF Good

LEMMA ChecksFrom ==
    ASSUME Inv, NEW c \in Calls, CheckAccepted(c) \/ CheckRejected(c)
    PROVE  ReadFrom(call[c], call'[c], Text(c))
<1> DEFINE q == call[c]
<1>1. q \in CallRecord /\ q.step = "check" /\ call \in [Calls -> CallRecord]
  BY CallFacts DEF CheckAccepted, CheckRejected, Reads, Inv, TypeOK
<1>2. ASSUME NEW tools, NEW v, Reads(c, "check", tools, Verdict(c, v)),
             v = "rejected" => q.doc.after = "none" /\ q.tool \in Rejecting
      PROVE  ReadFrom(q, call'[c], Text(c))
  <2> DEFINE r == Verdict(c, v)
  <2>1. /\ call'[c] = r /\ r.step = "mark" /\ r.verdict = v /\ r.doc = q.doc
        /\ r.todo = q.todo
    BY <1>1, <1>2 DEF Reads, Verdict, CallRecord
  <2> HIDE DEF r
  <2>2. Holds(r) = Holds(q)
    BY <1>1, <2>1 DEF Holds
  <2> QED
    BY <1>1, <1>2, <2>1, <2>2 DEF ReadFrom, WritesOn
<1>3. ASSUME Reads(c, "check", Rejecting, [q EXCEPT !.step = "restore"])
      PROVE  ReadFrom(q, call'[c], Text(c))
  <2> DEFINE r == [q EXCEPT !.step = "restore"]
  <2>1. /\ call'[c] = r /\ r.step = "restore" /\ r.doc = q.doc /\ r.todo = q.todo
        /\ r.place = q.place /\ q.tool \in Rejecting
    BY <1>1, <1>3 DEF Reads, CallRecord
  <2> HIDE DEF r
  <2>2. Holds(r) = Holds(q)
    BY <1>1, <2>1 DEF Holds
  <2> QED
    BY <1>1, <2>1, <2>2 DEF ReadFrom, WritesOn
<1>4. CASE CheckAccepted(c)
  <2> DEFINE v == IF q.doc.after \in {"none", Checked(c)} THEN "accepted" ELSE "conflict"
  <2>1. v # "rejected" /\ Reads(c, "check", {"accept", "acceptAll"}, Verdict(c, v))
    BY <1>4 DEF CheckAccepted
  <2> HIDE DEF v, q
  <2> QED
    BY <1>2, <2>1 DEF q
<1>5. CASE CheckRejected(c)
  <2>1. q.tool \in Rejecting
    BY <1>5 DEF CheckRejected, Reads
  <2>2. CASE q.doc.after = "none"
    <3>1. Reads(c, "check", Rejecting, Verdict(c, "rejected"))
      BY <1>5, <2>2 DEF CheckRejected
    <3> QED
      BY <1>2, <2>1, <2>2, <3>1
  <2>3. CASE q.doc.after # "none" /\ q.doc.after # Checked(c)
    <3>1. Reads(c, "check", Rejecting, Verdict(c, "conflict"))
      BY <1>5, <2>3 DEF CheckRejected
    <3> QED
      BY <1>2, <3>1
  <2>4. CASE q.doc.after # "none" /\ q.doc.after = Checked(c)
    <3>1. Reads(c, "check", Rejecting, [q EXCEPT !.step = "restore"])
      BY <1>5, <2>4 DEF CheckRejected
    <3> QED
      BY <1>3, <3>1
  <2> QED
    BY <2>2, <2>3, <2>4
<1> QED
  BY <1>4, <1>5

LEMMA QuietsFrom ==
    ASSUME Inv, FilesOK, NEW c \in Calls, Quiet(c)
    PROVE  /\ ReadFrom(call[c], call'[c], Text(c))
           /\ UNCHANGED <<text, origin, base, path, trees, unique, snap, raced>>
<1> DEFINE q == call[c]
           Good(r) == ReadFrom(q, r, Text(c))
<1>1. q \in CallRecord /\ call \in [Calls -> CallRecord]
  BY CallFacts DEF Inv, TypeOK
<1>2. UNCHANGED <<text, origin, base, path, trees, unique, snap, raced>>
  BY DEF Quiet, FindOpen, FindAny, FindAll, ReadBefore, InsertRefused, Reread, NextDoc,
     CheckAccepted, CheckRejected, Reads, treeVars, history
<1> SUFFICES Good(call'[c])
  BY <1>2
<1>3. ASSUME NEW step, NEW tools, Reads(c, step, tools, Over), step \notin {"reread", "update"}
      PROVE  Good(call'[c])
  <2>1. q.step = step /\ call'[c] = Over
    BY <1>1, <1>3 DEF Reads
  <2> QED
    BY <1>3, <2>1, OverFrom
<1>4. CASE ReadBefore(c) \/ Reread(c)
  <2> PICK s \in {"insert", "update"} :
         Reads(c, IF s = "insert" THEN "read" ELSE "reread", Tools,
               [q EXCEPT !.step = s, !.seen = Text(c)])
    BY <1>4 DEF ReadBefore, Reread
  <2> DEFINE r == [q EXCEPT !.step = s, !.seen = Text(c)]
  <2>1. /\ r.step = s /\ r.seen = Text(c) /\ r.file = q.file /\ r.todo = q.todo
        /\ r.tool = q.tool
    BY <1>1 DEF CallRecord
  <2>2. call'[c] = r /\ q.step = (IF s = "insert" THEN "read" ELSE "reread")
    BY <1>1 DEF Reads
  <2> HIDE DEF r
  <2>3. Holds(r) \subseteq Holds(q)
    BY <2>1 DEF Holds
  <2> QED
    BY <2>1, <2>2, <2>3 DEF ReadFrom, WritesOn
<1>5. CASE InsertRefused(c)
  BY <1>3, <1>5 DEF InsertRefused
<1>6. CASE NextDoc(c)
  <2>1. ASSUME NEW d \in q.todo,
               Reads(c, "next", Tools, [q EXCEPT !.step = "check", !.doc = d,
                                                 !.todo = @ \ {d}, !.place = Place])
        PROVE  Good(call'[c])
    <3> DEFINE r == [q EXCEPT !.step = "check", !.doc = d, !.todo = @ \ {d}, !.place = Place]
    <3>1. /\ r.step = "check" /\ r.doc = d /\ r.todo = q.todo \ {d} /\ r.place = Place
      BY <1>1 DEF CallRecord
    <3>2. call'[c] = r /\ q.step = "next"
      BY <1>1, <2>1 DEF Reads
    <3> HIDE DEF r
    <3>3. Holds(r) \subseteq Holds(q)
      BY <2>1, <3>1 DEF Holds
    <3> QED
      BY <3>1, <3>2, <3>3 DEF ReadFrom, WritesOn
  <2>2. ASSUME Reads(c, "next", Tools, Over) PROVE Good(call'[c])
    BY <1>3, <2>2
  <2> HIDE DEF Good
  <2> QED
    BY <1>6, <2>1, <2>2 DEF NextDoc
<1>7. Good(call'[c])
  BY <1>4, <1>5, <1>6, FindsFrom, ChecksFrom DEF Quiet
<1> QED
  BY <1>7

\* What is held of a snapshot that was made stays true: neither its file nor the text
\* before it is written again.
LEMMA SnapsStay ==
    ASSUME Inv, [Next]_vars
    PROVE  \A i \in Calls : snap[i].status # "none" =>
               /\ snap'[i].status # "none" /\ snap'[i].file = snap[i].file
               /\ snap'[i].before = snap[i].before
               /\ snap[i].after # "none" => snap'[i].after # "none"
<1> DEFINE Stay == \A i \in Calls : snap[i].status # "none" =>
               /\ snap'[i].status # "none" /\ snap'[i].file = snap[i].file
               /\ snap'[i].before = snap[i].before
               /\ snap[i].after # "none" => snap'[i].after # "none"
<1>1. ASSUME UNCHANGED snap PROVE Stay
  BY <1>1
<1>2. ASSUME NEW c \in Calls, Insert(c) PROVE Stay
  BY <1>2 DEF Insert, Inv, TypeOK, FreshOK, Early
<1>3. ASSUME NEW c \in Calls, Update(c) \/ MarkSnapshot(c) PROVE Stay
  <2> DEFINE i == call[c].doc.id
  <2>1. i \in Calls /\ snap[i].status # "none" /\ call[c] \in CallRecord
    BY <1>3, CallFacts DEF Update, MarkSnapshot, RecordOK, Refers
  <2>2. snap[i] \in Snapshot
    BY <2>1, MadeFacts
  <2>3. CASE Update(c)
    <3>1. snap' = [snap EXCEPT ![i] = [@ EXCEPT !.status = "open", !.after = call[c].seen]]
      BY <2>3 DEF Update
    <3>2. call[c].seen # "none"
      BY <2>3, CallFacts, LedgerAssumption DEF Update, RecordOK, Texts
    <3> QED
      BY <2>1, <2>2, <3>1, <3>2 DEF Snapshot, Inv, TypeOK
  <2>4. CASE MarkSnapshot(c)
    <3>1. snap' = [snap EXCEPT ![i].status = call[c].verdict]
      BY <2>4 DEF MarkSnapshot
    <3>2. call[c].verdict # "none"
      BY <2>4, CallFacts DEF MarkSnapshot, RecordOK
    <3> QED
      BY <2>1, <2>2, <3>1, <3>2 DEF Snapshot, Inv, TypeOK
  <2> QED
    BY <1>3, <2>3, <2>4
<1>4. ASSUME NEW c \in Calls, CallStep(c) PROVE Stay
  BY <1>1, <1>2, <1>3, <1>4 DEF CallStep, FindOpen, FindAny, FindAll, ReadBefore, InsertRefused,
     WriteFile, Reread, NextDoc, CheckAccepted, CheckRejected, Restore, Reads
<1>5. Stay
  <2> HIDE DEF Stay
  <2> QED
    BY <1>1, <1>4 DEF Next, vars, Begin, Starts, InitWorktree, ApplyPatch, RemoveWorktree,
       ForgetWorktree, Edit
<1> QED
  BY <1>5

\* What a call holds: only what it held, or what it has just read.
LEMMA StepHolds ==
    ASSUME Inv, FilesOK, NEW c \in Calls, CallStep(c)
    PROVE  \A d \in Holds(call'[c]) :
               \/ d \in Holds(call[c])
               \/ \E i \in Calls :
                    snap[i].status # "none" /\ d = DocOf(i) /\ Affects(call[c].file, d.file)
<1>1. call[c] \in CallRecord /\ call \in [Calls -> CallRecord]
  BY CallFacts DEF Inv, TypeOK
<1>2. Holds(Over) = {}
  BY DEF Over, NotBegun, Holds
<1>3. CASE Quiet(c)
  BY <1>3, QuietsFrom DEF ReadFrom
<1>4. CASE Insert(c)
  <2>1. call'[c] = Over \/ (call'[c].step = "write" /\ call'[c].todo = call[c].todo)
    <3> DEFINE r == [call[c] EXCEPT !.step = "write", !.seen = "none", !.doc = Ref(c)]
    <3>1. r.step = "write" /\ r.todo = call[c].todo
      BY <1>1 DEF CallRecord
    <3>2. call'[c] = Over \/ call'[c] = r
      BY <1>1, <1>4 DEF Insert
    <3> HIDE DEF r
    <3> QED
      BY <3>1, <3>2
  <2> QED
    BY <1>2, <2>1 DEF Holds
<1>5. CASE WriteFile(c)
  <2>1. call'[c].step = "reread" /\ call'[c].todo = call[c].todo
    BY <1>1, <1>5 DEF WriteFile, CallRecord
  <2> QED
    BY <2>1 DEF Holds
<1>6. CASE Update(c)
  BY <1>1, <1>2, <1>6 DEF Update
<1>7. CASE Restore(c)
  <2>1. call'[c].todo = call[c].todo /\ call'[c].doc = call[c].doc /\ call[c].step = "restore"
    BY <1>1, <1>7 DEF Restore, Verdict, CallRecord
  <2> QED
    BY <2>1 DEF Holds
<1>8. CASE MarkSnapshot(c)
  <2>1. call'[c].step = "next" /\ call'[c].todo = call[c].todo
    BY <1>1, <1>8 DEF MarkSnapshot, CallRecord
  <2> QED
    BY <2>1 DEF Holds
<1> QED
  BY <1>3, <1>4, <1>5, <1>6, <1>7, <1>8 DEF CallStep, Quiet

\* What a call holds is of a snapshot that was made.
LEMMA HeldIsMade ==
    ASSUME Inv, NEW c \in Calls, NEW d \in Holds(call[c])
    PROVE  d.id \in Calls /\ snap[d.id].status # "none" /\ snap[d.id].file = d.file
BY CallFacts DEF Holds, RecordOK, Refers

LEMMA HoldingsStay ==
    ASSUME Inv, FilesOK, HoldingsOK, [Next]_vars
    PROVE  FilesOK' /\ HoldingsOK'
<1>1. ASSUME NEW c \in Calls, HoldsOK(call[c]) PROVE HoldsOK(call[c])'  \/ call'[c] # call[c]
  <2> SUFFICES ASSUME call'[c] = call[c], NEW d \in Holds(call[c])
               PROVE  d.before = snap'[d.id].before /\ Affects(call[c].file, d.file)
    BY DEF HoldsOK, Holds
  <2> QED
    BY <1>1, HeldIsMade, SnapsStay DEF HoldsOK
<1>2. ASSUME NEW c \in Calls, NEW tool \in Tools, NEW file, Begin(c, tool, file)
      PROVE  FilesOK' /\ HoldingsOK'
  <2>1. /\ \A k \in Calls : k # c => call'[k] = call[k]
        /\ call'[c].step = "find" /\ call'[c].todo = {}
        /\ call'[c].tool = tool /\ call'[c].file = file
        /\ file = "none" <=> tool \in All
    BY <1>2 DEF Begin, Starts, NotBegun, Inv, TypeOK
  <2>2. HoldsOK(call[c])'
    BY <2>1 DEF HoldsOK, Holds
  <2> QED
    BY <1>1, <2>1, <2>2 DEF FilesOK, HoldingsOK
<1>3. ASSUME NEW c \in Calls, CallStep(c) PROVE FilesOK' /\ HoldingsOK'
  <2>1. /\ \A k \in Calls : k # c => call'[k] = call[k]
        /\ \/ call'[c] = Over
           \/ call'[c].tool = call[c].tool /\ call'[c].file = call[c].file
    BY <1>3, StepShape
  <2>2. Over.tool = "none" /\ Over.file = "none"
    BY DEF Over, NotBegun
  <2>3. FilesOK'
    BY <2>1, <2>2 DEF FilesOK, All
  <2>4. ASSUME NEW d \in Holds(call'[c])
        PROVE  d.before = snap'[d.id].before /\ Affects(call'[c].file, d.file)
    <3>1. Affects(call'[c].file, d.file) \/ ~Affects(call[c].file, d.file)
      BY <2>1, <2>2 DEF Affects
    <3>2. CASE d \in Holds(call[c])
      BY <3>1, <3>2, HeldIsMade, SnapsStay DEF HoldingsOK, HoldsOK
    <3>3. CASE d \notin Holds(call[c])
      <4> PICK i \in Calls : snap[i].status # "none" /\ d = DocOf(i) /\ Affects(call[c].file, d.file)
        BY <1>3, <3>3, StepHolds
      <4> QED
        BY <3>1, SnapsStay DEF DocOf
    <3> QED
      BY <3>2, <3>3
  <2>5. HoldsOK(call[c])'
    BY <2>4 DEF HoldsOK, Holds
  <2> QED
    BY <1>1, <2>1, <2>3, <2>5 DEF HoldingsOK
<1>4. ASSUME UNCHANGED call PROVE FilesOK' /\ HoldingsOK'
  BY <1>1, <1>4 DEF FilesOK, HoldingsOK
<1> QED
  BY <1>2, <1>3, <1>4 DEF Next, vars, InitWorktree, ApplyPatch, RemoveWorktree, ForgetWorktree, Edit

\* Snapshots of a file are added, never taken away.
LEMMA PlainBefore ==
    ASSUME Inv, [Next]_vars, NEW f
    PROVE  Of(f) \subseteq Of(f)' /\ (Plain(f)' => Plain(f))
<1>1. Of(f) \subseteq Of(f)'
  BY SnapsStay DEF Of
<1> QED
  BY <1>1, SnapsStay DEF Plain, Of

\* The texts of a file in both places change by these steps only.
LEMMA TextsChange ==
    ASSUME Inv, [Next]_vars, NEW f \in Files, ~UNCHANGED <<LiveOf(f), TreeOf(f)>>
    PROVE  Surroundings \/ \E c \in Calls : WriteFile(c) \/ Restore(c)
<1> SUFFICES ASSUME UNCHANGED text PROVE FALSE
  BY DEF Next, vars, Surroundings, CallStep, FindOpen, FindAny, FindAll, ReadBefore, InsertRefused,
     Insert, Reread, Update, NextDoc, CheckAccepted, CheckRejected, MarkSnapshot, Reads, Begin, Starts
<1> QED
  BY DEF LiveOf, TreeOf

\* What writing or restoring text t of file g does to the texts.
Written(c, g, t) ==
    /\ Of(g) # {}
    /\ WriteFile(c) => g = call[c].file /\ t = c /\ call[c].place = "tree"
    /\ Restore(c) => g = call[c].doc.file /\ t = call[c].doc.before
    /\ \A f \in Files : f # g => LiveOf(f)' = LiveOf(f) /\ TreeOf(f)' = TreeOf(f)
    /\ call[c].place = "tree" => TreeOf(g)' = t /\ LiveOf(g)' = LiveOf(g)
    /\ call[c].place = "live" => TreeOf(g)' = TreeOf(g) /\ LiveOf(g)' = t
    /\ call[c].place \in Places

LEMMA TextWritten ==
    ASSUME Inv, NEW c \in Calls, WriteFile(c) \/ Restore(c)
    PROVE  \E g \in Files, t \in Texts : Written(c, g, t)
<1>1. call[c] \in CallRecord /\ RecordOK(call[c])
  BY CallFacts
<1>2. PICK g \in Files, t \in Texts :
         /\ Of(g) # {}
         /\ text' = [text EXCEPT ![<<call[c].place, g>>] = t]
         /\ WriteFile(c) => g = call[c].file /\ t = c /\ call[c].place = "tree"
         /\ Restore(c) => g = call[c].doc.file /\ t = call[c].doc.before
  <2>1. CASE WriteFile(c)
    <3>1. call[c].file \in Files /\ Of(call[c].file) # {} /\ c \in Texts /\ call[c].place = "tree"
      BY <1>1, <2>1 DEF WriteFile, RecordOK, Refers, Of, Texts
    <3>2. ~Restore(c)
      BY <2>1 DEF WriteFile, Restore
    <3> QED
      BY <2>1, <3>1, <3>2 DEF WriteFile
  <2>2. CASE Restore(c)
    <3>1. call[c].doc.file \in Files /\ Of(call[c].doc.file) # {} /\ call[c].doc.before \in Texts
      BY <1>1, <2>2 DEF Restore, RecordOK, Refers, Of, Doc
    <3>2. ~WriteFile(c)
      BY <2>2 DEF WriteFile, Restore
    <3> QED
      BY <2>2, <3>1, <3>2 DEF Restore
  <2> QED
    BY <2>1, <2>2
<1>3. text' = [text EXCEPT ![<<call[c].place, g>>] = t]
  BY <1>2
<1>4. call[c].place \in Places
  BY <1>1 DEF CallRecord
<1>5. /\ \A f \in Files : f # g => LiveOf(f)' = LiveOf(f) /\ TreeOf(f)' = TreeOf(f)
      /\ call[c].place = "tree" => TreeOf(g)' = t /\ LiveOf(g)' = LiveOf(g)
      /\ call[c].place = "live" => TreeOf(g)' = TreeOf(g) /\ LiveOf(g)' = t
  <2>1. DOMAIN text = Places \X Files
    BY DEF Inv, TypeOK
  <2>2. \A f \in Files : <<"live", f>> \in DOMAIN text /\ <<"tree", f>> \in DOMAIN text
    BY <2>1 DEF Places
  <2>3. CASE call[c].place = "live"
    <3>1. text' = [text EXCEPT ![<<"live", g>>] = t]
      BY <1>3, <2>3
    <3>2. ASSUME NEW f \in Files
          PROVE  /\ text'[<<"live", f>>] = IF f = g THEN t ELSE text[<<"live", f>>]
                 /\ text'[<<"tree", f>>] = text[<<"tree", f>>]
      BY <2>2, <3>1
    <3> QED
      BY <1>2, <2>3, <3>2 DEF LiveOf, TreeOf
  <2>4. CASE call[c].place = "tree"
    <3>1. text' = [text EXCEPT ![<<"tree", g>>] = t]
      BY <1>3, <2>4
    <3>2. ASSUME NEW f \in Files
          PROVE  /\ text'[<<"live", f>>] = text[<<"live", f>>]
                 /\ text'[<<"tree", f>>] = IF f = g THEN t ELSE text[<<"tree", f>>]
      BY <2>2, <3>1
    <3> QED
      BY <1>2, <2>4, <3>2 DEF LiveOf, TreeOf
  <2> QED
    BY <1>4, <2>3, <2>4 DEF Places
<1> QED
  BY <1>2, <1>4, <1>5 DEF Written

\* What the surroundings do to the texts: they are copied, removed or edited.
LEMMA SurroundingTexts ==
    ASSUME Inv, Surroundings, NEW f \in Files
    PROVE  /\ UNCHANGED <<snap, call, raced, unique>>
           /\ TreeOf(f)' \in {TreeOf(f), LiveOf(f), "missing", "tree edit"}
           /\ LiveOf(f)' \in {TreeOf(f), LiveOf(f), "live edit"}
           /\ path' = "there" =>
                \/ TreeOf(f)' \in {base'[f], "tree edit"}
                \/ path = "there" /\ TreeOf(f)' = TreeOf(f) /\ base'[f] = base[f]
<1>1. UNCHANGED <<snap, call, raced, unique>>
  BY DEF Surroundings, InitWorktree, ApplyPatch, RemoveWorktree, ForgetWorktree, Edit,
         treeVars, history
<1> DEFINE Goal == /\ TreeOf(f)' \in {TreeOf(f), LiveOf(f), "missing", "tree edit"}
                   /\ LiveOf(f)' \in {TreeOf(f), LiveOf(f), "live edit"}
                   /\ path' = "there" =>
                        \/ TreeOf(f)' \in {base'[f], "tree edit"}
                        \/ path = "there" /\ TreeOf(f)' = TreeOf(f) /\ base'[f] = base[f]
<1> SUFFICES Goal
  BY <1>1
<1>2. CASE InitWorktree
  BY <1>2 DEF InitWorktree, LiveOf, TreeOf, WithTexts, Places
<1>3. CASE ApplyPatch
  BY <1>3 DEF ApplyPatch, LiveOf, TreeOf, WithTexts, Places
<1>4. CASE RemoveWorktree
  BY <1>4 DEF RemoveWorktree, LiveOf, TreeOf, WithTexts, Places
<1>5. CASE ForgetWorktree
  BY <1>5 DEF ForgetWorktree, LiveOf, TreeOf
<1>6. ASSUME NEW place \in Places, NEW g \in Files, Edit(place, g)
      PROVE  Goal
  <2>1. text' = [text EXCEPT ![<<place, g>>] =
                    IF place = "live" THEN "live edit" ELSE "tree edit"]
    BY <1>6 DEF Edit
  <2>2. UNCHANGED <<path, base>> /\ (place = "tree" => path = "there")
    BY <1>6 DEF Edit, treeVars
  <2>3. CASE place = "live"
    BY <2>1, <2>2, <2>3 DEF LiveOf, TreeOf, Inv, TypeOK, Places
  <2>4. CASE place = "tree"
    BY <2>1, <2>2, <2>4 DEF LiveOf, TreeOf, Inv, TypeOK, Places
  <2> QED
    BY <2>3, <2>4 DEF Places
<1> QED
  BY <1>2, <1>3, <1>4, <1>5, <1>6 DEF Surroundings

\* A text that is a call's is dirty after the surroundings' step only if it was before.
LEMMA SurroundingsClean ==
    ASSUME Inv, Surroundings, NEW f \in Files, Dirty(f)'
    PROVE  Dirty(f) /\ TreeOf(f)' = TreeOf(f)
<1>1. "tree edit" \notin Calls
  BY LedgerAssumption
<1> QED
  BY <1>1, SurroundingTexts DEF Dirty

\* With the index no snapshot holds an agent's text.
LEMMA PlainStays ==
    ASSUME Inv, FilesOK, PlainOK, [Next]_vars
    PROVE  PlainOK'
<1>1. unique' = unique
  BY DEF Next, vars, CallStep, FindOpen, FindAny, FindAll, ReadBefore, InsertRefused,
     Insert, WriteFile, Restore, Reread, Update, NextDoc, CheckAccepted, CheckRejected, MarkSnapshot,
     Reads, Begin, Starts, InitWorktree, ApplyPatch, RemoveWorktree, ForgetWorktree, Edit
<1> SUFFICES ASSUME unique, NEW f \in Files PROVE PlainAt(f)'
  BY <1>1 DEF PlainOK
<1>2. PlainAt(f)
  BY DEF PlainOK
<1>3. Of(f) \subseteq Of(f)'
  BY PlainBefore
<1>4. Plain(f)'
  <2>1. ASSUME NEW c \in Calls, Insert(c) PROVE Plain(f)'
    <3>1. /\ \A k \in Calls : k # c => snap'[k] = snap[k]
          /\ snap'[c].file = call[c].file /\ snap'[c].before = call[c].seen
          /\ Of(call[c].file) = {} /\ call[c].step = "insert"
      BY <2>1 DEF Insert, Inv, TypeOK
    <3>2. f = call[c].file => snap'[c].before \notin Calls
      BY <1>2, <3>1 DEF PlainAt
    <3> QED
      BY <1>2, <3>1, <3>2 DEF PlainAt, Plain, Of
  <2>2. ASSUME ~\E c \in Calls : Insert(c) PROVE Of(f)' = Of(f)
    <3>1. CASE UNCHANGED snap
      BY <3>1 DEF Of
    <3>2. ASSUME NEW c \in Calls, Update(c) \/ MarkSnapshot(c) PROVE Of(f)' = Of(f)
      <4>1. call[c].doc.id \in Calls /\ snap[call[c].doc.id].status # "none"
        BY <3>2, CallFacts DEF Update, MarkSnapshot, RecordOK, Refers
      <4>2. \A k \in Calls : k # call[c].doc.id => snap'[k] = snap[k]
        BY <3>2 DEF Update, MarkSnapshot, Inv, TypeOK
      <4> QED
        BY <4>1, <4>2, SnapsStay DEF Of
    <3> QED
      BY <2>2, <3>1, <3>2 DEF Next, vars, CallStep, FindOpen, FindAny, FindAll, ReadBefore,
         InsertRefused, WriteFile, Restore, Reread, NextDoc, CheckAccepted, CheckRejected,
         Reads, Begin, Starts, InitWorktree, ApplyPatch, RemoveWorktree, ForgetWorktree, Edit
  <2>3. ASSUME Of(f)' = Of(f) PROVE Plain(f)'
    BY <1>2, <2>3, SnapsStay DEF PlainAt, Plain, Of
  <2> QED
    BY <2>1, <2>2, <2>3
<1> SUFFICES ASSUME Of(f)' = {}
             PROVE  /\ LiveOf(f)' \notin Calls /\ TreeOf(f)' \notin Calls
                    /\ \A k \in Calls :
                        call'[k].step = "insert" /\ call'[k].file = f => call'[k].seen \notin Calls
  BY <1>4 DEF PlainAt
<1>5. /\ Of(f) = {} /\ LiveOf(f) \notin Calls /\ TreeOf(f) \notin Calls
      /\ \A k \in Calls :
          call[k].step = "insert" /\ call[k].file = f => call[k].seen \notin Calls
  BY <1>2, <1>3 DEF PlainAt
<1>6. LiveOf(f)' \notin Calls /\ TreeOf(f)' \notin Calls
  <2>1. CASE UNCHANGED <<LiveOf(f), TreeOf(f)>>
    BY <1>5, <2>1
  <2>2. CASE Surroundings
    BY <1>5, <2>2, SurroundingTexts, LedgerAssumption
  <2>3. ASSUME NEW c \in Calls, WriteFile(c) \/ Restore(c)
        PROVE  LiveOf(f)' \notin Calls /\ TreeOf(f)' \notin Calls
    <3> PICK g \in Files, t \in Texts : Written(c, g, t)
      BY <2>3, TextWritten
    <3> QED
      BY <1>5 DEF Written
  <2> QED
    BY <2>1, <2>2, <2>3, TextsChange
<1>7. ASSUME NEW c \in Calls, CallStep(c), NEW k \in Calls,
             call'[k].step = "insert", call'[k].file = f
      PROVE  call'[k].seen \notin Calls
  <2>1. \A m \in Calls : m # c => call'[m] = call[m]
    BY <1>7, StepShape
  <2>2. CASE k # c
    BY <1>5, <1>7, <2>1, <2>2
  <2>3. CASE k = c /\ Quiet(c)
    <3>1. call[c].file = f /\ call'[c].seen = Text(c)
      BY <1>7, <2>3, QuietsFrom DEF ReadFrom
    <3>2. Text(c) = LiveOf(f) \/ Text(c) = TreeOf(f)
      BY <3>1, CallFacts DEF Text, LiveOf, TreeOf, CallRecord, Places
    <3> QED
      BY <1>5, <2>3, <3>1, <3>2
  <2>4. CASE k = c /\ ~Quiet(c)
    <3>1. call[c] \in CallRecord /\ call \in [Calls -> CallRecord]
      BY CallFacts DEF Inv, TypeOK
    <3>2. Over.step # "insert" /\ Verdict(c, "rejected").step # "insert"
      BY <3>1 DEF Over, NotBegun, Verdict, CallRecord
    <3>3. Insert(c) => call'[c].step # "insert"
      <4> DEFINE r == [call[c] EXCEPT !.step = "write", !.seen = "none", !.doc = Ref(c)]
      <4>1. r.step = "write"
        BY <3>1 DEF CallRecord
      <4>2. Insert(c) => call'[c] = Over \/ call'[c] = r
        BY <3>1 DEF Insert
      <4> HIDE DEF r
      <4> QED
        BY <3>2, <4>1, <4>2
    <3>4. WriteFile(c) \/ MarkSnapshot(c) => call'[c].step # "insert"
      BY <3>1 DEF WriteFile, MarkSnapshot, CallRecord
    <3>5. Update(c) \/ Restore(c) => call'[c].step # "insert"
      BY <3>1, <3>2 DEF Update, Restore
    <3>6. call'[c].step # "insert"
      BY <1>7, <2>4, <3>3, <3>4, <3>5 DEF CallStep, Quiet
    <3> QED
      BY <1>7, <2>4, <3>6
  <2> QED
    BY <2>2, <2>3, <2>4
<1>8. ASSUME NEW c \in Calls, NEW tool, NEW file, Begin(c, tool, file), NEW k \in Calls,
             call'[k].step = "insert", call'[k].file = f
      PROVE  call'[k].seen \notin Calls
  <2>1. (\A m \in Calls : m # c => call'[m] = call[m]) /\ call'[c].step = "find"
    BY <1>8 DEF Begin, Starts, NotBegun, Inv, TypeOK
  <2> QED
    BY <1>5, <1>8, <2>1
<1> QED
  BY <1>5, <1>6, <1>7, <1>8 DEF Next, vars, InitWorktree, ApplyPatch, RemoveWorktree,
     ForgetWorktree, Edit

\* A text becomes an agent's only by its write.
LEMMA DirtyComes ==
    ASSUME Inv, HoldingsOK, [Next]_vars, NEW f \in Files, Plain(f)', Dirty(f)'
    PROVE  \/ Dirty(f) /\ TreeOf(f)' = TreeOf(f)
           \/ \E c \in Calls : WriteFile(c) /\ call[c].file = f /\ TreeOf(f)' = c
<1>1. ASSUME UNCHANGED <<path, base>>, TreeOf(f)' = TreeOf(f) PROVE Dirty(f)
  BY <1>1 DEF Dirty
<1>2. CASE Surroundings
  BY <1>2, SurroundingsClean
<1>3. ASSUME NEW c \in Calls, CallStep(c)
      PROVE  \/ Dirty(f) /\ TreeOf(f)' = TreeOf(f)
             \/ WriteFile(c) /\ call[c].file = f /\ TreeOf(f)' = c
  <2>1. UNCHANGED <<path, base>>
    BY <1>3, StepShape
  <2>2. CASE UNCHANGED text
    BY <1>1, <2>1, <2>2 DEF TreeOf
  <2>3. CASE WriteFile(c) \/ Restore(c)
    <3> PICK g \in Files, t \in Texts : Written(c, g, t)
      BY <2>3, TextWritten
    <3> USE DEF Written
    <3>1. CASE f # g \/ call[c].place = "live"
      BY <1>1, <2>1, <3>1
    <3>2. CASE f = g /\ call[c].place = "tree" /\ WriteFile(c)
      BY <3>2
    <3>3. CASE f = g /\ call[c].place = "tree" /\ Restore(c)
      <4>1. /\ call[c].doc.id \in Of(f)
            /\ call[c].doc.before = snap[call[c].doc.id].before
        BY <3>3, HeldIsMade DEF Restore, Holds, HoldingsOK, HoldsOK, Of
      <4>2. Plain(f)
        BY PlainBefore
      <4> QED
        BY <3>3, <4>1, <4>2 DEF Plain, Dirty
    <3> QED
      BY <2>3, <3>1, <3>2, <3>3 DEF Places
  <2> QED
    BY <1>3, <2>2, <2>3 DEF CallStep, FindOpen, FindAny, FindAll, ReadBefore, InsertRefused,
       Insert, Reread, Update, NextDoc, CheckAccepted, CheckRejected, MarkSnapshot, Reads
<1>4. ASSUME UNCHANGED <<path, base, text>> PROVE Dirty(f) /\ TreeOf(f)' = TreeOf(f)
  BY <1>1, <1>4 DEF TreeOf
<1> QED
  BY <1>2, <1>3, <1>4 DEF Next, vars, treeVars, Surroundings, Begin, Starts

\* A write of a file and a rejection that holds a snapshot of it are a race.
LEMMA WriterRaces ==
    ASSUME Inv, WorkInv, NEW f \in Files, NEW c \in Calls, NEW k \in Calls,
           AtWork(c), call[c].tool = "write", call[c].file = f,
           AtWork(k), call[k].tool \in Rejecting,
           NEW d \in Holds(call[k]), d.file = f
    PROVE  f \in raced
<1>1. Affects(call[k].file, f) /\ Affects(call[c].file, f)
  BY DEF WorkInv, HoldingsOK, HoldsOK, Affects
<1>2. c # k
  BY DEF Rejecting
<1> QED
  BY <1>1, <1>2 DEF WorkInv, RacesOK, AtFile

\* Races are not forgotten.
LEMMA RacedStays ==
    ASSUME Inv, [Next]_vars
    PROVE  raced \subseteq raced'
<1>1. ASSUME NEW c \in Calls, CallStep(c) PROVE raced' = raced
  BY <1>1, StepShape
<1> QED
  BY <1>1 DEF Next, vars, history, Begin, Starts, InitWorktree, ApplyPatch, RemoveWorktree,
     ForgetWorktree, Edit

\* The record of a call that does not move.
LEMMA UndoOfOthers ==
    ASSUME Inv, WorkInv, [Next]_vars, NEW k \in Calls, call'[k] = call[k]
    PROVE  UndoOK(call[k])'
<1> DEFINE r == call[k]
<1>1. UndoOK(r)
  BY DEF WorkInv, UndoingsOK
<1> SUFFICES ASSUME r.tool \in Rejecting, NEW f \in Files, f = r.doc.file, f \notin raced',
                    Plain(f)', Dirty(f)', r.step \in {"check", "restore", "mark"}
             PROVE  Dirty(f)
  <2>1. Undoes(call[k])' <=> Undoes(r)
    BY DEF Undoes
  <2> QED
    BY <1>1, <2>1, PlainBefore, RacedStays DEF UndoOK, Undoing
<1>2. ASSUME NEW c \in Calls, WriteFile(c), call[c].file = f PROVE FALSE
  <2>1. AtWork(c) /\ AtWork(k) /\ call[c].tool = "write" /\ r.doc \in Holds(r)
    BY <1>2, CallFacts DEF WriteFile, AtWork, RecordOK, Holds
  <2>2. f \in raced
    BY <1>2, <2>1, WriterRaces
  <2> QED
    BY <2>2, RacedStays
<1> QED
  BY <1>2, DirtyComes DEF WorkInv

LEMMA UndoingsStay ==
    ASSUME Inv, WorkInv, [Next]_vars
    PROVE  UndoingsOK'
<1> USE RacedStays
<1>1. ASSUME NEW r, r.step \notin {"check", "restore", "mark"} PROVE UndoOK(r)'
  BY <1>1 DEF UndoOK, Undoes, Undoing
<1>2. ASSUME NEW c \in Calls, Quiet(c), CallStep(c) PROVE UndoOK(call[c])'
  <2> DEFINE q == call[c]
             r == call'[c]
  <2>1. /\ ReadFrom(q, r, Text(c)) /\ UndoOK(q)
        /\ UNCHANGED <<text, path, base, snap, raced>>
    BY <1>2, QuietsFrom DEF WorkInv, UndoingsOK
  <2>2. r = Over \/ r.tool = q.tool
    BY <1>2, StepShape
  <2>3. CASE r = Over
    BY <1>1, <2>3 DEF Over, NotBegun
  <2>4. CASE r # Over
    <3>1. Undoes(r) => r.tool \in Rejecting
      BY <2>1, <2>2, <2>4 DEF Undoes, ReadFrom
    <3>2. ASSUME r.tool \in Rejecting, NEW f \in Files, f = r.doc.file, f \notin raced, Plain(f)
          PROVE  Undoing(r, f)
      <4>1. Dirty(f) => Place = "tree"
        BY DEF Dirty, Place
      <4>2. r.step = "restore" => (Dirty(f) => r.place = "tree")
        BY <2>1, <3>2 DEF ReadFrom, UndoOK, Undoing
      <4> QED
        BY <2>1, <4>1, <4>2 DEF ReadFrom, Undoing
    <3>3. ASSUME NEW f \in Files PROVE Plain(f)' = Plain(f) /\ Dirty(f)' = Dirty(f)
      BY <2>1 DEF Plain, Of, Dirty, TreeOf
    <3>4. ASSUME r.tool \in Rejecting, NEW f \in Files, f = r.doc.file, f \notin raced', Plain(f)'
          PROVE  Undoing(call[c], f)'
      <4>1. Undoing(r, f)
        BY <3>2, <3>3, <3>4
      <4> QED
        BY <3>3, <4>1 DEF Undoing
    <3>5. Undoes(call[c])' <=> Undoes(r)
      BY DEF Undoes
    <3> QED
      BY <3>1, <3>4, <3>5 DEF UndoOK
  <2> QED
    BY <2>3, <2>4
<1>3. ASSUME NEW c \in Calls, Restore(c), CallStep(c) PROVE UndoOK(call[c])'
  <2> DEFINE q == call[c]
             r == call'[c]
  <2>1. q \in CallRecord /\ call \in [Calls -> CallRecord]
    BY CallFacts DEF Inv, TypeOK
  <2>2. r.step = "mark" /\ r.tool = q.tool /\ r.doc = q.doc /\ q.step = "restore"
    BY <1>3, <2>1 DEF Restore, Verdict, CallRecord
  <2>3. UndoOK(q) /\ q.tool \in Rejecting
    BY <2>2 DEF WorkInv, UndoingsOK, UndoOK, Undoes
  <2>4. ASSUME NEW f \in Files, f = r.doc.file, f \notin raced', Plain(f)', Dirty(f)' PROVE FALSE
    <3>1. ~\E k \in Calls : WriteFile(k) /\ TreeOf(f)' = k
      <4> SUFFICES ASSUME NEW k \in Calls, WriteFile(k), TreeOf(f)' = k PROVE FALSE
        OBVIOUS
      <4>1. call'[c] = q \/ k = c
        BY <2>1 DEF WriteFile
      <4> QED
        BY <2>2, <4>1 DEF WriteFile
    <3>2. Dirty(f) /\ TreeOf(f)' = TreeOf(f)
      BY <2>4, <3>1, DirtyComes DEF WorkInv
    <3>3. Plain(f) /\ f \notin raced
      BY <2>4, PlainBefore
    <3>4. q.place = "tree"
      BY <2>2, <2>3, <2>4, <3>2, <3>3 DEF UndoOK, Undoing
    <3>5. TreeOf(f)' = q.doc.before
      <4> PICK g \in Files, t \in Texts : Written(c, g, t)
        BY <1>3, TextWritten
      <4> QED
        BY <1>3, <2>2, <2>4, <3>4 DEF Written
    <3>6. q.doc \in Holds(q)
      BY <2>2 DEF Holds
    <3>7. q.doc.id \in Of(f) /\ q.doc.before = snap[q.doc.id].before
      BY <2>2, <2>4, <3>6, HeldIsMade DEF WorkInv, HoldingsOK, HoldsOK, Of
    <3> QED
      BY <3>2, <3>3, <3>5, <3>7 DEF Plain, Dirty
  <2> QED
    BY <2>2, <2>3, <2>4 DEF UndoOK, Undoing
<1>4. ASSUME NEW c \in Calls, CallStep(c), ~Quiet(c), ~Restore(c) PROVE UndoOK(call[c])'
  <2>1. call[c] \in CallRecord /\ call \in [Calls -> CallRecord]
    BY CallFacts DEF Inv, TypeOK
  <2>2. Over.step = "done"
    BY DEF Over, NotBegun
  <2>3. Insert(c) => call'[c].step \in {"done", "write"}
    <3> DEFINE r == [call[c] EXCEPT !.step = "write", !.seen = "none", !.doc = Ref(c)]
    <3>1. r.step = "write"
      BY <2>1 DEF CallRecord
    <3>2. Insert(c) => call'[c] = Over \/ call'[c] = r
      BY <2>1 DEF Insert
    <3> HIDE DEF r
    <3> QED
      BY <2>2, <3>1, <3>2
  <2>4. WriteFile(c) => call'[c].step = "reread"
    BY <2>1 DEF WriteFile, CallRecord
  <2>5. Update(c) => call'[c].step = "done"
    BY <2>1, <2>2 DEF Update
  <2>6. MarkSnapshot(c) => call'[c].step = "next"
    BY <2>1 DEF MarkSnapshot, CallRecord
  <2>7. call'[c].step \notin {"check", "restore", "mark"}
    BY <1>4, <2>3, <2>4, <2>5, <2>6 DEF CallStep, Quiet
  <2> QED
    BY <1>1, <2>7
<1>5. ASSUME NEW c \in Calls, CallStep(c) PROVE UndoingsOK'
  <2>1. \A k \in Calls : k # c => call'[k] = call[k]
    BY <1>5, StepShape
  <2>2. UndoOK(call[c])'
    BY <1>2, <1>3, <1>4, <1>5
  <2> QED
    BY <2>1, <2>2, UndoOfOthers DEF UndoingsOK
<1>6. ASSUME NEW c \in Calls, NEW tool, NEW file, Begin(c, tool, file) PROVE UndoingsOK'
  <2>1. /\ \A k \in Calls : k # c => call'[k] = call[k]
        /\ call'[c].step = "find"
    BY <1>6 DEF Begin, Starts, NotBegun, Inv, TypeOK
  <2>2. UndoOK(call[c])'
    BY <1>1, <2>1
  <2> QED
    BY <2>1, <2>2, UndoOfOthers DEF UndoingsOK
<1>7. ASSUME UNCHANGED call PROVE UndoingsOK'
  BY <1>7, UndoOfOthers DEF UndoingsOK
<1> QED
  BY <1>5, <1>6, <1>7 DEF Next, vars, InitWorktree, ApplyPatch, RemoveWorktree, ForgetWorktree,
     Edit

\* Whether a call would reject a snapshot unseen: a snapshot that tells of the file is
\* read with the text after it.
LEMMA BlindStays ==
    ASSUME Inv, WorkInv, [Next]_vars, NEW j \in Calls, snap[j].status # "none",
           snap[j].after # "none", NEW k \in Calls, Blind(call'[k], j)
    PROVE  Blind(call[k], j)
<1>1. CASE call'[k] = call[k]
  BY <1>1
<1>2. CASE CallStep(k)
  <2>1. /\ AtWork(k)
        /\ \/ call'[k] = Over
           \/ call'[k].tool = call[k].tool /\ call'[k].file = call[k].file
    BY <1>2, StepShape
  <2>2. call'[k] # Over
    BY DEF Blind, Over, NotBegun
  <2>3. PICK d \in Holds(call'[k]) : d.after = "none" /\ d.id = j
    BY DEF Blind
  <2>4. ~\E i \in Calls : d = DocOf(i)
    BY <2>3 DEF DocOf
  <2>5. d \in Holds(call[k])
    BY <1>2, <2>4, StepHolds DEF WorkInv
  <2> QED
    BY <2>1, <2>2, <2>3, <2>5 DEF Blind, AtWork
<1>3. ASSUME NEW tool, NEW file, Begin(k, tool, file) PROVE FALSE
  <2>1. call'[k].step = "find" /\ call'[k].todo = {}
    BY <1>3 DEF Begin, Starts, NotBegun, Inv, TypeOK
  <2> QED
    BY <2>1 DEF Blind, Holds
<1>4. ASSUME NEW c \in Calls, c # k, CallStep(c) PROVE call'[k] = call[k]
  BY <1>4, StepShape
<1>5. ASSUME NEW c \in Calls, c # k, NEW tool, NEW file, Begin(c, tool, file)
      PROVE  call'[k] = call[k]
  BY <1>5 DEF Begin, Starts, Inv, TypeOK
<1> QED
  BY <1>1, <1>2, <1>3, <1>4, <1>5 DEF Next, vars, InitWorktree, ApplyPatch, RemoveWorktree,
     ForgetWorktree, Edit

\* The snapshot that tells of a dirty file is not rejected.
LEMMA AccountStays ==
    ASSUME Inv, WorkInv, [Next]_vars, NEW f \in Files, f \notin raced, Plain(f), Dirty(f),
           NEW j \in Of(f), Accounts(j)
    PROVE  j \in Of(f)' /\ Accounts(j)'
<1>1. j \in Calls /\ snap[j].status # "none" /\ snap[j].file = f /\ snap[j].after # "none"
      /\ snap[j].status # "rejected" /\ \A k \in Calls : ~Blind(call[k], j)
  BY DEF Of, Accounts
<1>2. j \in Of(f)' /\ snap'[j].after # "none"
  BY <1>1, SnapsStay DEF Of
<1>3. \A k \in Calls : ~Blind(call'[k], j)
  BY <1>1, BlindStays
<1>4. ASSUME NEW c \in Calls, MarkSnapshot(c) PROVE snap'[j].status # "rejected"
  <2> DEFINE q == call[c]
  <2>1. q \in CallRecord /\ q.doc.id \in Calls /\ q.doc \in Holds(q) /\ q.step = "mark"
        /\ q.doc.file \in Files
    BY <1>4, CallFacts DEF MarkSnapshot, RecordOK, Refers, Holds, Doc
  <2>2. snap' = [snap EXCEPT ![q.doc.id].status = q.verdict]
    BY <1>4 DEF MarkSnapshot
  <2>3. CASE q.doc.id # j
    BY <1>1, <2>2, <2>3 DEF Inv, TypeOK
  <2>4. CASE q.doc.id = j /\ q.verdict = "rejected"
    <3>1. UndoOK(q) /\ q.tool \in Rejecting
      BY <2>1, <2>4 DEF WorkInv, UndoingsOK, UndoOK, Undoes
    <3>2. q.doc.file = f
      BY <1>1, <2>1, <2>4, HeldIsMade
    <3>3. q.doc.after # "none"
      BY <1>1, <2>1, <2>4, <3>1 DEF Blind
    <3> QED
      BY <2>1, <2>4, <3>1, <3>2, <3>3 DEF UndoOK, Undoing
  <2>5. CASE q.doc.id = j /\ q.verdict # "rejected"
    <3>1. snap[j] \in Snapshot /\ snap \in [Calls -> Snapshot \cup {NotMade}]
      BY <1>1, MadeFacts DEF Inv, TypeOK
    <3> QED
      BY <1>1, <2>2, <2>5, <3>1 DEF Snapshot
  <2> QED
    BY <2>3, <2>4, <2>5
<1>5. ASSUME NEW c \in Calls, Update(c) PROVE snap'[j].status # "rejected"
  <2> DEFINE i == call[c].doc.id
  <2>1. i \in Calls /\ snap[i].status # "none"
    BY <1>5, CallFacts DEF Update, RecordOK, Refers
  <2>2. snap' = [snap EXCEPT ![i] = [@ EXCEPT !.status = "open", !.after = call[c].seen]]
    BY <1>5 DEF Update
  <2>3. snap[i] \in Snapshot
    BY <2>1, MadeFacts
  <2> QED
    BY <1>1, <2>1, <2>2, <2>3 DEF Snapshot, Inv, TypeOK
<1>6. ASSUME NEW c \in Calls, Insert(c) PROVE snap'[j].status # "rejected"
  <2>1. c # j
    BY <1>1, <1>6 DEF Insert, Inv, FreshOK, Early
  <2> QED
    BY <1>1, <1>6, <2>1 DEF Insert, Inv, TypeOK
<1>7. ASSUME UNCHANGED snap PROVE snap'[j].status # "rejected"
  BY <1>1, <1>7
<1>8. snap'[j].status # "rejected"
  BY <1>4, <1>5, <1>6, <1>7 DEF Next, vars, CallStep, FindOpen, FindAny, FindAll, ReadBefore,
     InsertRefused, WriteFile, Restore, Reread, NextDoc, CheckAccepted, CheckRejected,
     Reads, Begin, Starts, InitWorktree, ApplyPatch, RemoveWorktree, ForgetWorktree, Edit
<1> QED
  BY <1>2, <1>3, <1>8 DEF Accounts

\* Whoever has written completes the snapshot, and no rejection holds it.
LEMMA UpdateAccounts ==
    ASSUME Inv, WorkInv, [Next]_vars, NEW f \in Files, f \notin raced, NEW x \in Calls,
           Update(x), WritesOn(call[x], f)
    PROVE  \E j \in Of(f)' : Accounts(j)'
<1> DEFINE j == call[x].doc.id
<1>1. /\ j \in Calls /\ snap[j].status # "none" /\ snap[j].file = f
      /\ call[x].seen # "none" /\ call[x].step = "update"
  BY CallFacts, LedgerAssumption DEF Update, WritesOn, RecordOK, Refers, Texts
<1>2. snap[j] \in Snapshot
  BY <1>1, MadeFacts
<1>3. snap' = [snap EXCEPT ![j] = [@ EXCEPT !.status = "open", !.after = call[x].seen]]
  BY DEF Update
<1>4. snap'[j].status = "open" /\ snap'[j].after = call[x].seen /\ snap'[j].file = f
  BY <1>1, <1>2, <1>3 DEF Snapshot, Inv, TypeOK
<1>5. ASSUME NEW k \in Calls PROVE ~Blind(call'[k], j)
  <2>1. CASE k = x
    <3>1. call'[x] = Over /\ Over.step = "done"
      BY DEF Update, Over, NotBegun, Inv, TypeOK
    <3> QED
      BY <2>1, <3>1 DEF Blind
  <2>2. CASE k # x
    <3> SUFFICES ASSUME Blind(call[k], j) PROVE FALSE
      BY <2>2 DEF Update, Inv, TypeOK
    <3>1. PICK d \in Holds(call[k]) : d.id = j
      BY DEF Blind
    <3>2. d.file = f
      BY <1>1, <3>1, HeldIsMade
    <3>3. AtWork(x) /\ AtWork(k) /\ call[k].tool \in Rejecting
      BY <1>1 DEF AtWork, Blind
    <3> QED
      BY <3>2, <3>3, WriterRaces DEF WritesOn
  <2> QED
    BY <2>1, <2>2
<1> DEFINE Told(i) == /\ i \in Calls /\ snap'[i].status # "none" /\ snap'[i].file = f
                      /\ snap'[i].status # "rejected" /\ snap'[i].after # "none"
                      /\ \A k \in Calls : ~Blind(call'[k], i)
<1>6. Told(j)
  BY <1>1, <1>4, <1>5
<1>7. \A i : Told(i) => i \in Of(f)' /\ Accounts(i)'
  BY DEF Of, Accounts, Blind, Holds
<1> HIDE DEF Told
<1> QED
  BY <1>6, <1>7

LEMMA AccountsStay ==
    ASSUME Inv, WorkInv, [Next]_vars
    PROVE  AccountsOK'
<1> SUFFICES ASSUME NEW f \in Files, f \notin raced', Plain(f)', Dirty(f)'
             PROVE  Accounted(f)'
  BY DEF AccountsOK
<1>1. f \notin raced /\ Plain(f)
  BY RacedStays, PlainBefore
<1>2. ASSUME NEW c \in Calls, WriteFile(c), call[c].file = f, TreeOf(f)' = c
      PROVE  Accounted(f)'
  <2>1. call[c] \in CallRecord /\ call \in [Calls -> CallRecord] /\ call[c].tool = "write"
    BY <1>2, CallFacts DEF WriteFile, RecordOK, Inv, TypeOK
  <2>2. call'[c].tool = "write" /\ call'[c].file = f /\ call'[c].step = "reread"
    BY <1>2, <2>1 DEF WriteFile, CallRecord
  <2> QED
    BY <1>2, <2>2 DEF Accounted, WritesOn
<1>3. ASSUME Dirty(f), TreeOf(f)' = TreeOf(f), NEW j \in Of(f), Accounts(j)
      PROVE  Accounted(f)'
  <2>1. j \in Of(f)' /\ Accounts(j)'
    BY <1>1, <1>3, AccountStays
  <2> QED
    BY <2>1 DEF Accounted
<1>4. ASSUME Dirty(f), TreeOf(f)' = TreeOf(f), WritesOn(call[TreeOf(f)], f)
      PROVE  Accounted(f)'
  <2>1. PICK x \in Calls : x = TreeOf(f)
    BY <1>4 DEF Dirty
  <2>2. WritesOn(call[x], f)
    BY <1>4, <2>1
  <2>3. CASE call'[x] = call[x]
    BY <1>4, <2>1, <2>2, <2>3 DEF Accounted, WritesOn
  <2>4. CASE CallStep(x) /\ Quiet(x)
    <3>1. WritesOn(call'[x], f)
      BY <2>2, <2>4, QuietsFrom DEF ReadFrom, WorkInv
    <3> QED
      BY <1>4, <2>1, <3>1 DEF Accounted, WritesOn
  <2>5. CASE CallStep(x) /\ ~Quiet(x)
    <3>1. Update(x)
      BY <2>2, <2>5 DEF CallStep, Quiet, WritesOn, Insert, WriteFile, Restore, MarkSnapshot
    <3> QED
      BY <1>1, <2>2, <3>1, UpdateAccounts DEF Accounted
  <2>6. ASSUME NEW c \in Calls, CallStep(c), c # x PROVE call'[x] = call[x]
    BY <2>6, StepShape
  <2>7. ASSUME NEW c \in Calls, NEW tool, NEW file, Begin(c, tool, file)
        PROVE  call'[x] = call[x]
    BY <2>2, <2>7 DEF Begin, Starts, Inv, TypeOK, WritesOn
  <2> QED
    BY <2>3, <2>4, <2>5, <2>6, <2>7 DEF Next, vars, InitWorktree, ApplyPatch, RemoveWorktree,
       ForgetWorktree, Edit
<1>5. CASE Dirty(f) /\ TreeOf(f)' = TreeOf(f)
  <2>1. Accounted(f)
    BY <1>1, <1>5 DEF WorkInv, AccountsOK
  <2> QED
    BY <1>3, <1>4, <1>5, <2>1 DEF Accounted
<1> QED
  BY <1>2, <1>5, DirtyComes DEF WorkInv

LEMMA NextWork == Inv /\ WorkInv /\ [Next]_vars => WorkInv'
BY HoldingsStay, RacesStay, UndoingsStay, PlainStays, AccountsStay DEF WorkInv

LEMMA InitWork == Init => WorkInv
<1> SUFFICES ASSUME Init PROVE WorkInv
  OBVIOUS
<1>1. \A c \in Calls : call[c] = NotBegun
  BY DEF Init
<1>2. /\ NotBegun.step = "idle" /\ NotBegun.tool = "none" /\ NotBegun.file = "none"
      /\ NotBegun.todo = {}
  BY DEF NotBegun
<1>3. FilesOK /\ RacesOK
  BY <1>1, <1>2 DEF FilesOK, RacesOK, AtFile, AtWork
<1>4. HoldingsOK /\ UndoingsOK
  BY <1>1, <1>2 DEF HoldingsOK, HoldsOK, Holds, UndoingsOK, UndoOK, Undoes, Undoing
<1>5. AccountsOK
  BY DEF Init, AccountsOK, Dirty
<1>6. PlainOK
  <2> SUFFICES ASSUME NEW f \in Files PROVE PlainAt(f)
    BY DEF PlainOK
  <2>1. Of(f) = {}
    BY DEF Init, Of, NotMade
  <2>2. LiveOf(f) \in {"old", "missing"} /\ TreeOf(f) = "missing"
    BY DEF Init, LiveOf, TreeOf, Places
  <2> QED
    BY <1>1, <1>2, <2>1, <2>2, LedgerAssumption DEF PlainAt, Plain
<1> QED
  BY <1>3, <1>4, <1>5, <1>6 DEF WorkInv

\* What agents have written is told of by a snapshot that is not rejected, with the index
\* for every file, and without it for the files no agent's text was the start of.
THEOREM WorkIsTold == Spec => []WorkIsAccounted
<1>1. Inv /\ WorkInv => WorkIsAccounted
  <2> SUFFICES ASSUME Inv, WorkInv, NEW f \in Files, f \notin raced, unique \/ Plain(f), Dirty(f)
               PROVE  AtWork(TreeOf(f)) \/ \E i \in Of(f) : snap[i].status # "rejected"
    BY DEF WorkIsAccounted, Dirty
  <2>1. Plain(f)
    BY DEF WorkInv, PlainOK, PlainAt
  <2>2. Accounted(f)
    BY <2>1 DEF WorkInv, AccountsOK
  <2> QED
    BY <2>2 DEF Accounted, Accounts, WritesOn, AtWork
<1> QED
  BY <1>1, InitWork, NextWork, Invariant, PTL DEF Spec

-----------------------------------------------------------------------------
(* What a rejection may write in the live repository                        *)

\* With the index, one worktree and nobody else's changes.
Ours(f) == /\ unique /\ trees <= 1
           /\ \A place \in Places : <<place, f>> \notin edited

\* The only worktree is removed, its record perhaps not yet.
Gone == trees = 1 /\ path # "there"

OneOK(f) == \A i, j \in Of(f) : i = j

\* What a file can hold: an agent's text, the one it had, or the one put back.
Known(f) == Calls \cup {origin[f]} \cup {snap[i].before : i \in Of(f)}
KnownOK(f) == LiveOf(f) \in Known(f) /\ (path = "there" => TreeOf(f) \in Known(f))

\* Until there is a snapshot nobody has written, and a snapshot of another text than the
\* original can only be one of a file that is missing with its worktree.
FirstOK(f) ==
    Of(f) = {} =>
        /\ LiveOf(f) = origin[f]
        /\ path = "there" => TreeOf(f) = origin[f]
        /\ Gone => TreeOf(f) = "missing"
        /\ \A c \in Calls :
            call[c].step = "insert" /\ call[c].file = f =>
                call[c].seen = origin[f] \/ (Gone /\ call[c].seen = "missing")

\* After such a snapshot nobody finds the original in the worktree again.
LateOK(f) ==
    \A i \in Of(f) : snap[i].before # origin[f] =>
        /\ Gone
        /\ TreeOf(f) # origin[f]
        /\ snap[i].after # origin[f]
        /\ \A c \in Calls :
            /\ call[c].step = "update" /\ call[c].file = f => call[c].seen # origin[f]
            /\ \A d \in Holds(call[c]) : d.file = f => d.after # origin[f]

\* Who is about to undo a change in the live repository still finds it, or it is undone.
RestoreOK(f) ==
    \A c \in Calls :
        call[c].step = "restore" /\ call[c].place = "live" /\ call[c].doc.file = f =>
            LiveOf(f) \in {call[c].doc.after, call[c].doc.before}

UndoneOK(f) == OneOK(f) /\ KnownOK(f) /\ FirstOK(f) /\ LateOK(f) /\ RestoreOK(f)
AllUndoneOK == \A f \in Files : Ours(f) => UndoneOK(f)

\* The steps a call takes to a record that says something.
LEMMA StepTargets ==
    ASSUME Inv, NEW c \in Calls, CallStep(c)
    PROVE  /\ call'[c].step = "insert" =>
                ReadBefore(c) /\ call'[c].file = call[c].file /\ call'[c].seen = Text(c)
           /\ call'[c].step = "update" =>
                Reread(c) /\ call'[c].file = call[c].file /\ call'[c].seen = Text(c)
           /\ call'[c].step = "restore" =>
                /\ CheckRejected(c) /\ call'[c].place = call[c].place
                /\ call'[c].doc = call[c].doc /\ call[c].doc.after = Checked(c)
<1> DEFINE Targets ==
      /\ call'[c].step = "insert" =>
           ReadBefore(c) /\ call'[c].file = call[c].file /\ call'[c].seen = Text(c)
      /\ call'[c].step = "update" =>
           Reread(c) /\ call'[c].file = call[c].file /\ call'[c].seen = Text(c)
      /\ call'[c].step = "restore" =>
           /\ CheckRejected(c) /\ call'[c].place = call[c].place
           /\ call'[c].doc = call[c].doc /\ call[c].doc.after = Checked(c)
<1>1. call[c] \in CallRecord /\ call \in [Calls -> CallRecord]
  BY CallFacts DEF Inv, TypeOK
<1>2. ASSUME call'[c].step \notin {"insert", "update", "restore"} PROVE Targets
  BY <1>2
<1>3. Over.step = "done"
  BY DEF Over, NotBegun
<1>4. ASSUME NEW step, NEW tools, NEW r, Reads(c, step, tools, r) PROVE call'[c] = r
  BY <1>1, <1>4 DEF Reads
<1> SUFFICES Targets
  OBVIOUS
<1> HIDE DEF Targets
<1>5. CASE FindOpen(c)
  <2>1. \A i : [call[c] EXCEPT !.step = "write", !.doc = Ref(i)].step = "write"
    BY <1>1 DEF CallRecord
  <2>2. [call[c] EXCEPT !.step = "read"].step = "read"
    BY <1>1 DEF CallRecord
  <2> QED
    BY <1>2, <1>4, <1>5, <2>1, <2>2 DEF FindOpen
<1>6. CASE FindAny(c)
  <2>1. \A i : [call[c] EXCEPT !.step = "reread", !.doc = Ref(i)].step = "reread"
    BY <1>1 DEF CallRecord
  <2>2. [call[c] EXCEPT !.step = "read"].step = "read"
    BY <1>1 DEF CallRecord
  <2>3. \A i : [call[c] EXCEPT !.step = "next", !.todo = {DocOf(i)}].step = "next"
    BY <1>1 DEF CallRecord
  <2> QED
    BY <1>2, <1>3, <1>4, <1>6, <2>1, <2>2, <2>3 DEF FindAny
<1>7. CASE FindAll(c)
  <2>1. [call[c] EXCEPT !.step = "next", !.todo = {DocOf(i) : i \in OpenOnes}].step = "next"
    BY <1>1 DEF CallRecord
  <2> QED
    BY <1>2, <1>4, <1>7, <2>1 DEF FindAll
<1>8. CASE ReadBefore(c)
  <2> DEFINE r == [call[c] EXCEPT !.step = "insert", !.seen = Text(c)]
  <2>1. r.step = "insert" /\ r.file = call[c].file /\ r.seen = Text(c)
    BY <1>1 DEF CallRecord
  <2>2. call'[c] = r
    BY <1>4, <1>8 DEF ReadBefore
  <2> HIDE DEF r
  <2> QED
    BY <1>8, <2>1, <2>2 DEF Targets
<1>9. CASE InsertRefused(c)
  BY <1>2, <1>3, <1>4, <1>9 DEF InsertRefused
<1>10. CASE Insert(c)
  <2> DEFINE r == [call[c] EXCEPT !.step = "write", !.seen = "none", !.doc = Ref(c)]
  <2>1. r.step = "write"
    BY <1>1 DEF CallRecord
  <2>2. call'[c] = Over \/ call'[c] = r
    BY <1>1, <1>10 DEF Insert
  <2> HIDE DEF r
  <2> QED
    BY <1>2, <1>3, <2>1, <2>2
<1>11. CASE WriteFile(c)
  <2>1. call'[c].step = "reread"
    BY <1>1, <1>11 DEF WriteFile, CallRecord
  <2> QED
    BY <1>2, <2>1
<1>12. CASE Reread(c)
  <2> DEFINE r == [call[c] EXCEPT !.step = "update", !.seen = Text(c)]
  <2>1. r.step = "update" /\ r.file = call[c].file /\ r.seen = Text(c)
    BY <1>1 DEF CallRecord
  <2>2. call'[c] = r
    BY <1>4, <1>12 DEF Reread
  <2> HIDE DEF r
  <2> QED
    BY <1>12, <2>1, <2>2 DEF Targets
<1>13. CASE Update(c)
  BY <1>1, <1>2, <1>3, <1>13 DEF Update
<1>14. CASE NextDoc(c)
  <2>2. ASSUME NEW d, Reads(c, "next", Tools, [call[c] EXCEPT !.step = "check", !.doc = d,
                                                  !.todo = @ \ {d}, !.place = Place])
        PROVE  call'[c].step = "check"
    <3> DEFINE r == [call[c] EXCEPT !.step = "check", !.doc = d, !.todo = @ \ {d}, !.place = Place]
    <3>1. r.step = "check"
      BY <1>1 DEF CallRecord
    <3>2. call'[c] = r
      BY <1>4, <2>2
    <3> HIDE DEF r
    <3> QED
      BY <3>1, <3>2
  <2> QED
    BY <1>2, <1>3, <1>4, <1>14, <2>2 DEF NextDoc
<1>15. \A verdict : Verdict(c, verdict).step = "mark"
  BY <1>1 DEF Verdict, CallRecord
<1>16. CASE CheckAccepted(c)
  BY <1>2, <1>4, <1>15, <1>16 DEF CheckAccepted
<1>17. CASE CheckRejected(c)
  <2> DEFINE r == [call[c] EXCEPT !.step = "restore"]
  <2>1. r.step = "restore" /\ r.place = call[c].place /\ r.doc = call[c].doc
    BY <1>1 DEF CallRecord
  <2>2. \/ \E verdict : call'[c] = Verdict(c, verdict)
        \/ call'[c] = r /\ call[c].doc.after = Checked(c)
    BY <1>4, <1>17 DEF CheckRejected
  <2> HIDE DEF r
  <2> QED
    BY <1>2, <1>15, <1>17, <2>1, <2>2 DEF Targets
<1>18. CASE Restore(c)
  BY <1>1, <1>2, <1>15, <1>18 DEF Restore
<1>19. CASE MarkSnapshot(c)
  <2>1. call'[c].step = "next"
    BY <1>1, <1>19 DEF MarkSnapshot, CallRecord
  <2> QED
    BY <1>2, <2>1
<1> QED
  BY <1>5, <1>6, <1>7, <1>8, <1>9, <1>10, <1>11, <1>12, <1>13, <1>14, <1>16, <1>17, <1>18, <1>19
     DEF CallStep

\* A record at one of these steps is an earlier one, or comes from such a step of its call.
LEMMA TargetsOfAll ==
    ASSUME Inv, [Next]_vars, NEW c \in Calls,
           call'[c].step \in {"insert", "update", "restore"}
    PROVE  \/ call'[c] = call[c]
           \/ CallStep(c) /\ UNCHANGED <<text, origin, path, trees, snap, edited>>
<1>1. ASSUME NEW k \in Calls, CallStep(k), call'[c] # call[c]
      PROVE  CallStep(c) /\ UNCHANGED <<text, origin, path, trees, snap, edited>>
  <2>1. k = c
    BY <1>1, StepShape
  <2> QED
    BY <1>1, <2>1, StepTargets DEF ReadBefore, Reread, CheckRejected, Reads, treeVars, history
<1>2. ASSUME NEW k \in Calls, NEW tool, NEW file, Begin(k, tool, file) PROVE call'[c] = call[c]
  BY <1>2 DEF Begin, Starts, NotBegun, Inv, TypeOK
<1> QED
  BY <1>1, <1>2 DEF Next, vars, InitWorktree, ApplyPatch, RemoveWorktree, ForgetWorktree, Edit

\* Files come under suspicion and stay there.
LEMMA OursBefore ==
    ASSUME Inv, [Next]_vars, NEW f \in Files, Ours(f)'
    PROVE  /\ Ours(f)
           /\ UNCHANGED origin
           /\ Gone => Gone'
           /\ ~\E place \in Places : Edit(place, f)
<1>1. /\ unique' = unique /\ origin' = origin
      /\ edited \subseteq edited'
      /\ trees \in Nat /\ trees' \in Nat /\ trees' >= trees
      /\ path' = "there" => path = "there" \/ trees' = trees + 1
  <2> DEFINE Later1 == /\ unique' = unique /\ origin' = origin
                       /\ edited \subseteq edited'
                       /\ trees \in Nat /\ trees' \in Nat /\ trees' >= trees
                       /\ path' = "there" => path = "there" \/ trees' = trees + 1
  <2>1. trees \in Nat
    BY DEF Inv, TypeOK
  <2>2. ASSUME UNCHANGED <<unique, origin, edited, trees, path>> PROVE Later1
    BY <2>1, <2>2
  <2>3. ASSUME InitWorktree \/ ApplyPatch \/ RemoveWorktree \/ ForgetWorktree PROVE Later1
    BY <2>1, <2>3 DEF InitWorktree, ApplyPatch, RemoveWorktree, ForgetWorktree, history
  <2>4. ASSUME NEW place \in Places, NEW g \in Files, Edit(place, g) PROVE Later1
    <3>1. UNCHANGED <<unique, origin, trees, path>> /\ edited' = edited \cup {<<place, g>>}
      BY <2>4 DEF Edit, treeVars
    <3>2. edited \subseteq edited'
      BY <3>1
    <3> QED
      BY <2>1, <3>1, <3>2
  <2>5. ASSUME NEW c \in Calls, CallStep(c) PROVE UNCHANGED <<unique, origin, edited, trees, path>>
    BY <2>5 DEF CallStep, FindOpen, FindAny, FindAll, ReadBefore, InsertRefused, Insert, WriteFile,
       Reread, Update, NextDoc, CheckAccepted, CheckRejected, Restore, MarkSnapshot, Reads,
       treeVars, history
  <2>6. ASSUME NEW c \in Calls, NEW tool, NEW file, Begin(c, tool, file)
        PROVE  UNCHANGED <<unique, origin, edited, trees, path>>
    BY <2>6 DEF Begin, Starts, treeVars
  <2>7. ASSUME UNCHANGED vars PROVE UNCHANGED <<unique, origin, edited, trees, path>>
    BY <2>7 DEF vars, treeVars, history
  <2> HIDE DEF Later1
  <2>8. Later1
    BY <2>2, <2>3, <2>4, <2>5, <2>6, <2>7 DEF Next
  <2> QED
    BY <2>8 DEF Later1
<1>2. Ours(f)
  BY <1>1 DEF Ours
<1>3. Gone => Gone'
  BY <1>1 DEF Ours, Gone
<1>4. ~\E place \in Places : Edit(place, f)
  BY DEF Ours, Edit
<1> QED
  BY <1>1, <1>2, <1>3, <1>4

\* With the index a snapshot is made of a file that has none.
LEMMA OfChanges ==
    ASSUME Inv, [Next]_vars, NEW f \in Files
    PROVE  \/ Of(f)' = Of(f)
           \/ \E c \in Calls :
                /\ Of(f)' = Of(f) \cup {c}
                /\ unique => Of(f) = {}
                /\ call[c].step = "insert" /\ call[c].file = f
                /\ snap'[c].before = call[c].seen /\ snap'[c].after = "none"
                /\ UNCHANGED <<text, path, trees>>
                /\ \A k \in Calls : k # c => call'[k] = call[k]
                /\ call'[c].step \notin {"update", "restore"}
<1>1. CASE UNCHANGED snap
  BY <1>1 DEF Of
<1>2. ASSUME NEW c \in Calls, Update(c) \/ MarkSnapshot(c) PROVE Of(f)' = Of(f)
  <2>1. call[c].doc.id \in Calls /\ snap[call[c].doc.id].status # "none"
    BY <1>2, CallFacts DEF Update, MarkSnapshot, RecordOK, Refers
  <2>2. \A k \in Calls : k # call[c].doc.id => snap'[k] = snap[k]
    BY <1>2 DEF Update, MarkSnapshot, Inv, TypeOK
  <2> QED
    BY <2>1, <2>2, SnapsStay DEF Of
<1>3. ASSUME NEW c \in Calls, Insert(c), call[c].file # f PROVE Of(f)' = Of(f)
  <2>1. snap[c].status = "none"
    BY <1>3 DEF Inv, FreshOK, Early, Insert
  <2> QED
    BY <1>3, <2>1 DEF Insert, Of, Inv, TypeOK
<1>4. ASSUME NEW c \in Calls, Insert(c), call[c].file = f
      PROVE  /\ Of(f)' = Of(f) \cup {c}
             /\ unique => Of(f) = {}
             /\ call[c].step = "insert" /\ call[c].file = f
             /\ snap'[c].before = call[c].seen /\ snap'[c].after = "none"
             /\ UNCHANGED <<text, path, trees>>
             /\ \A k \in Calls : k # c => call'[k] = call[k]
             /\ call'[c].step \notin {"update", "restore"}
  <2>1. snap[c].status = "none"
    BY <1>4 DEF Inv, FreshOK, Early, Insert
  <2>2. /\ \A k \in Calls : k # c => snap'[k] = snap[k]
        /\ snap'[c].status # "none" /\ snap'[c].file = f
        /\ snap'[c].before = call[c].seen /\ snap'[c].after = "none"
    BY <1>4 DEF Insert, Inv, TypeOK
  <2>3. Of(f)' = Of(f) \cup {c}
    BY <2>1, <2>2 DEF Of
  <2>4. \A k \in Calls : k # c => call'[k] = call[k]
    BY <1>4 DEF Insert, Inv, TypeOK
  <2>5. call'[c].step \notin {"update", "restore"}
    BY <1>4, StepTargets DEF CallStep, ReadBefore, Reread, CheckRejected, Reads, Insert
  <2> QED
    BY <1>4, <2>2, <2>3, <2>4, <2>5 DEF Insert, treeVars
<1> QED
  BY <1>1, <1>2, <1>3, <1>4 DEF Next, vars, Begin, Starts, CallStep, FindOpen, FindAny, FindAll,
     ReadBefore, InsertRefused, WriteFile, Reread, NextDoc, CheckAccepted, CheckRejected, Restore,
     Reads, InitWorktree, ApplyPatch, RemoveWorktree, ForgetWorktree, Edit

\* Nothing is known to be in a file that was not known.
LEMMA KnownStays ==
    ASSUME Inv, [Next]_vars, NEW f \in Files, UNCHANGED origin
    PROVE  Known(f) \subseteq Known(f)'
<1>1. Of(f) \subseteq Of(f)'
  BY PlainBefore
<1>2. \A i \in Of(f) : snap'[i].before = snap[i].before
  BY SnapsStay DEF Of
<1> QED
  BY <1>1, <1>2 DEF Known

\* How the texts of a file nobody else changes get to be others.
LEMMA TextsOfOurs ==
    ASSUME Inv, HoldingsOK, [Next]_vars, NEW f \in Files, Ours(f)', KnownOK(f)
    PROVE  /\ \/ LiveOf(f)' = LiveOf(f)
              \/ ApplyPatch /\ LiveOf(f)' = TreeOf(f)
              \/ \E c \in Calls :
                    /\ Restore(c) /\ call[c].place = "live" /\ call[c].doc.file = f
                    /\ call[c].doc.id \in Of(f)
                    /\ LiveOf(f)' = call[c].doc.before
                    /\ LiveOf(f)' = snap[call[c].doc.id].before
           /\ \/ TreeOf(f)' = TreeOf(f)
              \/ InitWorktree /\ TreeOf(f)' = LiveOf(f)
              \/ RemoveWorktree /\ TreeOf(f)' = "missing"
              \/ \E c \in Calls : WriteFile(c) /\ TreeOf(f)' = c /\ Of(f) # {}
              \/ \E i \in Of(f) : TreeOf(f)' = snap[i].before
           /\ Of(f) = {} => LiveOf(f)' \in {LiveOf(f), TreeOf(f)}
<1>1. CASE UNCHANGED <<LiveOf(f), TreeOf(f)>>
  BY <1>1
<1>2. ASSUME NEW c \in Calls, WriteFile(c) \/ Restore(c)
      PROVE  /\ \/ LiveOf(f)' = LiveOf(f)
                \/ /\ Restore(c) /\ call[c].place = "live" /\ call[c].doc.file = f
                   /\ call[c].doc.id \in Of(f)
                   /\ LiveOf(f)' = call[c].doc.before
                   /\ LiveOf(f)' = snap[call[c].doc.id].before
             /\ \/ TreeOf(f)' = TreeOf(f)
                \/ WriteFile(c) /\ TreeOf(f)' = c /\ Of(f) # {}
                \/ \E i \in Of(f) : TreeOf(f)' = snap[i].before
             /\ Of(f) = {} => LiveOf(f)' = LiveOf(f)
  <2>1. PICK g \in Files, t \in Texts : Written(c, g, t)
    BY <1>2, TextWritten
  <2>2. CASE g # f
    BY <2>1, <2>2 DEF Written
  <2>3. CASE g = f /\ WriteFile(c)
    BY <2>1, <2>3 DEF Written
  <2>4. CASE g = f /\ Restore(c)
    <3>1. call[c].doc \in Holds(call[c]) /\ call[c].doc.file = f /\ t = call[c].doc.before
      BY <2>1, <2>4 DEF Written, Holds, Restore
    <3>2. call[c].doc.id \in Of(f) /\ t = snap[call[c].doc.id].before
      BY <3>1, HeldIsMade DEF HoldingsOK, HoldsOK, Of
    <3>3. CASE call[c].place = "live"
      BY <2>1, <2>4, <3>1, <3>2, <3>3 DEF Written
    <3>4. CASE call[c].place = "tree"
      BY <2>1, <2>4, <3>1, <3>2, <3>4 DEF Written
    <3> QED
      BY <2>1, <3>3, <3>4 DEF Written, Places
  <2> QED
    BY <1>2, <2>2, <2>3, <2>4
<1>3. CASE Surroundings
  <2> USE DEF LiveOf, TreeOf, WithTexts, Places
  <2>1. CASE InitWorktree
    BY <2>1 DEF InitWorktree
  <2>2. CASE ApplyPatch
    BY <2>2 DEF ApplyPatch
  <2>3. CASE RemoveWorktree
    BY <2>3 DEF RemoveWorktree
  <2>4. CASE ForgetWorktree
    BY <2>4 DEF ForgetWorktree
  <2>5. ASSUME NEW place \in Places, NEW g \in Files, Edit(place, g)
        PROVE  UNCHANGED <<LiveOf(f), TreeOf(f)>>
    <3>1. g # f
      BY <2>5, OursBefore
    <3> QED
      BY <2>5, <3>1 DEF Edit, Inv, TypeOK
  <2> QED
    BY <1>3, <2>1, <2>2, <2>3, <2>4, <2>5 DEF Surroundings
<1> QED
  BY <1>1, <1>2, <1>3, TextsChange

\* What a call holds, whoever takes the step.
LEMMA HoldsOfAll ==
    ASSUME Inv, FilesOK, [Next]_vars, NEW c \in Calls, NEW d \in Holds(call'[c]),
           d \notin Holds(call[c])
    PROVE  \E i \in Calls : snap[i].status # "none" /\ d = DocOf(i)
<1>1. CASE CallStep(c)
  BY <1>1, StepHolds
<1>2. ASSUME NEW k \in Calls, CallStep(k), k # c PROVE call'[c] = call[c]
  BY <1>2, StepShape
<1>3. ASSUME NEW k \in Calls, NEW tool, NEW file, Begin(k, tool, file)
      PROVE  call'[c] = call[c] \/ Holds(call'[c]) = {}
  <2>1. call'[c] = call[c] \/ (call'[c].step = "find" /\ call'[c].todo = {})
    BY <1>3 DEF Begin, Starts, NotBegun, Inv, TypeOK
  <2> QED
    BY <2>1 DEF Holds
<1> QED
  BY <1>1, <1>2, <1>3 DEF Next, vars, InitWorktree, ApplyPatch, RemoveWorktree, ForgetWorktree, Edit

\* A snapshot that was made is completed by an update of it only.
LEMMA AftersChange ==
    ASSUME Inv, [Next]_vars, NEW i \in Calls, snap[i].status # "none",
           snap'[i].after # snap[i].after
    PROVE  \E c \in Calls : Update(c) /\ call[c].doc.id = i
<1>1. ASSUME NEW c \in Calls, Insert(c) PROVE FALSE
  BY <1>1 DEF Insert, Inv, TypeOK, FreshOK, Early
<1>2. ASSUME NEW c \in Calls, Update(c) PROVE call[c].doc.id = i
  BY <1>2 DEF Update, Inv, TypeOK
<1>3. ASSUME NEW c \in Calls, MarkSnapshot(c) PROVE FALSE
  <2>1. snap[i] \in Snapshot
    BY MadeFacts
  <2>2. snap' = [snap EXCEPT ![call[c].doc.id].status = call[c].verdict]
    BY <1>3 DEF MarkSnapshot
  <2> QED
    BY <2>1, <2>2 DEF Snapshot, Inv, TypeOK
<1> QED
  BY <1>1, <1>2, <1>3 DEF Next, vars, Begin, Starts, CallStep, FindOpen, FindAny, FindAll, ReadBefore,
     InsertRefused, WriteFile, Reread, NextDoc, CheckAccepted, CheckRejected, Restore, Reads,
     InitWorktree, ApplyPatch, RemoveWorktree, ForgetWorktree, Edit

\* Every part of UndoneOK is kept for such a file.
LEMMA OneStays ==
    ASSUME Inv, [Next]_vars, NEW f \in Files, Ours(f)', OneOK(f)
    PROVE  OneOK(f)'
<1>1. unique
  BY OursBefore DEF Ours
<1> QED
  BY <1>1, OfChanges DEF OneOK

LEMMA KnownOKStays ==
    ASSUME Inv, HoldingsOK, [Next]_vars, NEW f \in Files, Ours(f)', KnownOK(f)
    PROVE  KnownOK(f)'
<1>1. Known(f) \subseteq Known(f)'
  BY KnownStays, OursBefore
<1>2. Calls \subseteq Known(f) /\ \A i \in Of(f) : snap[i].before \in Known(f)
  BY DEF Known
<1>3. LiveOf(f) \in Known(f) /\ (path = "there" => TreeOf(f) \in Known(f))
  BY DEF KnownOK
<1>4. LiveOf(f)' \in Known(f)
  BY <1>2, <1>3, TextsOfOurs DEF ApplyPatch
<1>5. path' = "there" => TreeOf(f)' \in Known(f)
  <2>1. CASE InitWorktree
    BY <1>3, <2>1 DEF InitWorktree, TreeOf, LiveOf, WithTexts, Places
  <2>2. CASE ~InitWorktree /\ path' = "there"
    <3>1. path = "there" /\ ~RemoveWorktree
      BY <2>2 DEF Next, vars, Begin, Starts, CallStep, FindOpen, FindAny, FindAll, ReadBefore,
         InsertRefused, Insert, WriteFile, Reread, Update, NextDoc, CheckAccepted, CheckRejected,
         Restore, MarkSnapshot, Reads, ApplyPatch, RemoveWorktree, ForgetWorktree, Edit, treeVars
    <3> QED
      BY <1>2, <1>3, <2>2, <3>1, TextsOfOurs
  <2> QED
    BY <2>1, <2>2
<1> QED
  BY <1>1, <1>4, <1>5 DEF KnownOK

LEMMA FirstStays ==
    ASSUME Inv, HoldingsOK, [Next]_vars, NEW f \in Files, Ours(f)', KnownOK(f), FirstOK(f)
    PROVE  FirstOK(f)'
<1>1. Ours(f) /\ UNCHANGED origin /\ (Gone => Gone')
  BY OursBefore
<1> SUFFICES ASSUME Of(f)' = {} PROVE FirstOK(f)'
  BY DEF FirstOK
<1>2. Of(f) = {}
  BY PlainBefore
<1>3. /\ LiveOf(f) = origin[f]
      /\ path = "there" => TreeOf(f) = origin[f]
      /\ Gone => TreeOf(f) = "missing"
      /\ \A c \in Calls :
          call[c].step = "insert" /\ call[c].file = f =>
              call[c].seen = origin[f] \/ (Gone /\ call[c].seen = "missing")
  BY <1>2 DEF FirstOK
<1>4. /\ LiveOf(f)' = origin[f]
      /\ path' = "there" => TreeOf(f)' = origin[f]
      /\ Gone' => TreeOf(f)' = "missing"
  <2> USE DEF Gone
  <2>1. trees \in Nat /\ trees' <= 1
    BY DEF Inv, TypeOK, Ours
  <2>2. LiveOf(f)' = origin[f]
    BY <1>2, <1>3, TextsOfOurs DEF ApplyPatch
  <2>3. CASE InitWorktree
    BY <1>3, <2>1, <2>2, <2>3 DEF InitWorktree, TreeOf, LiveOf, WithTexts, Places
  <2>4. CASE RemoveWorktree
    BY <1>3, <2>1, <2>2, <2>4 DEF RemoveWorktree, TreeOf, LiveOf, WithTexts, Places
  <2>5. CASE ~InitWorktree /\ ~RemoveWorktree
    <3>1. TreeOf(f)' = TreeOf(f)
      BY <1>2, <2>5, TextsOfOurs
    <3>2. trees' = trees /\ (path' = "there" <=> path = "there")
      BY <2>5 DEF Next, vars, Begin, Starts, CallStep, FindOpen, FindAny, FindAll, ReadBefore,
         InsertRefused, Insert, WriteFile, Reread, Update, NextDoc, CheckAccepted, CheckRejected,
         Restore, MarkSnapshot, Reads, ApplyPatch, RemoveWorktree, ForgetWorktree, Edit, treeVars
    <3> QED
      BY <1>3, <2>2, <3>1, <3>2
  <2> QED
    BY <2>3, <2>4, <2>5
<1>5. ASSUME NEW c \in Calls, call'[c].step = "insert", call'[c].file = f
      PROVE  call'[c].seen = origin[f] \/ (Gone' /\ call'[c].seen = "missing")
  <2>1. CASE call'[c] = call[c]
    BY <1>1, <1>3, <1>5, <2>1
  <2>2. CASE call'[c] # call[c]
    <3>1. call[c].file = f /\ call'[c].seen = Text(c)
      BY <1>5, <2>2, TargetsOfAll, StepTargets
    <3>2. call[c].place \in Places /\ (trees = 0 => call[c].place = "live") /\ trees \in Nat
      BY CallFacts DEF CallRecord, RecordOK, Inv, TypeOK
    <3>3. call[c].place = "live" \/ path = "there" \/ Gone
      BY <1>1, <3>2 DEF Ours, Gone, Places
    <3>4. call[c].place = "tree" => path = "there" \/ Gone
      BY <1>1, <3>2 DEF Ours, Gone
    <3> QED
      BY <1>1, <1>3, <3>1, <3>2, <3>4 DEF Text, LiveOf, TreeOf, Places
  <2> QED
    BY <2>1, <2>2
<1> QED
  BY <1>1, <1>4, <1>5 DEF FirstOK

LEMMA LateStays ==
    ASSUME Inv, FilesOK, HoldingsOK, [Next]_vars, NEW f \in Files, Ours(f)',
           OneOK(f), KnownOK(f), FirstOK(f), LateOK(f)
    PROVE  LateOK(f)'
<1>1. Ours(f) /\ UNCHANGED origin /\ (Gone => Gone')
  BY OursBefore
<1> SUFFICES ASSUME NEW i \in Of(f)', snap'[i].before # origin[f]
             PROVE  /\ Gone'
                    /\ TreeOf(f)' # origin[f]
                    /\ snap'[i].after # origin[f]
                    /\ \A c \in Calls :
                        /\ call'[c].step = "update" /\ call'[c].file = f => call'[c].seen # origin[f]
                        /\ \A d \in Holds(call'[c]) : d.file = f => d.after # origin[f]
  BY <1>1 DEF LateOK, Holds
<1>2. origin[f] \in {"old", "missing"} /\ origin[f] \notin Calls /\ origin[f] # "none"
  BY LedgerAssumption DEF Inv, TypeOK
<1>3. CASE i \in Of(f)
  <2>1. snap'[i].before = snap[i].before
    BY <1>3, SnapsStay DEF Of
  <2>2. /\ Gone
        /\ TreeOf(f) # origin[f]
        /\ snap[i].after # origin[f]
        /\ \A c \in Calls :
            /\ call[c].step = "update" /\ call[c].file = f => call[c].seen # origin[f]
            /\ \A d \in Holds(call[c]) : d.file = f => d.after # origin[f]
    BY <1>3, <2>1 DEF LateOK
  <2>3. ~InitWorktree /\ ~RemoveWorktree
    BY <1>1, <2>2 DEF Gone, Ours, InitWorktree, RemoveWorktree
  <2>4. TreeOf(f)' # origin[f]
    BY <1>2, <1>3, <2>1, <2>2, <2>3, TextsOfOurs DEF OneOK
  <2>5. snap'[i].after # origin[f]
    <3>1. CASE snap'[i].after = snap[i].after
      BY <2>2, <3>1
    <3>2. CASE snap'[i].after # snap[i].after
      <4>1. PICK c \in Calls : Update(c) /\ call[c].doc.id = i
        BY <1>3, <3>2, AftersChange DEF Of
      <4>2. call[c].file = f /\ call[c].step = "update"
        BY <1>3, <4>1, CallFacts DEF Update, RecordOK, Refers, Of
      <4>3. snap'[i].after = call[c].seen
        <5>1. snap[i] \in Snapshot
          BY <1>3, MadeFacts DEF Of
        <5>2. snap' = [snap EXCEPT ![i] = [@ EXCEPT !.status = "open", !.after = call[c].seen]]
          BY <4>1 DEF Update
        <5> QED
          BY <1>3, <5>1, <5>2 DEF Snapshot, Inv, TypeOK, Of
      <4> QED
        BY <2>2, <4>2, <4>3
    <3> QED
      BY <3>1, <3>2
  <2>6. ASSUME NEW c \in Calls, call'[c].step = "update", call'[c].file = f
        PROVE  call'[c].seen # origin[f]
    <3>1. CASE call'[c] = call[c]
      BY <2>2, <2>6, <3>1
    <3>2. CASE call'[c] # call[c]
      <4>1. Reread(c) /\ call[c].file = f /\ call'[c].seen = Text(c)
        BY <2>6, <3>2, TargetsOfAll, StepTargets
      <4>2. call[c].place = "tree"
        BY <4>1, CallFacts DEF Reread, Reads, RecordOK
      <4> QED
        BY <2>2, <4>1, <4>2 DEF Text, TreeOf
    <3> QED
      BY <3>1, <3>2
  <2>7. ASSUME NEW c \in Calls, NEW d \in Holds(call'[c]), d.file = f
        PROVE  d.after # origin[f]
    <3>1. CASE d \in Holds(call[c])
      BY <2>2, <2>7, <3>1
    <3>2. CASE d \notin Holds(call[c])
      <4>1. PICK k \in Calls : snap[k].status # "none" /\ d = DocOf(k)
        BY <2>7, <3>2, HoldsOfAll
      <4>2. k \in Of(f) /\ d.after = snap[k].after
        BY <2>7, <4>1 DEF DocOf, Of
      <4> QED
        BY <1>3, <2>2, <4>2 DEF OneOK
    <3> QED
      BY <3>1, <3>2
  <2> QED
    BY <1>1, <2>2, <2>4, <2>5, <2>6, <2>7
<1>4. CASE i \notin Of(f)
  <2>1. PICK c \in Calls :
          /\ Of(f)' = Of(f) \cup {c}
          /\ Of(f) = {}
          /\ call[c].step = "insert" /\ call[c].file = f
          /\ snap'[c].before = call[c].seen /\ snap'[c].after = "none"
          /\ UNCHANGED <<text, path, trees>>
          /\ \A k \in Calls : k # c => call'[k] = call[k]
          /\ call'[c].step \notin {"update", "restore"}
    BY <1>1, <1>4, OfChanges DEF Ours
  <2>2. i = c
    BY <1>4, <2>1
  <2>3. Gone /\ call[c].seen = "missing" /\ TreeOf(f) = "missing" /\ origin[f] # "missing"
    BY <2>1, <2>2 DEF FirstOK
  <2>4. ASSUME NEW k \in Calls, call'[k].step = "update", call'[k].file = f PROVE FALSE
    <3>1. call'[k] = call[k]
      BY <2>1, <2>4
    <3> QED
      BY <2>1, <2>4, <3>1, CallFacts DEF RecordOK, Refers, Of
  <2>5. ASSUME NEW k \in Calls, NEW d \in Holds(call'[k]), d.file = f PROVE FALSE
    <3>1. CASE d \in Holds(call[k])
      BY <2>1, <2>5, <3>1, HeldIsMade DEF Of
    <3>2. CASE d \notin Holds(call[k])
      <4>1. PICK j \in Calls : snap[j].status # "none" /\ d = DocOf(j)
        BY <2>5, <3>2, HoldsOfAll
      <4> QED
        BY <2>1, <2>5, <4>1 DEF DocOf, Of
    <3> QED
      BY <3>1, <3>2
  <2>6. TreeOf(f)' = TreeOf(f)
    BY <2>1 DEF TreeOf
  <2> QED
    BY <1>1, <1>2, <2>1, <2>2, <2>3, <2>4, <2>5, <2>6
<1> QED
  BY <1>3, <1>4

LEMMA RestoreStays ==
    ASSUME Inv, HoldingsOK, [Next]_vars, NEW f \in Files, Ours(f)',
           OneOK(f), KnownOK(f), RestoreOK(f)
    PROVE  RestoreOK(f)'
<1> SUFFICES ASSUME NEW c \in Calls, call'[c].step = "restore", call'[c].place = "live",
                    call'[c].doc.file = f
             PROVE  LiveOf(f)' \in {call'[c].doc.after, call'[c].doc.before}
  BY DEF RestoreOK
<1>1. CASE call'[c] # call[c]
  <2>1. /\ call[c].place = "live" /\ call[c].doc = call'[c].doc
        /\ call[c].doc.after = Checked(c) /\ UNCHANGED text
    BY <1>1, TargetsOfAll, StepTargets
  <2> QED
    BY <2>1 DEF Checked, LiveOf
<1>2. CASE call'[c] = call[c]
  <2>1. LiveOf(f) \in {call[c].doc.after, call[c].doc.before}
    BY <1>2 DEF RestoreOK
  <2>2. call[c].doc \in Holds(call[c]) /\ call[c].doc.file = f
    BY <1>2 DEF Holds
  <2>3. call[c].doc.id \in Of(f) /\ call[c].doc.before = snap[call[c].doc.id].before
    BY <2>2, HeldIsMade DEF HoldingsOK, HoldsOK, Of
  <2>4. ~ApplyPatch
    <3>1. trees >= 1 /\ ~Unremoved
      BY <1>2, CallFacts DEF RecordOK
    <3>2. trees \in Nat /\ trees <= 1
      BY OursBefore DEF Ours, Inv, TypeOK
    <3> QED
      BY <3>1, <3>2 DEF Unremoved, ApplyPatch
  <2>5. LiveOf(f)' = LiveOf(f) \/ \E i \in Of(f) : LiveOf(f)' = snap[i].before
    BY <2>4, TextsOfOurs
  <2> QED
    BY <1>2, <2>1, <2>3, <2>5 DEF OneOK
<1> QED
  BY <1>1, <1>2

LEMMA NextUndone == Inv /\ WorkInv /\ AllUndoneOK /\ [Next]_vars => AllUndoneOK'
<1> SUFFICES ASSUME Inv, WorkInv, AllUndoneOK, [Next]_vars, NEW f \in Files, Ours(f)'
             PROVE  UndoneOK(f)'
  BY DEF AllUndoneOK
<1>1. UndoneOK(f)
  BY OursBefore DEF AllUndoneOK
<1> QED
  BY <1>1, OneStays, KnownOKStays, FirstStays, LateStays, RestoreStays DEF UndoneOK, WorkInv

LEMMA InitUndone == Init => AllUndoneOK
<1> SUFFICES ASSUME Init, NEW f \in Files PROVE UndoneOK(f)
  BY DEF AllUndoneOK
<1>1. Of(f) = {}
  BY DEF Init, Of, NotMade
<1>2. LiveOf(f) = origin[f] /\ path = "none" /\ trees = 0
  BY DEF Init, LiveOf, Places
<1>3. \A c \in Calls : call[c].step = "idle"
  BY DEF Init, NotBegun
<1> QED
  BY <1>1, <1>2, <1>3 DEF UndoneOK, OneOK, KnownOK, Known, FirstOK, LateOK, RestoreOK, Gone

\* While a worktree is recorded no call of the ledger's tools writes to the live
\* repository; after its removal a rejection does, and undoes what a merge had brought.
THEOREM LiveOnlyUndone == Spec => LiveChangedByUndo
<1> DEFINE Fine(f) == \/ ApplyPatch \/ Edit("live", f)
                      \/ /\ path = "none"
                         /\ \E i \in Of(f) : LiveOf(f)' = snap[i].before
                         /\ unique /\ (\A place \in Places : <<place, f>> \notin edited)
                              => LiveOf(f) \in Calls
<1>1. ASSUME Inv, WorkInv, AllUndoneOK, [Next]_vars, NEW f \in Files, trees <= 1, LiveOf(f)' # LiveOf(f)
      PROVE  Fine(f)
  <2>1. CASE Surroundings
    <3>1. ASSUME NEW place \in Places, NEW g \in Files, Edit(place, g) PROVE Edit("live", f)
      BY <1>1, <3>1 DEF Edit, LiveOf, Inv, TypeOK, Places
    <3> QED
      BY <1>1, <2>1, <3>1 DEF Surroundings, InitWorktree, RemoveWorktree, ForgetWorktree, LiveOf,
         WithTexts, Places
  <2>2. ASSUME NEW c \in Calls, WriteFile(c) \/ Restore(c) PROVE Fine(f)
    <3>1. PICK g \in Files, t \in Texts : Written(c, g, t)
      BY <1>1, <2>2, TextWritten
    <3>2. /\ g = f /\ call[c].place = "live" /\ Restore(c)
          /\ f = call[c].doc.file /\ LiveOf(f)' = call[c].doc.before
      BY <1>1, <2>2, <3>1 DEF Written, Places
    <3>3. call[c].doc \in Holds(call[c])
      BY <3>2 DEF Restore, Holds
    <3>4. call[c].doc.id \in Of(f) /\ call[c].doc.before = snap[call[c].doc.id].before
      BY <1>1, <3>2, <3>3, HeldIsMade DEF WorkInv, HoldingsOK, HoldsOK, Of
    <3>5. path = "none"
      <4>1. trees >= 1 /\ ~Unremoved
        BY <1>1, <3>2, CallFacts DEF RecordOK, Restore
      <4>2. trees \in Nat
        BY <1>1 DEF Inv, TypeOK
      <4> QED
        BY <1>1, <4>1, <4>2 DEF Unremoved
    <3>6. ASSUME unique, \A place \in Places : <<place, f>> \notin edited
          PROVE  LiveOf(f) \in Calls
      <4>1. UndoneOK(f)
        BY <1>1, <3>6 DEF AllUndoneOK, Ours
      <4>2. LiveOf(f) = call[c].doc.after
        BY <1>1, <3>2, <4>1 DEF UndoneOK, RestoreOK, Restore
      <4>3. \A i \in Of(f) : snap[i].before = LiveOf(f)'
        BY <3>2, <3>4, <4>1 DEF UndoneOK, OneOK
      <4>4. LiveOf(f) \in Calls \cup {origin[f]}
        BY <1>1, <4>1, <4>3 DEF UndoneOK, KnownOK, Known
      <4>5. LiveOf(f) # origin[f]
        <5> SUFFICES ASSUME LiveOf(f) = origin[f] PROVE FALSE
          OBVIOUS
        <5>1. snap[call[c].doc.id].before # origin[f]
          BY <1>1, <3>4, <4>3
        <5> QED
          BY <3>2, <3>3, <3>4, <4>1, <4>2, <5>1 DEF UndoneOK, LateOK
      <4> QED
        BY <4>4, <4>5
    <3> QED
      BY <3>2, <3>4, <3>5, <3>6
  <2> QED
    BY <1>1, <2>1, <2>2, TextsChange
<1> HIDE DEF Fine
<1>2. Inv /\ WorkInv /\ AllUndoneOK /\ [Next]_vars =>
        [\A f \in Files : (trees <= 1 /\ LiveOf(f)' # LiveOf(f)) => Fine(f)]_vars
  BY <1>1
<1>3. Spec => [][\A f \in Files : (trees <= 1 /\ LiveOf(f)' # LiveOf(f)) => Fine(f)]_vars
  BY <1>2, InitUndone, NextUndone, InitWork, NextWork, Invariant, PTL DEF Spec
<1> QED
  BY <1>3 DEF LiveChangedByUndo, Fine
=============================================================================
