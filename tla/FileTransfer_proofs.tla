------------------------- MODULE FileTransfer_proofs -------------------------
(***************************************************************************)
(* Theorems about FileTransfer: for any folders, names and first tree, any *)
(* number of roots, and other programs that create and delete files at any *)
(* paths, with any call failing.  Then about Archives: for any folders,    *)
(* labels and number of operations.                                        *)
(***************************************************************************)
EXTENDS MCFiles, SequenceTheorems, FiniteSetTheorems, WellFoundedInduction, TLAPS

-----------------------------------------------------------------------------
(* The inductive invariant.                                                *)

Working  == {"stage", "resolve", "clear", "aside", "act", "settle"}
Deciding == {"resolve", "clear", "aside", "act"}
Early    == {"planned", "next"} \cup Working
AtItem   == pc \in {"stage", "settle"} \/ (pc \in Deciding /\ doing # "move")
Moving   == pc \in Deciding /\ doing = "move"

\* Before the plan every file is where it was at first.
Unplanned ==
    /\ kind = "copy" /\ policy = "fail" /\ roots = {} /\ items = {} /\ found = {} /\ todo = {}
    /\ copied = {} /\ removing = {} /\ held = Nothing /\ overwritten = {} /\ doing = "move"
    /\ \A p \in Paths : at[p] \in {Nothing, Dir, p} /\ (at[p] # Nothing => p \in Initial)
    /\ \A f \in files : f \in Initial /\ at[f] = f

\* The target of what is at p, below root r.
TargetOf(p, r, t) == <<t>> \o SubSeq(p, Len(r), Len(p))

\* What the plan is, from then on.
Planned ==
    /\ top \in Tops /\ kind \in {"copy", "move"}
    /\ policy \in {"fail", "skip", "overwrite", "renameNew", "renameExisting"}
    /\ roots \subseteq Initial
    /\ items \subseteq [source : Initial, target : Paths, dir : BOOLEAN]
    /\ \A i \in items : \E r \in roots : Within(i.source, r) /\ i.target = TargetOf(i.source, r, top)
    /\ \A i, k \in items : i.source = k.source => i.dir = k.dir
    /\ \A i \in items : i.dir => i.source \notin files
    /\ found = {i.source : i \in {k \in items : ~k.dir}}

\* Where the executor is, and the path it works on.
StepFits ==
    /\ doing \in {"move", "file", "dir"}
    /\ pc = "stage" => doing = "file"
    /\ pc = "settle" => doing # "move"
    /\ pc = "clear" => policy = "overwrite"
    /\ pc = "aside" => policy = "renameExisting"
    /\ pc = "planned" => todo = items /\ copied = {}
    /\ pc = "remove" => kind = "move" /\ todo = {}
GoalFits == pc \in Working => goal \in Paths /\ goal[1] = top /\ goal[Len(goal)] \in Names
ItemFits == AtItem => /\ item \in items \ (todo \cup copied) /\ goal = item.target
                      /\ item.dir <=> doing = "dir"
ToFits ==
    pc \in {"clear", "aside", "act", "settle"} =>
        to \in Paths /\ to[1] = top /\ Len(to) = Len(goal) /\ (policy # "renameNew" => to = goal)
SpareFits ==
    pc = "aside" => /\ spare \in Paths /\ spare[1] = top /\ Len(spare) = Len(goal)
                    /\ spare # to => at[spare] \in {Nothing} \cup Strangers
MoveFits == Moving => /\ kind = "move" /\ copied = {} /\ todo = items /\ Len(goal) = 2
                      /\ \E r \in roots : roots = {r}

Way == StepFits /\ GoalFits /\ ItemFits /\ ToFits /\ SpareFits /\ MoveFits

\* A directory is taken before what is in it.
Order ==
    /\ copied \subseteq items \ todo
    /\ \A i \in items \ todo, k \in todo : ~Below(i.source, k.source)
    /\ AtItem => \A i \in copied : ~Below(i.source, item.source)

Mine(i)   == ~i.dir /\ i.source \in files
Stays(i)  == at[i.source] = i.source
InTop(f)  == \E q \in Paths : q[1] = top /\ at[q] = f
Placed(i) == IF policy = "overwrite" THEN at[i.target] = i.source ELSE InTop(i.source)

\* The staging file is there for an item only, and has its content.
HeldFits ==
    /\ held # Nothing => pc = "crashed" \/ (pc \in Deciding \cup {"stage"} /\ doing = "file")
    /\ Separate /\ pc \in Deciding \cup {"stage"} /\ doing = "file" /\ Mine(item) => held = item.source

\* Until sources are removed, each is in its place; each that was copied is below the top folder.
SourcesStay == pc \in Early => \A i \in items : Mine(i) => Stays(i)

CopiesStay ==
    /\ pc \in Early \cup {"remove"} => \A i \in copied : Mine(i) => Placed(i)
    /\ pc = "settle" /\ Mine(item) => Placed(item)

\* While sources are removed, those to be removed and those to stay are still there.
RemovalFits ==
    pc = "remove" =>
        /\ removing \subseteq Removable
        /\ \A i \in items : Mine(i) /\ (i.source \in removing \/ i.source \notin Removable) => Stays(i)
        /\ \A s \in Removable \ removing : at[s] \notin {s, Dir}

SourcesPure ==
    pc \in Early \cup {"remove"} => \A i \in items : at[i.source] \in {Nothing, Dir, i.source} \cup Strangers

\* Without other programs a rename never meets a file.
Quiet ==
    Strangers = {} =>
        /\ pc = "planned" \/ (pc = "resolve" /\ Moving) => \A p \in Paths : at[p] # Nothing => p \in Initial
        /\ pc = "resolve" /\ Moving /\ policy = "skip" => at[goal] = Nothing
        /\ pc = "aside" /\ Moving => spare # to
        /\ pc = "act" /\ Moving => at[to] = Nothing

RunInv  == Planned /\ Way /\ Order /\ HeldFits
TreeInv == SourcesStay /\ CopiesStay /\ RemovalFits /\ SourcesPure /\ Quiet

TransferInv ==
    /\ TypeOK
    /\ pc = "new" => Unplanned
    /\ pc # "new" => RunInv
    /\ pc # "new" /\ Separate => TreeInv
    /\ RootsKept

-----------------------------------------------------------------------------
(* Paths, and the file system by paths.                                    *)

\* A path is a folder, a name, and perhaps a name in the directory of that name.
LEMMA PathShape ==
    ASSUME NEW p \in Paths
    PROVE  /\ p[1] \in Tops /\ p[2] \in Entries
           /\ \/ Len(p) = 2 /\ p = <<p[1], p[2]>>
              \/ Len(p) = 3 /\ p[3] \in Entries /\ p = <<p[1], p[2], p[3]>>
           /\ p \in Seq(Tops \cup Entries)
<1>1. CASE p \in {<<t, n>> : t \in Tops, n \in Entries}
  <2>1. PICK t \in Tops, n \in Entries : p = <<t, n>>
    BY <1>1
  <2> QED BY <2>1
<1>2. CASE p \in {<<t, n, m>> : t \in Tops, n \in Entries, m \in Entries}
  <2>1. PICK t \in Tops, n \in Entries, m \in Entries : p = <<t, n, m>>
    BY <1>2
  <2> QED BY <2>1
<1> QED BY <1>1, <1>2 DEF Paths

\* Paths from their parts.
LEMMA PathsMade ==
    ASSUME NEW t \in Tops, NEW n \in Entries
    PROVE  /\ <<t, n>> \in Paths
           /\ \A m \in Entries : <<t, n, m>> \in Paths
  BY DEF Paths

\* Paths are the same when their parts are.
LEMMA SamePath ==
    ASSUME NEW p \in Paths, NEW q \in Paths, Len(p) = Len(q), p[1] = q[1], p[2] = q[2],
           Len(p) = 3 => p[3] = q[3]
    PROVE  p = q
<1> DEFINE U == Tops \cup Entries
<1>1. p \in Seq(U) /\ q \in Seq(U) /\ Len(p) \in {2, 3}
  BY PathShape
<1>2. \A i \in 1 .. Len(p) : p[i] = q[i]
  BY <1>1
<1> HIDE DEF U
<1> QED BY <1>1, <1>2, SeqEqual

\* There are two levels: within a path is the path itself or, if it is short, what is in it.
LEMMA WithinIs ==
    ASSUME NEW p \in Paths, NEW q \in Paths
    PROVE  Within(q, p) <=> \/ q = p
                            \/ Len(p) = 2 /\ Len(q) = 3 /\ q[1] = p[1] /\ q[2] = p[2]
<1> DEFINE U == Tops \cup Entries
           s == SubSeq(q, 1, Len(p))
<1>1. p \in Seq(U) /\ q \in Seq(U) /\ Len(p) \in {2, 3} /\ Len(q) \in {2, 3}
  BY PathShape
<1>2. CASE Len(p) <= Len(q)
  <2>1. s \in Seq(U) /\ Len(s) = Len(p) /\ \A i \in 1 .. Len(p) : s[i] = q[i]
    BY <1>1, <1>2, SubSeqProperties
  <2>2. s = p <=> \A i \in 1 .. Len(p) : q[i] = p[i]
    <3> HIDE DEF s, U
    <3>1. ASSUME \A i \in 1 .. Len(p) : q[i] = p[i] PROVE s = p
      BY <2>1, <1>1, <3>1, SeqEqual
    <3> QED BY <2>1, <3>1
  <2>3. (\A i \in 1 .. Len(p) : q[i] = p[i]) <=>
            q[1] = p[1] /\ q[2] = p[2] /\ (Len(p) = 3 => q[3] = p[3])
    BY <1>1
  <2>4. Within(q, p) <=> q[1] = p[1] /\ q[2] = p[2] /\ (Len(p) = 3 => q[3] = p[3])
    BY <2>2, <2>3, <1>2 DEF Within
  <2> QED BY <2>4, <1>1, <1>2, SamePath
<1>3. CASE ~(Len(p) <= Len(q))
  BY <1>1, <1>3 DEF Within
<1> QED BY <1>2, <1>3

\* The directory of a path with two names.
LEMMA FolderIs ==
    ASSUME NEW p \in Paths, Len(p) = 3
    PROVE  Folder(p) = <<p[1], p[2]>> /\ Folder(p) \in Paths
<1> DEFINE U == Tops \cup Entries
           s == SubSeq(p, 1, Len(p) - 1)
<1>1. p \in Seq(U) /\ p[1] \in Tops /\ p[2] \in Entries
  BY PathShape
<1>2. s \in Seq(U) /\ Len(s) = 2 /\ s[1] = p[1] /\ s[2] = p[2]
  BY <1>1, SubSeqProperties
<1>3. <<p[1], p[2]>> \in Seq(U) /\ Len(<<p[1], p[2]>>) = 2
  BY <1>1
<1>4. s = <<p[1], p[2]>>
  <2> HIDE DEF s, U
  <2> QED BY <1>2, <1>3, SeqEqual
<1> QED BY <1>1, <1>4, PathsMade DEF Folder

\* What a rename puts at a path that is the new name, below it, or elsewhere.
LEMMA AfterRenameIs ==
    ASSUME NEW p \in Paths, NEW r \in Paths, NEW q \in Paths
    PROVE  /\ q = r => AfterRename(p, r, q) = at[p]
           /\ Below(q, r) /\ Len(p) = 2 =>
                <<p[1], p[2], q[3]>> \in Paths /\ AfterRename(p, r, q) = at[<<p[1], p[2], q[3]>>]
           /\ Below(q, r) /\ Len(p) = 3 => AfterRename(p, r, q) = Nothing
           /\ ~Within(q, r) => AfterRename(p, r, q) = IF Within(q, p) THEN Nothing ELSE at[q]
<1> DEFINE U == Tops \cup Entries
           rest == SubSeq(q, Len(r) + 1, Len(q))
           origin == p \o rest
<1>1. p \in Seq(U) /\ q \in Seq(U) /\ r \in Seq(U) /\ p[1] \in Tops /\ p[2] \in Entries
  BY PathShape
<1>2. CASE q = r
  <2>1. rest = <<>>
    BY <1>1, <1>2, SubSeqEmpty
  <2>2. origin = p
    <3> HIDE DEF rest, U
    <3> QED BY <1>1, <2>1, ConcatEmptySeq
  <2>3. Within(q, r)
    BY <1>2, WithinIs
  <2> QED BY <2>2, <2>3, <1>2 DEF AfterRename, Below
<1>3. CASE Below(q, r)
  <2>1. Len(r) = 2 /\ Len(q) = 3 /\ q[3] \in Entries /\ Within(q, r) /\ q # r
    BY <1>3, WithinIs, PathShape DEF Below
  <2>2. rest \in Seq(U) /\ Len(rest) = 1 /\ rest[1] = q[3]
    BY <1>1, <2>1, SubSeqProperties
  <2>3. origin \in Seq(U) /\ Len(origin) = Len(p) + 1 /\ (\A i \in 1 .. Len(p) : origin[i] = p[i])
        /\ origin[Len(p) + 1] = q[3]
    <3> HIDE DEF rest, U
    <3>1. /\ origin \in Seq(U) /\ Len(origin) = Len(p) + Len(rest)
          /\ \A i \in 1 .. Len(p) + Len(rest) :
               origin[i] = IF i <= Len(p) THEN p[i] ELSE rest[i - Len(p)]
      BY <1>1, <2>2, ConcatProperties
    <3>2. Len(p) \in {2, 3}
      BY PathShape
    <3> HIDE DEF origin
    <3> QED BY <2>2, <3>1, <3>2
  <2>4. CASE Len(p) = 2
    <3> DEFINE o == <<p[1], p[2], q[3]>>
    <3>0. o \in Paths
      BY <1>1, <2>1, PathsMade
    <3>1. o \in Paths /\ o \in Seq(U) /\ Len(o) = 3 /\ o[1] = p[1] /\ o[2] = p[2] /\ o[3] = q[3]
      BY <1>1, <2>1, <3>0
    <3>2. \A i \in 1 .. 3 : origin[i] = o[i]
      <4> HIDE DEF origin, o
      <4> QED BY <2>3, <2>4, <3>1
    <3>3. origin = o
      <4> HIDE DEF origin, o, U
      <4> QED BY <2>3, <2>4, <3>1, <3>2, SeqEqual
    <3>4. AfterRename(p, r, q) = IF origin \in Paths THEN at[origin] ELSE Nothing
      BY <2>1 DEF AfterRename
    <3> HIDE DEF origin, o
    <3>5. AfterRename(p, r, q) = at[o]
      BY <3>1, <3>3, <3>4
    <3> QED BY <3>1, <3>5, <2>4, <2>1 DEF o
  <2>5. CASE Len(p) = 3
    <3>1. origin \notin Paths
      <4> HIDE DEF origin
      <4> SUFFICES ASSUME origin \in Paths PROVE FALSE
        OBVIOUS
      <4>1. Len(origin) \in {2, 3}
        BY PathShape
      <4> QED BY <2>3, <2>5, <4>1
    <3> QED BY <2>1, <3>1, <2>5 DEF AfterRename
  <2> QED BY <2>1, <2>4, <2>5, PathShape
<1>4. CASE ~Within(q, r)
  BY <1>4, WithinIs DEF AfterRename, Below
<1> QED BY <1>2, <1>3, <1>4 DEF Below

\* What a rename does, path by path: p goes to r with all that is below it.
LEMMA RenameIs ==
    ASSUME NEW p \in Paths, NEW r \in Paths, Rename(p, r)
    PROVE  /\ DOMAIN at' = Paths
           /\ at'[r] = at[p]
           /\ \A q \in Paths : Below(q, r) =>
                \/ at'[q] = Nothing
                \/ Len(p) = 2 /\ <<p[1], p[2], q[3]>> \in Paths /\ at'[q] = at[<<p[1], p[2], q[3]>>]
           /\ \A q \in Paths : ~Within(q, r) => at'[q] = IF Within(q, p) THEN Nothing ELSE at[q]
<1>1. at' = [q \in Paths |-> AfterRename(p, r, q)]
  BY DEF Rename
<1>2. \A q \in Paths : at'[q] = AfterRename(p, r, q)
  BY <1>1
<1>3. \A q \in Paths : Below(q, r) =>
        \/ at'[q] = Nothing
        \/ Len(p) = 2 /\ <<p[1], p[2], q[3]>> \in Paths /\ at'[q] = at[<<p[1], p[2], q[3]>>]
  BY <1>2, AfterRenameIs, PathShape
<1>4. ASSUME NEW q \in Paths, ~Within(q, r)
      PROVE  at'[q] = IF Within(q, p) THEN Nothing ELSE at[q]
  BY <1>2, <1>4 DEF AfterRename
<1>5. at'[r] = at[p]
  BY <1>2, AfterRenameIs
<1> QED BY <1>1, <1>3, <1>4, <1>5

\* What was at p or below it is then at r or below it.
LEMMA RenameMoves ==
    ASSUME NEW p \in Paths, NEW r \in Paths, Rename(p, r), Len(r) = 2 \/ Len(p) = Len(r),
           NEW q \in Paths, Within(q, p)
    PROVE  \E s \in Paths : s[1] = r[1] /\ at'[s] = at[q]
<1>1. CASE q = p
  BY <1>1, RenameIs
<1>2. CASE q # p
  <2>1. Len(p) = 2 /\ Len(q) = 3 /\ q[1] = p[1] /\ q[2] = p[2] /\ Len(r) = 2 /\ q[3] \in Entries
    BY <1>2, WithinIs, PathShape
  <2> DEFINE s == <<r[1], r[2], q[3]>>
             o == <<p[1], p[2], s[3]>>
  <2>2. s \in Paths /\ Len(s) = 3 /\ s[1] = r[1] /\ s[2] = r[2] /\ s[3] = q[3]
    BY <2>1, PathShape, PathsMade
  <2>3. Below(s, r)
    <3> HIDE DEF s
    <3> QED BY <2>1, <2>2, WithinIs DEF Below
  <2>4. o \in Paths /\ at'[s] = at[o]
    <3>1. at'[s] = AfterRename(p, r, s)
      <4> HIDE DEF s
      <4> QED BY <2>2 DEF Rename
    <3> HIDE DEF s
    <3> QED BY <3>1, <2>1, <2>2, <2>3, AfterRenameIs
  <2>5. o = q
    BY <2>1, <2>2, PathShape
  <2> HIDE DEF s, o
  <2> QED BY <2>2, <2>4, <2>5
<1> QED BY <1>1, <1>2

-----------------------------------------------------------------------------
(* The names of conflict resolution.                                       *)

\* What is there at first has no numbered name.
LEMMA InitialIs ==
    ASSUME NEW p \in Initial
    PROVE  p \in Paths /\ p[2] \in Names /\ (Len(p) = 3 => p[3] \in Names) /\ p[Len(p)] \in Names
<1>1. p \in Paths /\ \A k \in 2 .. Len(p) : p[k] \in Names
  BY TransferConstants
<1>2. Len(p) \in {2, 3}
  BY <1>1, PathShape
<1> QED BY <1>1, <1>2

\* A numbered name is beside its path, and is no name of the first tree.
LEMMA VariantIs ==
    ASSUME NEW p \in Paths, p[Len(p)] \in Names, NEW i \in 1 .. LastNumber
    PROVE  /\ Variant(p, i) \in Paths \ Initial
           /\ Len(Variant(p, i)) = Len(p) /\ Variant(p, i)[1] = p[1]
<1> DEFINE U == Tops \cup Entries
           n == Numbered(p[Len(p)], i)
           f == Folder(p)
           v == Append(f, n)
<1>1. p \in Seq(U) /\ p[1] \in Tops /\ p[2] \in Entries /\ Len(p) \in {2, 3}
  BY PathShape
<1>2. n \in Entries /\ n \notin Names
  BY TransferConstants DEF Entries
<1>3. f \in Seq(U) /\ Len(f) = Len(p) - 1 /\ f[1] = p[1] /\ (Len(p) = 3 => f[2] = p[2])
  <2>1. /\ SubSeq(p, 1, Len(p) - 1) \in Seq(U)
        /\ Len(SubSeq(p, 1, Len(p) - 1)) = IF 1 <= Len(p) - 1 THEN (Len(p) - 1) - 1 + 1 ELSE 0
        /\ \A j \in 1 .. (Len(p) - 1) - 1 + 1 : SubSeq(p, 1, Len(p) - 1)[j] = p[1 + j - 1]
    <3>1. \A j \in 1 .. Len(p) - 1 : p[j] \in U
      BY <1>1
    <3> HIDE DEF U
    <3> QED BY <1>1, <3>1, SubSeqProperties
  <2>2. /\ f \in Seq(U) /\ Len(f) = Len(p) - 1
        /\ \A j \in 1 .. Len(p) - 1 : f[j] = p[1 + j - 1]
    <3> HIDE DEF U
    <3> QED BY <2>1, <1>1 DEF Folder
  <2> HIDE DEF f, U
  <2> QED BY <1>1, <2>2
<1>4. v \in Seq(U) /\ Len(v) = Len(p) /\ v[1] = p[1] /\ v[Len(p)] = n /\ (Len(p) = 3 => v[2] = p[2])
  <2> HIDE DEF n, f
  <2>1. n \in U
    BY <1>2
  <2> HIDE DEF U
  <2>2. /\ v \in Seq(U) /\ Len(v) = Len(f) + 1
        /\ \A k \in 1 .. Len(f) : v[k] = f[k]
        /\ v[Len(f) + 1] = n
    BY <2>1, <1>3, AppendProperties
  <2> HIDE DEF v
  <2> QED BY <1>1, <1>3, <2>2
<1>5. v \in Paths
  <2> HIDE DEF n, f
  <2>1. CASE Len(p) = 2
    <3>1. <<p[1], n>> \in Paths
      BY <1>1, <1>2, PathsMade
    <3>2. v = <<p[1], n>>
      <4> DEFINE o == <<p[1], n>>
      <4>1. o \in Seq(U) /\ Len(o) = 2 /\ o[1] = p[1] /\ o[2] = n
        BY <1>1, <1>2
      <4> HIDE DEF o, U, v
      <4>2. v = o
        BY <4>1, <1>4, <2>1, SeqEqual
      <4> QED BY <4>2 DEF o
    <3> QED BY <3>1, <3>2
  <2>2. CASE Len(p) = 3
    <3>1. <<p[1], p[2], n>> \in Paths
      BY <1>1, <1>2, PathsMade
    <3>2. v = <<p[1], p[2], n>>
      <4> DEFINE o == <<p[1], p[2], n>>
      <4>1. o \in Seq(U) /\ Len(o) = 3 /\ o[1] = p[1] /\ o[2] = p[2] /\ o[3] = n
        BY <1>1, <1>2
      <4> HIDE DEF o, U, v
      <4>2. v = o
        BY <4>1, <1>4, <2>2, SeqEqual
      <4> QED BY <4>2 DEF o
    <3> QED BY <3>1, <3>2
  <2> QED BY <1>1, <2>1, <2>2
<1>6. v \notin Initial
  <2> HIDE DEF v, n
  <2> SUFFICES ASSUME v \in Initial PROVE FALSE
    OBVIOUS
  <2>1. v[Len(v)] \in Names
    BY InitialIs
  <2> QED BY <2>1, <1>2, <1>4
<1> QED BY <1>4, <1>5, <1>6 DEF Variant

Smaller == {ss \in Nat \X Nat : ss[1] < ss[2]}

\* A set of numbers that is not empty has a least one.
LEMMA LeastNumber ==
    ASSUME NEW T, T \subseteq Nat, T # {}
    PROVE  \E x \in T : \A y \in T : x <= y
<1>1. IsWellFoundedOn(Smaller, Nat)
  <2>1. OpToRel(<, Nat) = Smaller
    BY DEF OpToRel, Smaller
  <2> QED BY <2>1, NatLessThanWellFounded
<1>2. PICK x \in T : \A y \in T : ~(<<y, x>> \in Smaller)
  BY <1>1, WFMin
<1>3. ASSUME NEW y \in T PROVE x <= y
  <2>1. x \in Nat /\ y \in Nat /\ <<y, x>> \notin Smaller
    BY <1>2
  <2>2. ~(y < x)
    BY <2>1 DEF Smaller
  <2> QED BY <2>1, <2>2
<1> QED BY <1>3

\* next_available_path gives a free numbered name, unless all are taken.
LEMMA NextAvailableIs ==
    ASSUME NEW p \in Paths, p[Len(p)] \in Names
    PROVE  /\ \/ NextAvailable(p) = p
              \/ /\ NextAvailable(p) \in Paths \ Initial
                 /\ Len(NextAvailable(p)) = Len(p) /\ NextAvailable(p)[1] = p[1]
                 /\ at[NextAvailable(p)] = Nothing
           /\ (\A q \in Paths \ Initial : at[q] = Nothing) =>
                NextAvailable(p) \in Paths \ Initial /\ at[NextAvailable(p)] = Nothing
<1> DEFINE free == {i \in 1 .. LastNumber : at[Variant(p, i)] = Nothing}
           k == CHOOSE i \in free : \A j \in free : i <= j
<1>1. CASE free = {}
  <2>1. NextAvailable(p) = p
    BY <1>1 DEF NextAvailable
  <2>2. 1 \in 1 .. LastNumber
    BY TransferConstants
  <2>3. Variant(p, 1) \in Paths \ Initial /\ at[Variant(p, 1)] # Nothing
    BY <1>1, <2>2, VariantIs
  <2> QED BY <2>1, <2>3
<1>2. CASE free # {}
  <2>1. \E i \in free : \A j \in free : i <= j
    <3>1. free \subseteq Nat
      BY TransferConstants
    <3> HIDE DEF free
    <3> QED BY <1>2, <3>1, LeastNumber
  <2>2. k \in free
    BY <2>1
  <2>3. NextAvailable(p) = Variant(p, k)
    BY <1>2 DEF NextAvailable
  <2> HIDE DEF k
  <2>4. k \in 1 .. LastNumber /\ at[Variant(p, k)] = Nothing
    BY <2>2
  <2> QED BY <2>3, <2>4, VariantIs
<1> QED BY <1>1, <1>2

\* The target of an item keeps the last name of its root, and its own below it.
LEMMA TargetIs ==
    ASSUME NEW r \in Initial, NEW p \in Initial, Within(p, r), NEW t \in Tops
    PROVE  /\ TargetOf(p, r, t) \in Paths /\ TargetOf(p, r, t)[1] = t /\ TargetOf(p, r, t)[2] = r[Len(r)]
           /\ TargetOf(p, r, t)[Len(TargetOf(p, r, t))] \in Names
           /\ \/ p = r /\ Len(TargetOf(p, r, t)) = 2
              \/ /\ Len(r) = 2 /\ Len(p) = 3 /\ p[1] = r[1] /\ p[2] = r[2]
                 /\ Len(TargetOf(p, r, t)) = 3 /\ TargetOf(p, r, t)[3] = p[3]
           /\ p[1] = r[1]
<1> DEFINE U == Tops \cup Entries
           s == SubSeq(p, Len(r), Len(p))
           g == <<t>> \o s
<1>1. /\ p \in Paths /\ r \in Paths /\ p \in Seq(U) /\ r \in Seq(U)
      /\ p[2] \in Names /\ r[2] \in Names /\ (Len(p) = 3 => p[3] \in Names)
      /\ Len(p) \in {2, 3} /\ Len(r) \in {2, 3} /\ Len(r) <= Len(p)
  BY InitialIs, PathShape, WithinIs
<1>2. Names \subseteq Entries
  BY DEF Entries
<1>3. s \in Seq(U) /\ Len(s) = Len(p) - Len(r) + 1 /\ s[1] = p[Len(r)]
      /\ (Len(p) - Len(r) = 1 => s[2] = p[Len(r) + 1])
  <2>1. \A j \in Len(r) .. Len(p) : p[j] \in U
    BY <1>1
  <2>2. /\ s \in Seq(U) /\ Len(s) = IF Len(r) <= Len(p) THEN Len(p) - Len(r) + 1 ELSE 0
        /\ \A j \in 1 .. Len(p) - Len(r) + 1 : s[j] = p[Len(r) + j - 1]
    <3> HIDE DEF U
    <3> QED BY <1>1, <2>1, SubSeqProperties
  <2> HIDE DEF s, U
  <2> QED BY <1>1, <2>2
<1>4. g \in Seq(U) /\ Len(g) = Len(s) + 1 /\ g[1] = t /\ g[2] = s[1] /\ (Len(s) = 2 => g[3] = s[2])
  <2>1. <<t>> \in Seq(U) /\ Len(<<t>>) = 1 /\ <<t>>[1] = t
    OBVIOUS
  <2> HIDE DEF s, U
  <2>2. /\ g \in Seq(U) /\ Len(g) = Len(<<t>>) + Len(s)
        /\ \A j \in 1 .. Len(<<t>>) + Len(s) : g[j] = IF j <= Len(<<t>>) THEN <<t>>[j] ELSE s[j - Len(<<t>>)]
    BY <2>1, <1>3, ConcatProperties
  <2>3. Len(s) \in {1, 2}
    BY <1>1, <1>3
  <2> HIDE DEF g
  <2> QED BY <2>1, <2>2, <2>3
<1>5. CASE p = r
  <2>1. Len(g) = 2 /\ g[1] = t /\ g[2] = r[Len(r)] /\ g[2] \in Names
    <3> HIDE DEF s, g
    <3> QED BY <1>1, <1>3, <1>4, <1>5
  <2>2. <<t, g[2]>> \in Paths
    <3> HIDE DEF g
    <3> QED BY <2>1, <1>2, PathsMade
  <2>3. g = <<t, g[2]>>
    <3> DEFINE o == <<t, g[2]>>
    <3>1. o \in Seq(U) /\ Len(o) = 2 /\ o[1] = t /\ o[2] = g[2]
      <4> HIDE DEF g
      <4> QED BY <2>1, <1>2
    <3> HIDE DEF o, U, g
    <3>2. g = o
      BY <3>1, <1>4, <2>1, SeqEqual
    <3> QED BY <3>2 DEF o
  <2> HIDE DEF g
  <2>4. TargetOf(p, r, t) = g
    BY DEF TargetOf, g
  <2> QED BY <2>1, <2>2, <2>3, <2>4, <1>5
<1>6. CASE p # r
  <2>0. Len(r) = 2 /\ Len(p) = 3 /\ p[1] = r[1] /\ p[2] = r[2]
    BY <1>1, <1>6, WithinIs
  <2>1. Len(g) = 3 /\ g[1] = t /\ g[2] = r[Len(r)] /\ g[2] \in Names /\ g[3] = p[3] /\ g[3] \in Names
    <3> HIDE DEF s, g
    <3> QED BY <1>1, <1>3, <1>4, <2>0
  <2>2. <<t, g[2], g[3]>> \in Paths
    <3> HIDE DEF g
    <3> QED BY <2>1, <1>2, PathsMade
  <2>3. g = <<t, g[2], g[3]>>
    <3> DEFINE o == <<t, g[2], g[3]>>
    <3>1. o \in Seq(U) /\ Len(o) = 3 /\ o[1] = t /\ o[2] = g[2] /\ o[3] = g[3]
      <4> HIDE DEF g
      <4> QED BY <2>1, <1>2
    <3> HIDE DEF o, U, g
    <3>2. g = o
      BY <3>1, <1>4, <2>1, SeqEqual
    <3> QED BY <3>2 DEF o
  <2> HIDE DEF g
  <2>4. TargetOf(p, r, t) = g
    BY DEF TargetOf, g
  <2> QED BY <2>0, <2>1, <2>2, <2>3, <2>4
<1> QED BY <1>5, <1>6

-----------------------------------------------------------------------------
(* What the plan says of its items.                                        *)

\* The constants: nothing and a directory are no files, and a stranger is none of the first files.
LEMMA NothingIsNoFile == Nothing \notin Files /\ Dir \notin Files /\ Nothing # Dir /\ Initial \subseteq Files
                         /\ Strangers \subseteq Files /\ Initial \cap Strangers = {}
  BY TransferConstants DEF Files

\* An item, taken from the plan.
LEMMA ItemIs ==
    ASSUME Planned, NEW i \in items
    PROVE  /\ i.source \in Initial /\ i.source \in Paths /\ i.target \in Paths /\ i.dir \in BOOLEAN
           /\ i.target[1] = top /\ i.target[Len(i.target)] \in Names
           /\ i = [source |-> i.source, target |-> i.target, dir |-> i.dir]
           /\ \E r \in roots : r \in Initial /\ Within(i.source, r) /\ i.target = TargetOf(i.source, r, top)
                               /\ i.source[1] = r[1]
<1>1. i \in [source : Initial, target : Paths, dir : BOOLEAN]
  BY DEF Planned
<1>2. i.source \in Initial /\ i.target \in Paths /\ i.dir \in BOOLEAN
      /\ i = [source |-> i.source, target |-> i.target, dir |-> i.dir]
  BY <1>1
<1>3. PICK r \in roots : Within(i.source, r) /\ i.target = TargetOf(i.source, r, top)
  BY DEF Planned
<1>4. r \in Initial /\ top \in Tops
  BY DEF Planned
<1>5. i.target[1] = top /\ i.target[Len(i.target)] \in Names /\ i.source[1] = r[1]
  BY <1>2, <1>3, <1>4, TargetIs
<1> QED BY <1>2, <1>3, <1>4, <1>5, InitialIs

\* Sources that come from elsewhere are not below the top folder.
LEMMA SourceElsewhere ==
    ASSUME Planned, Separate, NEW i \in items
    PROVE  i.source[1] # top
<1>1. PICK r \in roots : i.source[1] = r[1]
  BY ItemIs
<1> QED BY <1>1 DEF Separate

\* The targets of two items are as far apart as their sources.
LEMMA TargetsApart ==
    ASSUME Planned, Separate, NEW i \in items, NEW k \in items, Within(i.target, k.target)
    PROVE  i = k \/ Below(i.source, k.source)
<1>1. PICK r \in roots : r \in Initial /\ Within(i.source, r) /\ i.target = TargetOf(i.source, r, top)
                         /\ i.source[1] = r[1]
  BY ItemIs
<1>2. PICK s \in roots : s \in Initial /\ Within(k.source, s) /\ k.target = TargetOf(k.source, s, top)
                         /\ k.source[1] = s[1]
  BY ItemIs
<1>3. /\ i.source \in Initial /\ k.source \in Initial /\ i.source \in Paths /\ k.source \in Paths
      /\ i.target \in Paths /\ k.target \in Paths /\ top \in Tops
  BY ItemIs DEF Planned
<1>4. /\ i.target[2] = r[Len(r)]
      /\ \/ i.source = r /\ Len(i.target) = 2
         \/ /\ Len(r) = 2 /\ Len(i.source) = 3 /\ i.source[1] = r[1] /\ i.source[2] = r[2]
            /\ Len(i.target) = 3 /\ i.target[3] = i.source[3]
  BY <1>1, <1>3, TargetIs
<1>5. /\ k.target[2] = s[Len(s)]
      /\ \/ k.source = s /\ Len(k.target) = 2
         \/ /\ Len(s) = 2 /\ Len(k.source) = 3 /\ k.source[1] = s[1] /\ k.source[2] = s[2]
            /\ Len(k.target) = 3 /\ k.target[3] = k.source[3]
  BY <1>2, <1>3, TargetIs
<1>6. i.target[2] = k.target[2]
  BY <1>3, WithinIs
<1>7. r = s
  BY <1>4, <1>5, <1>6 DEF Separate
<1>8. CASE i.source = k.source
  <2>1. i.target = k.target
    BY <1>1, <1>2, <1>7, <1>8
  <2>2. i.dir = k.dir
    BY <1>8 DEF Planned
  <2> QED BY <1>8, <2>1, <2>2, ItemIs
<1>9. CASE i.source # k.source
  <2>1. CASE k.source = s
    <3>1. Within(i.source, k.source)
      BY <1>1, <1>7, <2>1
    <3> QED BY <3>1, <1>9 DEF Below
  <2>2. CASE k.source # s
    <3>1. i.target = k.target
      BY <1>3, <1>5, <2>2, WithinIs
    <3>2. i.source = k.source
      BY <1>3, <1>4, <1>5, <1>7, <2>2, <3>1, SamePath
    <3> QED BY <3>2, <1>9
  <2> QED BY <2>1, <2>2
<1> QED BY <1>8, <1>9

\* There is nothing below what is no directory.
LEMMA NothingBelow ==
    ASSUME TreeShape, NEW p \in Paths, at[p] # Dir, NEW q \in Paths, Below(q, p)
    PROVE  at[q] = Nothing
<1>1. Len(p) = 2 /\ Len(q) = 3 /\ q[1] = p[1] /\ q[2] = p[2]
  BY WithinIs DEF Below
<1>2. Folder(q) = <<p[1], p[2]>>
  BY <1>1, FolderIs
<1>3. Folder(q) = p
  BY <1>1, <1>2, PathShape
<1>4. at[q] # Nothing => at[Folder(q)] = Dir
  BY <1>1 DEF TreeShape, HasFolder
<1> QED BY <1>3, <1>4

\* The directory of a path, and what it is within.
LEMMA FolderOf ==
    ASSUME NEW q \in Paths, Len(q) = 3, NEW p \in Paths
    PROVE  /\ Folder(q) \in Paths /\ Len(Folder(q)) = 2 /\ Folder(q)[1] = q[1] /\ Folder(q) # q
           /\ Within(Folder(q), p) => Within(q, p)
           /\ Folder(q) = p => Below(q, p)
<1>1. Folder(q) = <<q[1], q[2]>> /\ Folder(q) \in Paths
  BY FolderIs
<1>2. Len(Folder(q)) = 2 /\ Folder(q)[1] = q[1] /\ Folder(q)[2] = q[2]
  BY <1>1
<1>3. Within(q, Folder(q)) /\ Folder(q) # q
  BY <1>1, <1>2, WithinIs
<1>4. Within(Folder(q), p) => Within(q, p)
  <2>1. Len(p) \in {2, 3}
    BY PathShape
  <2> QED BY <1>1, <1>2, <2>1, WithinIs, SamePath
<1> QED BY <1>1, <1>2, <1>3, <1>4 DEF Below

-----------------------------------------------------------------------------
(* Every change of the tree leaves a tree.                                 *)

\* The two lengths of a path.
LEMMA PathLen == \A p \in Paths : Len(p) \in {2, 3}
  BY PathShape

\* The longer paths are those in a directory.
LEMMA LongIsThree == \A p \in Paths : Len(p) > 2 <=> Len(p) = 3
  BY PathLen

TreeOK == at \in [Paths -> Files \cup {Nothing, Dir}] /\ TreeShape

\* A tree, path by path.
LEMMA TreeOKIs ==
    ASSUME DOMAIN at' = Paths, at' = [q \in Paths |-> at'[q]],
           \A q \in Paths : at'[q] \in Files \cup {Nothing, Dir},
           \A q \in Paths : Len(q) = 3 /\ at'[q] # Nothing => at'[Folder(q)] = Dir
    PROVE  TreeOK'
<1>1. at' \in [Paths -> Files \cup {Nothing, Dir}]
  BY Zenon
<1>2. ASSUME NEW q \in Paths, at'[q] # Nothing, Len(q) > 2 PROVE at'[Folder(q)] = Dir
  <2>1. Len(q) = 3
    BY <1>2, LongIsThree, Zenon
  <2> QED BY <1>2, <2>1
<1> QED BY <1>1, <1>2 DEF TreeOK, TreeShape, HasFolder

\* What is in a tree is in a directory.
LEMMA FolderIsDir ==
    ASSUME TreeOK, NEW q \in Paths, Len(q) = 3, at[q] # Nothing
    PROVE  at[Folder(q)] = Dir
  BY DEF TreeOK, TreeShape, HasFolder

\* Overwriting, renaming, installing, removing and making a directory keep the shape of the tree.
LEMMA ClearTree ==
    ASSUME TreeOK, NEW p \in Paths, at' = Remaining(p)
    PROVE  TreeOK'
<1>1. \A q \in Paths : at'[q] = IF Within(q, p) THEN Nothing ELSE at[q]
  BY DEF Remaining
<1>2. DOMAIN at' = Paths /\ at' = [q \in Paths |-> at'[q]]
  BY DEF Remaining
<1>3. \A q \in Paths : at'[q] \in Files \cup {Nothing, Dir}
  BY <1>1 DEF TreeOK
<1>4. ASSUME NEW q \in Paths, Len(q) = 3, at'[q] # Nothing PROVE at'[Folder(q)] = Dir
  <2>1. ~Within(q, p) /\ at[q] # Nothing
    BY <1>1, <1>4
  <2>2. at[Folder(q)] = Dir
    BY <2>1, <1>4, FolderIsDir
  <2>3. Folder(q) \in Paths /\ ~Within(Folder(q), p)
    BY <2>1, <1>4, FolderOf
  <2> QED BY <1>1, <2>2, <2>3
<1> QED BY <1>2, <1>3, <1>4, TreeOKIs

\* The same for a rename, ...
LEMMA RenameTree ==
    ASSUME TreeOK, NEW p \in Paths, NEW r \in Paths, Rename(p, r), Len(r) = 2 \/ Len(p) = Len(r)
    PROVE  TreeOK'
<1>1. DOMAIN at' = Paths /\ at' = [q \in Paths |-> at'[q]]
  BY DEF Rename
<1>2. ASSUME NEW q \in Paths PROVE at'[q] \in Files \cup {Nothing, Dir}
  <2>1. \A s \in Paths : at[s] \in Files \cup {Nothing, Dir}
    BY DEF TreeOK
  <2>2. CASE q = r
    BY <2>1, <2>2, RenameIs
  <2>3. CASE Below(q, r)
    <3> DEFINE o == <<p[1], p[2], q[3]>>
    <3>1. at'[q] = Nothing \/ (o \in Paths /\ at'[q] = at[o])
      BY <1>2, <2>3, RenameIs
    <3> QED BY <2>1, <3>1
  <2>4. CASE ~Within(q, r)
    BY <2>1, <2>4, RenameIs
  <2> QED BY <2>2, <2>3, <2>4 DEF Below
<1>3. ASSUME NEW q \in Paths, Len(q) = 3, at'[q] # Nothing PROVE at'[Folder(q)] = Dir
  <2>0. Folder(q) \in Paths /\ Len(Folder(q)) = 2 /\ Folder(q) # q
    BY <1>3, FolderOf
  <2>1. CASE q = r
    <3>1. Len(p) = 3 /\ Len(r) = 3
      <4>1. Len(r) = 3
        BY <1>3, <2>1
      <4> QED BY <4>1
    <3>2. at[Folder(r)] = Dir
      BY <2>1, <3>1 DEF Rename, CanRename, HasFolder
    <3>3. ~Within(Folder(q), r) /\ ~Within(Folder(q), p)
      BY <2>0, <3>1, WithinIs
    <3> QED BY <2>0, <2>1, <3>2, <3>3, RenameIs
  <2>2. CASE Below(q, r)
    <3> DEFINE o == <<p[1], p[2], q[3]>>
    <3>1. Len(p) = 2 /\ o \in Paths /\ at'[q] = at[o]
      BY <1>3, <2>2, RenameIs
    <3>2. Len(o) = 3 /\ o[1] = p[1] /\ o[2] = p[2]
      OBVIOUS
    <3> HIDE DEF o
    <3>3. at[Folder(o)] = Dir
      BY <1>3, <3>1, <3>2, FolderIsDir
    <3>4. Folder(o) = p
      BY <3>1, <3>2, FolderIs, PathShape
    <3>5. Folder(q) = r
      <4>1. Len(r) = 2 /\ q[1] = r[1] /\ q[2] = r[2]
        BY <2>2, WithinIs DEF Below
      <4> QED BY <4>1, <1>3, FolderIs, PathShape
    <3> QED BY <3>3, <3>4, <3>5, RenameIs
  <2>3. CASE ~Within(q, r)
    <3>1. ~Within(q, p) /\ at[q] # Nothing
      BY <1>3, <2>3, RenameIs
    <3>2. at[Folder(q)] = Dir
      BY <1>3, <3>1, FolderIsDir
    <3>3. ~Within(Folder(q), r) /\ ~Within(Folder(q), p)
      BY <1>3, <2>3, <3>1, FolderOf
    <3> QED BY <2>0, <3>2, <3>3, RenameIs
  <2> QED BY <2>1, <2>2, <2>3 DEF Below
<1> QED BY <1>1, <1>2, <1>3, TreeOKIs

\* ... for a file put in a place that is free, ...
LEMMA InstallTree ==
    ASSUME TreeOK, NEW p \in Paths, CanInstall(p), NEW f \in Files \cup {Nothing},
           at' = [at EXCEPT ![p] = f]
    PROVE  TreeOK'
<1>1. DOMAIN at = Paths
  BY DEF TreeOK
<1>2. DOMAIN at' = Paths /\ at' = [q \in Paths |-> at'[q]]
      /\ at'[p] = f /\ \A q \in Paths : q # p => at'[q] = at[q]
  BY <1>1
<1>3. ASSUME NEW q \in Paths PROVE at'[q] \in Files \cup {Nothing, Dir}
  BY <1>2, <1>3 DEF TreeOK
<1>4. ASSUME NEW q \in Paths, Len(q) = 3, at'[q] # Nothing PROVE at'[Folder(q)] = Dir
  <2>0. Folder(q) \in Paths /\ Folder(q) # q
    BY <1>4, FolderOf
  <2>1. CASE q = p
    BY <1>2, <1>4, <2>0, <2>1 DEF CanInstall, HasFolder
  <2>2. CASE q # p
    <3>1. at[Folder(q)] = Dir
      BY <1>2, <1>4, <2>2, FolderIsDir
    <3>2. Folder(q) # p
      BY <3>1, NothingIsNoFile DEF CanInstall
    <3> QED BY <1>2, <2>0, <3>1, <3>2
  <2> QED BY <2>1, <2>2
<1> QED BY <1>2, <1>3, <1>4, TreeOKIs

\* ... for what is removed when it is empty, ...
LEMMA RemoveTree ==
    ASSUME TreeOK, NEW p \in Paths, Empty(p), at' = [at EXCEPT ![p] = Nothing]
    PROVE  TreeOK'
<1>1. DOMAIN at = Paths
  BY DEF TreeOK
<1>2. DOMAIN at' = Paths /\ at' = [q \in Paths |-> at'[q]]
      /\ at'[p] = Nothing /\ \A q \in Paths : q # p => at'[q] = at[q]
  BY <1>1
<1>3. ASSUME NEW q \in Paths PROVE at'[q] \in Files \cup {Nothing, Dir}
  BY <1>2, <1>3 DEF TreeOK
<1>4. ASSUME NEW q \in Paths, Len(q) = 3, at'[q] # Nothing PROVE at'[Folder(q)] = Dir
  <2>0. Folder(q) \in Paths /\ Folder(q) # q
    BY <1>4, FolderOf
  <2>1. q # p /\ at[q] # Nothing
    BY <1>2, <1>4
  <2>2. at[Folder(q)] = Dir
    BY <1>4, <2>1, FolderIsDir
  <2>3. Folder(q) # p
    BY <1>4, <2>1, FolderOf DEF Empty
  <2> QED BY <1>2, <2>0, <2>2, <2>3
<1> QED BY <1>2, <1>3, <1>4, TreeOKIs

\* ... and for a directory made with the one it is in.
LEMMA MakeTree ==
    ASSUME TreeOK, NEW p \in Paths, NEW M, M = {p} \cup IF Len(p) = 2 THEN {} ELSE {Folder(p)},
           at' = [q \in Paths |-> IF q \in M THEN Dir ELSE at[q]]
    PROVE  TreeOK'
<1>2. DOMAIN at' = Paths /\ at' = [q \in Paths |-> at'[q]]
      /\ \A q \in Paths : at'[q] = IF q \in M THEN Dir ELSE at[q]
  OBVIOUS
<1>3. ASSUME NEW q \in Paths PROVE at'[q] \in Files \cup {Nothing, Dir}
  BY <1>2, <1>3 DEF TreeOK
<1>4. ASSUME NEW q \in Paths, Len(q) = 3, at'[q] # Nothing PROVE at'[Folder(q)] = Dir
  <2>0. Folder(q) \in Paths /\ Len(Folder(q)) = 2
    BY <1>4, FolderOf
  <2>1. CASE q = p
    BY <1>2, <1>4, <2>0, <2>1
  <2>2. CASE q # p
    <3>1. q \notin M
      <4>1. Len(p) = 3 => Len(Folder(p)) = 2
        BY FolderOf
      <4> QED BY <4>1, <1>4, <2>2, PathShape
    <3>2. at[Folder(q)] = Dir
      BY <1>2, <1>4, <3>1, FolderIsDir
    <3> QED BY <1>2, <2>0, <3>2
  <2> QED BY <2>1, <2>2
<1> QED BY <1>2, <1>3, <1>4, TreeOKIs

-----------------------------------------------------------------------------
(* The types.                                                              *)

PointOK ==
    /\ pc \in {"new", "planned", "next", "stage", "resolve", "clear", "aside", "act", "settle",
               "remove"} \cup Over
    /\ held # Nothing => pc \notin Over \ {"crashed"}
SetsOK ==
    /\ todo \subseteq items /\ copied \subseteq items
    /\ held \in Files \cup {Nothing}
    /\ removing \subseteq {i.source : i \in items}
    /\ files \subseteq Files /\ overwritten \subseteq Files
ItemsOK == \A i \in items : {i.source, i.target} \subseteq Paths /\ i.dir \in BOOLEAN

\* The type invariant in parts: the tree, the point in the program, the sets, the items.
LEMMA TypeIs == TypeOK <=> TreeOK /\ PointOK /\ SetsOK /\ ItemsOK /\ cancel \in BOOLEAN
  BY DEF TypeOK, TreeOK, PointOK, SetsOK, ItemsOK

\* The same of the next state.
LEMMA TypeIsThen == TypeOK' <=> TreeOK' /\ PointOK' /\ SetsOK' /\ ItemsOK' /\ cancel' \in BOOLEAN
  BY DEF TypeOK, TreeOK, PointOK, SetsOK, ItemsOK

\* A step that leaves the tree alone leaves it a tree.
LEMMA TreeStays == TreeOK /\ at' = at => TreeOK'
  BY DEF TreeOK, TreeShape, HasFolder

\* What overwriting removes are files.
LEMMA FilesBelow == \A p \in Paths : TreeOK => FilesAt(p) \subseteq Files
  BY DEF TreeOK, FilesAt

\* What a step of the executor works with.
LEMMA AtWork ==
    ASSUME Way
    PROVE  /\ pc \in {"clear", "aside", "act"} => to \in Paths /\ to[1] = top /\ Len(to) = Len(goal) /\ goal \in Paths
           /\ pc = "aside" => spare \in Paths /\ spare[1] = top /\ Len(spare) = Len(to)
           /\ pc = "act" /\ doing = "move" => Len(to) = 2
  BY DEF Way, Working, Deciding, Moving, GoalFits, ToFits, SpareFits, MoveFits

\* The parts of the type invariant are kept.
LEMMA TreeKeeps ==
    ASSUME TypeOK, pc # "new", RunInv, Next
    PROVE  TreeOK'
<1> USE DEF RunInv
<1>1. TreeOK /\ SetsOK
  BY TypeIs
<1>2. CASE at' = at
  BY <1>1, <1>2, TreeStays
<1>3. CASE Clear
  BY <1>1, <1>2, <1>3, AtWork, ClearTree DEF Clear, Fails
<1>4. CASE Aside
  BY <1>1, <1>2, <1>4, AtWork, RenameTree DEF Aside, Fails
<1>5. CASE MoveRoot
  <2>1. PICK r \in roots :
            /\ pc = "act" /\ doing = "move"
            /\ Rename(r, to) \/ UNCHANGED at
    BY <1>5 DEF MoveRoot, Fails
  <2>2. r \in Paths
    BY InitialIs DEF Planned
  <2> QED BY <1>1, <1>2, <2>1, <2>2, AtWork, RenameTree
<1>6. CASE Install
  <2>1. held \in Files \cup {Nothing}
    BY <1>1 DEF SetsOK
  <2> QED BY <1>1, <1>2, <1>6, <2>1, AtWork, InstallTree DEF Install, Fails
<1>7. CASE MakeDir
  <2> DEFINE M == {to} \cup IF Len(to) = 2 THEN {} ELSE {Folder(to)}
  <2>1. pc = "act" /\ (at' = [p \in Paths |-> IF p \in M THEN Dir ELSE at[p]] \/ UNCHANGED at)
    BY <1>7 DEF MakeDir, Fails
  <2>2. to \in Paths
    BY <2>1, AtWork
  <2>3. M = {to} \cup IF Len(to) = 2 THEN {} ELSE {Folder(to)}
    OBVIOUS
  <2> HIDE DEF M
  <2>4. CASE at' = [p \in Paths |-> IF p \in M THEN Dir ELSE at[p]]
    BY <1>1, <2>2, <2>3, <2>4, MakeTree
  <2> QED BY <1>2, <2>1, <2>4
<1>8. ASSUME NEW p \in Paths, RemoveSource(p) PROVE TreeOK'
  BY <1>1, <1>2, <1>8, RemoveTree DEF RemoveSource, Fails
<1>9. ASSUME NEW p \in OthersAt, NEW f \in Strangers, Create(p, f) PROVE TreeOK'
  <2>1. p \in Paths /\ f \in Files
    BY TransferConstants, NothingIsNoFile
  <2> QED BY <1>1, <1>9, <2>1, InstallTree DEF Create
<1>10. ASSUME NEW p \in DeletedAt, Delete(p) PROVE TreeOK'
  <2>1. p \in Paths
    BY TransferConstants
  <2> QED BY <1>1, <1>10, <2>1, RemoveTree DEF Delete
<1>11. CASE Plan \/ Execute \/ Resolve \/ (\E i \in items : NextItem(i)) \/ Stage \/ Settle
            \/ CancelBetween \/ CopyDone \/ MoveDone \/ Cancel \/ Crash
  <2>1. at' = at
    BY <1>11 DEF Plan, Execute, Resolve, NextItem, Stage, Settle, CancelBetween, CopyDone, MoveDone, Cancel, Crash
  <2> QED BY <2>1, <1>2
<1> QED BY <1>3, <1>4, <1>5, <1>6, <1>7, <1>8, <1>9, <1>10, <1>11 DEF Next

\* After the plan the request and the plan do not change.
LEMMA RequestStays ==
    ASSUME pc # "new", Next
    PROVE  UNCHANGED request
<1>1. ~Plan
  BY DEF Plan, Goto
<1> QED BY <1>1 DEF Next, Execute, Resolve, Clear, Aside, MoveRoot, NextItem, Stage, Install, MakeDir, Settle,
              CancelBetween, CopyDone, RemoveSource, MoveDone, Cancel, Crash, Create, Delete

\* The items to do, those copied and those to be removed are items of the plan, ...
LEMMA SetsKeep ==
    ASSUME TypeOK, pc # "new", RunInv, Next
    PROVE  SetsOK' /\ ItemsOK' /\ cancel' \in BOOLEAN
<1>0. SetsOK /\ ItemsOK /\ TreeOK /\ Way /\ cancel \in BOOLEAN
  BY TypeIs DEF RunInv
<1>1. items' = items
  BY RequestStays DEF request
<1>2. ItemsOK'
  BY <1>0, <1>1 DEF ItemsOK
<1>3. cancel' \in BOOLEAN
  <2>1. cancel' = cancel \/ cancel' = TRUE
    BY DEF Next, Plan, Execute, Resolve, Clear, Aside, MoveRoot, NextItem, Stage, Install,
           MakeDir, Settle, CancelBetween, CopyDone, RemoveSource, MoveDone, Cancel, Crash, Create, Delete
  <2> QED BY <1>0, <2>1
<1>4. todo' \subseteq items
  <2>1. todo' \subseteq todo
    <3>1. ~Plan
      BY DEF Plan, Goto
    <3> QED BY <3>1 DEF Next, Execute, Resolve, Clear, Aside, MoveRoot, NextItem, Stage, Install, copying,
           MakeDir, Settle, CancelBetween, CopyDone, RemoveSource, MoveDone, Cancel, Crash, Create, Delete
  <2> QED BY <1>0, <2>1 DEF SetsOK
<1>5. copied' \subseteq items
  <2>1. CASE copied' = copied
    BY <1>0, <2>1 DEF SetsOK
  <2>2. CASE Settle
    <3>1. pc = "settle"
      BY <2>2 DEF Settle, Goto
    <3>2. item \in items
      BY <1>0, <3>1 DEF Way, ItemFits, AtItem
    <3>3. copied' \subseteq copied \cup {item}
      BY <2>2 DEF Settle
    <3> QED BY <1>0, <3>2, <3>3 DEF SetsOK
  <2> QED BY <2>1, <2>2 DEF Next, Plan, Execute, Resolve, Clear, Aside, MoveRoot, NextItem, Stage, Install, copying,
           MakeDir, CancelBetween, CopyDone, RemoveSource, MoveDone, Cancel, Crash, Create, Delete
<1>6. removing' \subseteq {i.source : i \in items}
  <2>1. removing' \subseteq removing \/ removing' = Removable
    BY DEF Next, Plan, Execute, Resolve, Clear, Aside, MoveRoot, NextItem, Stage, Install, copying,
           MakeDir, Settle, CancelBetween, CopyDone, RemoveSource, MoveDone, Cancel, Crash, Create, Delete
  <2> QED BY <1>0, <2>1 DEF SetsOK, Removable
<1>7. held' \in Files \cup {Nothing}
  <2>1. held' = held \/ held' = Nothing \/ held' \in Files
    BY DEF Next, Plan, Execute, Resolve, Clear, Aside, MoveRoot, NextItem, Stage, Install, copying, IsFile,
           MakeDir, Settle, CancelBetween, CopyDone, RemoveSource, MoveDone, Cancel, Crash, Create, Delete
  <2> QED BY <1>0, <2>1 DEF SetsOK
<1>8. files' \subseteq Files
  <2>1. files' \subseteq files \cup Strangers
    <3>1. ASSUME NEW p \in OthersAt, NEW f \in Strangers, Create(p, f) PROVE files' \subseteq files \cup Strangers
      BY <3>1 DEF Create
    <3>2. ASSUME NEW p \in DeletedAt, Delete(p) PROVE files' \subseteq files \cup Strangers
      BY <3>2 DEF Delete
    <3>3. CASE files' = files
      BY <3>3
    <3> QED BY <3>1, <3>2, <3>3 DEF Next, Plan, Execute, Resolve, Clear, Aside, MoveRoot, NextItem, Stage, Install,
             ghosts, MakeDir, Settle, CancelBetween, CopyDone, RemoveSource, MoveDone, Cancel, Crash
  <2> QED BY <1>0, <2>1, NothingIsNoFile DEF SetsOK
<1>9. overwritten' \subseteq Files
  <2>1. CASE Clear
    <3>1. to \in Paths
      BY <1>0, <2>1, AtWork DEF Clear
    <3>2. FilesAt(to) \subseteq Files
      BY <1>0, <3>1, FilesBelow
    <3>3. overwritten' \subseteq overwritten \cup FilesAt(to)
      BY <2>1 DEF Clear
    <3> QED BY <1>0, <3>2, <3>3 DEF SetsOK
  <2>2. CASE overwritten' = overwritten
    BY <1>0, <2>2 DEF SetsOK
  <2> QED BY <2>1, <2>2 DEF Next, Plan, Execute, Resolve, Aside, MoveRoot, NextItem, Stage, Install, ghosts,
           MakeDir, Settle, CancelBetween, CopyDone, RemoveSource, MoveDone, Cancel, Crash, Create, Delete
<1> QED BY <1>1, <1>2, <1>3, <1>4, <1>5, <1>6, <1>7, <1>8, <1>9 DEF SetsOK

\* ... and the staging file is gone when the operation has ended.
LEMMA PointKeeps ==
    ASSUME TypeOK, pc # "new", RunInv, Next
    PROVE  PointOK'
<1>0. PointOK /\ HeldFits /\ Way
  BY TypeIs DEF RunInv
<1> DEFINE IsHeld == held # Nothing => pc = "crashed" \/ (pc \in Deciding \cup {"stage"} /\ doing = "file")
<1>1. IsHeld
  BY <1>0 DEF HeldFits
<1> USE DEF PointOK, Over, Goto, Deciding, IsHeld
<1>3. CASE Execute
  BY <1>1, <1>3 DEF Execute, copying
<1>4. CASE Resolve
  BY <1>1, <1>4 DEF Resolve
<1>5. CASE Clear
  BY <1>1, <1>5 DEF Clear
<1>6. CASE Aside
  BY <1>1, <1>6 DEF Aside
<1>7. CASE MoveRoot
  BY <1>1, <1>7 DEF MoveRoot, copying
<1>8. ASSUME NEW i \in items, NextItem(i) PROVE PointOK'
  BY <1>1, <1>8 DEF NextItem
<1>9. CASE Stage
  BY <1>1, <1>9 DEF Stage
<1>10. CASE Install
  BY <1>1, <1>10 DEF Install
<1>11. CASE MakeDir
  BY <1>1, <1>11 DEF MakeDir, copying
<1>12. CASE Settle
  BY <1>1, <1>12 DEF Settle
<1>13. CASE CancelBetween
  BY <1>1, <1>13 DEF CancelBetween, copying
<1>14. CASE CopyDone
  BY <1>1, <1>14 DEF CopyDone
<1>15. ASSUME NEW p \in Paths, RemoveSource(p) PROVE PointOK'
  BY <1>0, <1>1, <1>15 DEF RemoveSource
<1>16. CASE MoveDone
  BY <1>1, <1>16 DEF MoveDone, copying
<1>17. CASE Crash
  BY <1>1, <1>17 DEF Crash
<1>18. CASE Cancel \/ (\E p \in OthersAt, f \in Strangers : Create(p, f)) \/ (\E p \in DeletedAt : Delete(p))
  <2>1. pc' = pc /\ held' = held
    BY <1>18 DEF Cancel, Create, Delete, copying
  <2> QED BY <1>0, <2>1
<1>19. ~Plan
  BY DEF Plan
<1> QED BY <1>3, <1>4, <1>5, <1>6, <1>7, <1>8, <1>9, <1>10, <1>11, <1>12, <1>13, <1>14, <1>15,
           <1>16, <1>17, <1>18, <1>19 DEF Next

\* So all of the type invariant is kept.
LEMMA TypeKeeps == TypeOK /\ pc # "new" /\ RunInv /\ Next => TypeOK'
  BY TreeKeeps, SetsKeep, PointKeeps, TypeIsThen

\* Files that are deleted leave the plan what it was.
LEMMA PlannedKeeps ==
    ASSUME pc # "new", Planned, Next
    PROVE  Planned'
<1>1. UNCHANGED request
  BY RequestStays
<1>2. \A f \in Initial : f \in files' => f \in files
  <2>1. CASE UNCHANGED files
    BY <2>1
  <2>2. ASSUME NEW p \in OthersAt, NEW f \in Strangers, Create(p, f) PROVE \A g \in Initial : g \in files' => g \in files
    BY <2>2, NothingIsNoFile DEF Create
  <2>3. ASSUME NEW p \in DeletedAt, Delete(p) PROVE \A g \in Initial : g \in files' => g \in files
    BY <2>3 DEF Delete
  <2> QED BY <2>1, <2>2, <2>3 DEF Next, Plan, Execute, Resolve, Clear, Aside, MoveRoot, NextItem, Stage, Install,
             MakeDir, Settle, CancelBetween, CopyDone, RemoveSource, MoveDone, Cancel, Crash, ghosts
<1>3. \A i \in items : i.dir => i.source \notin files'
  BY <1>2, ItemIs DEF Planned
<1>4. \A i \in items : \E r \in roots : Within(i.source, r) /\ i.target = TargetOf(i.source, r, top)
  BY DEF Planned
<1>5. \A i \in items' : \E r \in roots' : Within(i.source, r) /\ i.target = TargetOf(i.source, r, top')
  BY <1>1, <1>4 DEF request
<1> QED BY <1>1, <1>3, <1>5 DEF Planned, request

-----------------------------------------------------------------------------
(* Where the executor is.                                                  *)

\* The parts of Way are kept, each from the others.
LEMMA StepKeeps ==
    ASSUME pc # "new", Planned, StepFits, Next
    PROVE  StepFits'
<1>1. UNCHANGED request
  BY RequestStays
<1>2. kind' = kind /\ policy' = policy /\ items' = items
  BY <1>1 DEF request
<1> USE <1>2 DEF StepFits, Goto
<1>3. CASE Execute
  BY <1>3 DEF Execute, copying
<1>4. CASE Resolve
  BY <1>4 DEF Resolve
<1>5. CASE Clear \/ Aside \/ MoveRoot \/ Install \/ MakeDir \/ Settle \/ CancelBetween \/ MoveDone \/ Crash
  BY <1>5 DEF Clear, Aside, MoveRoot, Install, MakeDir, Settle, CancelBetween, MoveDone, Crash, copying, target
<1>6. ASSUME NEW i \in items, NextItem(i) PROVE StepFits'
  BY <1>6 DEF NextItem
<1>7. CASE Stage
  BY <1>7 DEF Stage, target
<1>8. CASE CopyDone
  <2>1. kind # "copy" => kind = "move"
    BY DEF Planned
  <2> QED BY <1>8, <2>1 DEF CopyDone, target
<1>9. ASSUME NEW p \in Paths, RemoveSource(p) PROVE StepFits'
  BY <1>9 DEF RemoveSource, target
<1>10. CASE Cancel \/ (\E p \in OthersAt, f \in Strangers : Create(p, f)) \/ (\E p \in DeletedAt : Delete(p))
  BY <1>10 DEF Cancel, Create, Delete, copying, target
<1>11. ~Plan
  BY DEF Plan
<1> QED BY <1>3, <1>4, <1>5, <1>6, <1>7, <1>8, <1>9, <1>10, <1>11 DEF Next

\* The path that is resolved is below the top folder, and has no numbered name.
LEMMA GoalKeeps ==
    ASSUME pc # "new", Planned, GoalFits, Next
    PROVE  GoalFits'
<1>1. top' = top /\ items' = items
  BY RequestStays DEF request
<1>2. CASE goal' = goal /\ (pc' \in Working => pc \in Working)
  BY <1>1, <1>2 DEF GoalFits
<1>3. CASE Execute
  <2>1. CASE pc' \in Working
    <3>1. PICK r \in roots : goal' = <<top, r[Len(r)]>>
      BY <1>3, <2>1 DEF Execute, Goto, Working
    <3>2. r[Len(r)] \in Names /\ top \in Tops
      BY InitialIs DEF Planned
    <3>3. <<top, r[Len(r)]>> \in Paths
      BY <3>2, PathsMade DEF Entries
    <3>4. goal'[1] = top /\ Len(goal') = 2 /\ goal'[2] = r[Len(r)]
      BY <3>1
    <3> QED BY <1>1, <3>1, <3>2, <3>3, <3>4 DEF GoalFits
  <2>2. CASE pc' \notin Working
    BY <2>2 DEF GoalFits
  <2> QED BY <2>1, <2>2
<1>4. ASSUME NEW i \in items, NextItem(i) PROVE GoalFits'
  <2>1. goal' = i.target
    BY <1>4 DEF NextItem
  <2> QED BY <1>1, <2>1, ItemIs DEF GoalFits
<1>5. CASE Resolve \/ Clear \/ Aside \/ MoveRoot \/ Stage \/ Install \/ MakeDir \/ Settle \/ CancelBetween
           \/ CopyDone \/ (\E p \in Paths : RemoveSource(p)) \/ MoveDone
  BY <1>2, <1>5 DEF Resolve, Clear, Aside, MoveRoot, Stage, Install, MakeDir, Settle, CancelBetween,
       CopyDone, RemoveSource, MoveDone, target, Goto, Working
<1>6. CASE Crash \/ Cancel \/ (\E p \in OthersAt, f \in Strangers : Create(p, f)) \/ (\E p \in DeletedAt : Delete(p))
  BY <1>2, <1>6 DEF Cancel, Crash, Create, Delete, target, Working
<1>7. ~Plan
  BY DEF Plan, Goto
<1> QED BY <1>3, <1>4, <1>5, <1>6, <1>7 DEF Next

\* The item the loop is at is neither to do nor copied.
LEMMA ItemKeeps ==
    ASSUME pc # "new", Planned, StepFits, ItemFits, Order, Next
    PROVE  ItemFits'
<1>1. items' = items
  BY RequestStays DEF request
<1>2. CASE UNCHANGED <<goal, item, doing, todo, copied>> /\ (AtItem' => AtItem)
  BY <1>1, <1>2 DEF ItemFits
<1>3. CASE ~AtItem'
  BY <1>3 DEF ItemFits
<1>4. ASSUME NEW i \in items, NextItem(i) PROVE ItemFits'
  <2>1. /\ goal' = i.target /\ item' = i /\ todo' = todo \ {i} /\ copied' = copied /\ i \in todo
        /\ doing' = IF i.dir THEN "dir" ELSE "file"
    BY <1>4 DEF NextItem, First
  <2>2. i \in items \ (todo' \cup copied')
    BY <2>1 DEF Order
  <2>3. i.dir <=> doing' = "dir"
    <3>1. CASE i.dir
      BY <2>1, <3>1
    <3>2. CASE ~i.dir
      BY <2>1, <3>2
    <3> QED BY <3>1, <3>2
  <2> QED BY <1>1, <2>1, <2>2, <2>3 DEF ItemFits
<1> USE DEF AtItem, Deciding, Goto
<1>5. CASE Execute
  BY <1>3, <1>5 DEF Execute
<1>6. CASE Resolve \/ Clear \/ Aside \/ Stage
  BY <1>2, <1>6 DEF Resolve, Clear, Aside, Stage, target, StepFits
<1>7. CASE MoveRoot \/ Settle \/ CancelBetween \/ CopyDone \/ MoveDone \/ Crash \/ \E p \in Paths : RemoveSource(p)
  BY <1>3, <1>7 DEF MoveRoot, Settle, CancelBetween, CopyDone, MoveDone, Crash, RemoveSource
<1>8. CASE Install \/ MakeDir
  BY <1>2, <1>8 DEF Install, MakeDir, target, copying
<1>9. CASE Cancel \/ (\E p \in OthersAt, f \in Strangers : Create(p, f)) \/ (\E p \in DeletedAt : Delete(p))
  BY <1>2, <1>9 DEF Cancel, Create, Delete, target, copying
<1>10. ~Plan
  BY DEF Plan, Goto
<1> QED BY <1>4, <1>5, <1>6, <1>7, <1>8, <1>9, <1>10 DEF Next

\* A resolved path is as deep as the path that was resolved.
LEMMA ToKeeps ==
    ASSUME pc # "new", Planned, GoalFits, ToFits, Next
    PROVE  ToFits'
<1>1. top' = top /\ policy' = policy
  BY RequestStays DEF request
<1> DEFINE With == {"clear", "aside", "act", "settle"}
<1>2. CASE UNCHANGED <<to, goal>> /\ (pc' \in With => pc \in With)
  BY <1>1, <1>2 DEF ToFits
<1>3. CASE pc' \notin With
  BY <1>3 DEF ToFits
<1>4. CASE Resolve
  <2>1. goal' = goal /\ goal \in Paths /\ goal[1] = top /\ goal[Len(goal)] \in Names
    BY <1>4 DEF Resolve, GoalFits, Working
  <2>2. NextAvailable(goal) \in Paths /\ NextAvailable(goal)[1] = top /\ Len(NextAvailable(goal)) = Len(goal)
    BY <2>1, NextAvailableIs
  <2>3. CASE to' = goal
    BY <1>1, <2>1, <2>3 DEF ToFits
  <2>4. CASE policy = "renameNew" /\ to' = NextAvailable(goal)
    BY <1>1, <2>1, <2>2, <2>4 DEF ToFits
  <2> QED BY <1>3, <1>4, <2>3, <2>4 DEF Resolve
<1>5. CASE Execute \/ MoveRoot \/ CancelBetween \/ CopyDone \/ MoveDone \/ Crash \/ Settle \/ Stage
           \/ (\E p \in Paths : RemoveSource(p)) \/ (\E i \in items : NextItem(i))
  BY <1>3, <1>5 DEF MoveRoot, Settle, CancelBetween, CopyDone, MoveDone, Crash, RemoveSource, Execute, Stage,
       NextItem, Goto
<1>6. CASE Clear \/ Aside \/ Install \/ MakeDir
  BY <1>2, <1>6 DEF Clear, Aside, Install, MakeDir, target
<1>7. CASE Cancel \/ (\E p \in OthersAt, f \in Strangers : Create(p, f)) \/ (\E p \in DeletedAt : Delete(p))
  BY <1>2, <1>7 DEF Cancel, Create, Delete, target
<1>8. ~Plan
  BY DEF Plan, Goto
<1> QED BY <1>4, <1>5, <1>6, <1>7, <1>8 DEF Next

\* What is set aside goes to a free place, unless another program takes it.
LEMMA SpareKeeps ==
    ASSUME TreeOK, pc # "new", Planned, GoalFits, SpareFits, Next
    PROVE  SpareFits'
<1>1. top' = top
  BY RequestStays DEF request
<1>2. CASE pc' # "aside"
  BY <1>2 DEF SpareFits
<1>3. CASE Resolve
  <2>1. CASE pc' = "aside"
    <3>1. /\ goal' = goal /\ goal \in Paths /\ goal[1] = top /\ goal[Len(goal)] \in Names
          /\ to' = goal /\ spare' = NextAvailable(goal) /\ at' = at
      BY <1>3, <2>1 DEF Resolve, GoalFits, Working
    <3>2. \/ NextAvailable(goal) = goal
          \/ /\ NextAvailable(goal) \in Paths
             /\ Len(NextAvailable(goal)) = Len(goal) /\ NextAvailable(goal)[1] = goal[1]
             /\ at[NextAvailable(goal)] = Nothing
      BY <3>1, NextAvailableIs
    <3> QED BY <1>1, <3>1, <3>2 DEF SpareFits
  <2> QED BY <1>2, <2>1
<1>4. CASE Execute \/ MoveRoot \/ CancelBetween \/ CopyDone \/ MoveDone \/ Crash \/ Settle \/ Stage \/ Clear
           \/ Aside \/ Install \/ MakeDir
           \/ (\E p \in Paths : RemoveSource(p)) \/ (\E i \in items : NextItem(i))
  BY <1>2, <1>4 DEF MoveRoot, Settle, CancelBetween, CopyDone, MoveDone, Crash, RemoveSource, Execute, Stage,
       NextItem, Goto, Clear, Aside, Install, MakeDir
<1>5. CASE Cancel
  BY <1>1, <1>5 DEF Cancel, target, SpareFits
<1>6. ASSUME NEW p \in OthersAt, NEW f \in Strangers, Create(p, f) PROVE SpareFits'
  <2>1. UNCHANGED <<pc, goal, to, spare>> /\ \A q \in Paths : at'[q] = at[q] \/ at'[q] \in Strangers
    BY <1>6 DEF Create, target, TreeOK
  <2> QED BY <1>1, <2>1 DEF SpareFits
<1>7. ASSUME NEW p \in DeletedAt, Delete(p) PROVE SpareFits'
  <2>1. UNCHANGED <<pc, goal, to, spare>> /\ \A q \in Paths : at'[q] = at[q] \/ at'[q] = Nothing
    BY <1>7 DEF Delete, target, TreeOK
  <2> QED BY <1>1, <2>1 DEF SpareFits
<1>8. ~Plan
  BY DEF Plan, Goto
<1> QED BY <1>3, <1>4, <1>5, <1>6, <1>7, <1>8 DEF Next

\* The rename of a root comes before anything is copied.
LEMMA MoveKeeps ==
    ASSUME pc # "new", StepFits, MoveFits, Next
    PROVE  MoveFits'
<1>1. kind' = kind /\ roots' = roots /\ items' = items
  BY RequestStays DEF request
<1>2. CASE UNCHANGED <<goal, copied, todo>> /\ (Moving' => Moving)
  BY <1>1, <1>2 DEF MoveFits
<1>3. CASE ~Moving'
  BY <1>3 DEF MoveFits
<1> USE DEF Moving, Deciding, Goto
<1>4. CASE Execute
  <2>1. CASE Moving'
    <3>1. pc = "planned" /\ kind = "move" /\ UNCHANGED <<copied, todo>>
      BY <1>4, <2>1 DEF Execute, copying
    <3>2. PICK r \in roots : roots = {r} /\ goal' = <<top, r[Len(r)]>>
      BY <1>4, <2>1 DEF Execute
    <3>3. Len(goal') = 2
      BY <3>2
    <3> QED BY <1>1, <3>1, <3>2, <3>3 DEF MoveFits, StepFits
  <2> QED BY <1>3, <2>1
<1>5. CASE Resolve \/ Clear \/ Aside
  BY <1>2, <1>5 DEF Resolve, Clear, Aside, target
<1>6. CASE MoveRoot \/ Settle \/ CancelBetween \/ CopyDone \/ MoveDone \/ Crash \/ Stage \/ Install \/ MakeDir
           \/ (\E p \in Paths : RemoveSource(p)) \/ (\E i \in items : NextItem(i))
  BY <1>3, <1>6 DEF MoveRoot, Settle, CancelBetween, CopyDone, MoveDone, Crash, RemoveSource, Stage, target,
       NextItem, Install, MakeDir, StepFits
<1>7. CASE Cancel \/ (\E p \in OthersAt, f \in Strangers : Create(p, f)) \/ (\E p \in DeletedAt : Delete(p))
  BY <1>2, <1>7 DEF Cancel, Create, Delete, target, copying
<1>8. ~Plan
  BY DEF Plan
<1> QED BY <1>4, <1>5, <1>6, <1>7, <1>8 DEF Next

\* So all of Way is kept.
LEMMA WayKeeps ==
    ASSUME TypeOK, pc # "new", RunInv, Next
    PROVE  Way'
<1>1. TreeOK
  BY TypeIs
<1>2. Planned /\ Order /\ StepFits /\ GoalFits /\ ItemFits /\ ToFits /\ SpareFits /\ MoveFits
  BY DEF RunInv, Way
<1>3. StepFits' /\ GoalFits'
  BY <1>2, StepKeeps, GoalKeeps
<1>4. ItemFits' /\ ToFits'
  BY <1>2, ItemKeeps, ToKeeps
<1>5. SpareFits' /\ MoveFits'
  BY <1>1, <1>2, SpareKeeps, MoveKeeps
<1> QED BY <1>3, <1>4, <1>5 DEF Way

\* The loop takes a directory before what is in it, so a copy is never below a later item.
LEMMA OrderKeeps ==
    ASSUME pc # "new", Planned, StepFits, ItemFits, Order, todo \subseteq items, Next
    PROVE  Order'
<1>1. items' = items
  BY RequestStays DEF request
<1>2. CASE UNCHANGED <<item, todo, copied>> /\ (AtItem' => AtItem)
  BY <1>1, <1>2 DEF Order
<1>3. CASE UNCHANGED <<todo, copied>> /\ ~AtItem'
  BY <1>1, <1>3 DEF Order
<1>4. ASSUME NEW i \in items, NextItem(i) PROVE Order'
  <2>1. /\ item' = i /\ todo' = todo \ {i} /\ copied' = copied /\ i \in todo
        /\ \A k \in todo : ~Below(i.source, k.source)
    BY <1>4 DEF NextItem, First
  <2>2. copied' \subseteq items' \ todo'
    BY <1>1, <2>1 DEF Order
  <2>3. ASSUME NEW j \in items' \ todo', NEW k \in todo' PROVE ~Below(j.source, k.source)
    BY <1>1, <2>1, <2>3 DEF Order
  <2>4. \A j \in copied' : ~Below(j.source, item'.source)
    BY <2>1 DEF Order
  <2> QED BY <2>2, <2>3, <2>4 DEF Order
<1>5. CASE Settle
  <2>1. /\ pc = "settle" /\ pc' \in {"cancelled", "next"} /\ todo' = todo
        /\ copied' \subseteq copied \cup {item}
    BY <1>5 DEF Settle, Goto
  <2>2. item \in items \ todo
    BY <2>1 DEF ItemFits, AtItem
  <2>3. ~AtItem'
    BY <2>1 DEF AtItem, Deciding
  <2> QED BY <1>1, <2>1, <2>2, <2>3 DEF Order
<1> USE DEF AtItem, Deciding, Goto
<1>6. CASE Execute
  BY <1>3, <1>6 DEF Execute, copying
<1>7. CASE Resolve \/ Clear \/ Aside \/ Stage
  BY <1>2, <1>7 DEF Resolve, Clear, Aside, Stage, target, StepFits
<1>8. CASE MoveRoot \/ CancelBetween \/ CopyDone \/ MoveDone \/ Crash \/ \E p \in Paths : RemoveSource(p)
  BY <1>3, <1>8 DEF MoveRoot, CancelBetween, CopyDone, MoveDone, Crash, RemoveSource, copying
<1>9. CASE Install \/ MakeDir
  BY <1>2, <1>9 DEF Install, MakeDir, target, copying
<1>10. CASE Cancel \/ (\E p \in OthersAt, f \in Strangers : Create(p, f)) \/ (\E p \in DeletedAt : Delete(p))
  BY <1>2, <1>10 DEF Cancel, Create, Delete, target, copying
<1>11. ~Plan
  BY DEF Plan
<1> QED BY <1>4, <1>5, <1>6, <1>7, <1>8, <1>9, <1>10, <1>11 DEF Next

\* Whether the roots are separate is settled with the plan.
LEMMA SeparateStays == pc # "new" /\ Next => (Separate' <=> Separate)
  BY RequestStays DEF request, Separate

\* Of the files of the plan only those that are deleted change what is there of it.
LEMMA MineShrinks ==
    ASSUME pc # "new", Planned, Next, NEW i \in items, Mine(i)'
    PROVE  Mine(i)
<1>1. i.source \in Initial
  BY ItemIs
<1>2. CASE UNCHANGED files
  BY <1>2 DEF Mine
<1>3. ASSUME NEW p \in OthersAt, NEW f \in Strangers, Create(p, f) PROVE Mine(i)
  BY <1>1, <1>3, NothingIsNoFile DEF Create, Mine
<1>4. ASSUME NEW p \in DeletedAt, Delete(p) PROVE Mine(i)
  BY <1>4 DEF Delete, Mine
<1> QED BY <1>2, <1>3, <1>4 DEF Next, Plan, Execute, Resolve, Clear, Aside, MoveRoot, NextItem, Stage, Install,
             MakeDir, Settle, CancelBetween, CopyDone, RemoveSource, MoveDone, Cancel, Crash, ghosts

HeldOwned == held # Nothing => pc = "crashed" \/ (pc \in Deciding \cup {"stage"} /\ doing = "file")
HeldTrue  == Separate /\ pc \in Deciding \cup {"stage"} /\ doing = "file" /\ Mine(item) => held = item.source

\* The staging file belongs to the item that is copied, and holds its content.
LEMMA HeldOwnedKeeps ==
    ASSUME pc # "new", HeldOwned, StepFits, Next
    PROVE  HeldOwned'
<1> USE DEF HeldOwned, Deciding, Goto
<1>1. CASE held' = Nothing
  BY <1>1
<1>2. CASE Execute
  BY <1>2 DEF Execute, copying
<1>3. CASE Resolve \/ Clear \/ Aside \/ Stage
  BY <1>3 DEF Resolve, Clear, Aside, Stage, target
<1>4. CASE MoveRoot
  BY <1>4 DEF MoveRoot, copying, target
<1>5. CASE MakeDir
  BY <1>5 DEF MakeDir, copying, target
<1>6. CASE Settle \/ CancelBetween \/ CopyDone \/ MoveDone
  BY <1>6 DEF Settle, CancelBetween, CopyDone, MoveDone, copying, target
<1>7. ASSUME NEW p \in Paths, RemoveSource(p) PROVE HeldOwned'
  BY <1>7 DEF RemoveSource, target
<1>8. ASSUME NEW i \in items, NextItem(i) PROVE HeldOwned'
  BY <1>8 DEF NextItem
<1>9. CASE Install
  BY <1>9 DEF Install
<1>10. CASE Crash
  BY <1>10 DEF Crash, copying
<1>11. CASE Cancel \/ (\E p \in OthersAt, f \in Strangers : Create(p, f)) \/ (\E p \in DeletedAt : Delete(p))
  BY <1>11 DEF Cancel, Create, Delete, target, copying
<1>12. ~Plan
  BY DEF Plan
<1> QED BY <1>2, <1>3, <1>4, <1>5, <1>6, <1>7, <1>8, <1>9, <1>10, <1>11, <1>12 DEF Next

\* The content that is staged is that of the source.
LEMMA HeldTrueKeeps ==
    ASSUME pc # "new", Planned, Separate => SourcesStay, HeldTrue, StepFits, ItemFits, Next
    PROVE  HeldTrue'
<1>1. Separate' <=> Separate
  BY SeparateStays
<1> DEFINE With == pc \in Deciding \cup {"stage"} /\ doing = "file"
<1>2. CASE ~With'
  BY <1>2 DEF HeldTrue
<1>3. CASE UNCHANGED <<item, held>> /\ (With' => With)
  <2>1. With => item \in items
    BY DEF ItemFits, AtItem
  <2>2. With' /\ Mine(item)' => Mine(item)
    <3>1. CASE With
      <4>1. ASSUME Mine(item)' PROVE ~item.dir /\ item.source \in files'
        BY <1>3, <4>1 DEF Mine
      <4>2. ASSUME Mine(item)' PROVE Mine(item)
        <5>1. item \in items
          BY <2>1, <3>1
        <5>2. PICK i \in items : i = item
          BY <5>1
        <5>3. Mine(i)'
          BY <4>1, <4>2, <5>2 DEF Mine
        <5> QED BY <5>2, <5>3, MineShrinks
      <4> QED BY <4>2
    <3> QED BY <1>3, <3>1
  <2> QED BY <1>1, <1>3, <2>2 DEF HeldTrue
<1> USE DEF Deciding, Goto
<1>4. ASSUME NEW i \in items, NextItem(i) PROVE HeldTrue'
  <2>1. /\ item' = i /\ files' = files /\ (pc' \in Deciding => i.dir)
        /\ pc' = "stage" => held' = at[i.source]
        /\ doing' = IF i.dir THEN "dir" ELSE "file"
        /\ pc = "next"
    BY <1>4 DEF NextItem, ghosts
  <2>2. ASSUME Separate, Mine(i) PROVE at[i.source] = i.source
    BY <2>1, <2>2 DEF SourcesStay, Stays, Early
  <2>3. Mine(item)' => Mine(i)
    BY <2>1 DEF Mine
  <2> QED BY <1>1, <2>1, <2>2, <2>3 DEF HeldTrue
<1>5. CASE Execute
  BY <1>2, <1>5 DEF Execute, StepFits
<1>6. CASE Resolve \/ Clear \/ Aside \/ Stage
  BY <1>2, <1>3, <1>6 DEF Resolve, Clear, Aside, Stage, target
<1>7. CASE MoveRoot \/ Install \/ MakeDir \/ Settle \/ CancelBetween \/ CopyDone \/ MoveDone \/ Crash
           \/ \E p \in Paths : RemoveSource(p)
  BY <1>2, <1>7 DEF MoveRoot, Install, MakeDir, Settle, CancelBetween, CopyDone, MoveDone, Crash, RemoveSource
<1>8. CASE Cancel \/ (\E p \in OthersAt, f \in Strangers : Create(p, f)) \/ (\E p \in DeletedAt : Delete(p))
  BY <1>3, <1>8 DEF Cancel, Create, Delete, target, copying
<1>9. ~Plan
  BY DEF Plan
<1> QED BY <1>4, <1>5, <1>6, <1>7, <1>8, <1>9 DEF Next

\* Both parts of HeldFits.
LEMMA HeldKeeps ==
    ASSUME pc # "new", RunInv, Separate => SourcesStay, Next
    PROVE  HeldFits'
<1>1. HeldOwned /\ HeldTrue /\ Planned /\ StepFits /\ ItemFits
  BY DEF RunInv, Way, HeldFits, HeldOwned, HeldTrue
<1> QED BY <1>1, HeldOwnedKeeps, HeldTrueKeeps DEF HeldFits, HeldOwned, HeldTrue

\* So all of RunInv is kept.
LEMMA RunKeeps ==
    ASSUME TypeOK, pc # "new", RunInv, Separate => SourcesStay, Next
    PROVE  RunInv'
<1>1. Planned /\ StepFits /\ ItemFits /\ Order /\ todo \subseteq items
  BY DEF RunInv, Way, TypeOK
<1> QED BY <1>1, PlannedKeeps, WayKeeps, OrderKeeps, HeldKeeps DEF RunInv

-----------------------------------------------------------------------------
(* What a step does to the sources and to the copies.                      *)

\* What is within a path is below the same top folder.
LEMMA WithinTop ==
    ASSUME NEW p \in Paths, NEW q \in Paths, Within(q, p)
    PROVE  q[1] = p[1]
  BY WithinIs

\* The steps before sources are removed come one after another.
LEMMA EarlyBefore ==
    ASSUME pc # "new", Next
    PROVE  /\ pc' \in Early => pc \in Early
           /\ pc' \in Early \cup {"remove"} => pc \in Early \cup {"remove"}
<1>1. ~Plan
  BY DEF Plan, Goto
<1> QED BY <1>1 DEF Next, Execute, Resolve, Clear, Aside, MoveRoot, NextItem, Stage, Install, MakeDir, Settle,
             CancelBetween, CopyDone, RemoveSource, MoveDone, Cancel, Crash, Create, Delete, Goto, Early, Working

\* Overwriting, setting aside and writing change what is below the top folder only.
LEMMA TopOnly ==
    ASSUME TypeOK, RunInv, Clear \/ Aside \/ Install \/ MakeDir, NEW q \in Paths, q[1] # top
    PROVE  at'[q] = at[q]
<1>1. TreeOK /\ Way
  BY TypeIs DEF RunInv
<1>2. to \in Paths /\ to[1] = top
  BY <1>1, AtWork DEF Clear, Aside, Install, MakeDir
<1>3. ~Within(q, to)
  BY <1>2, WithinTop
<1>4. CASE Clear
  BY <1>3, <1>4 DEF Clear, Fails, Remaining
<1>5. CASE Aside
  <2>1. spare \in Paths /\ spare[1] = top
    BY <1>1, <1>5, AtWork DEF Aside
  <2>2. ~Within(q, spare)
    BY <2>1, WithinTop
  <2> QED BY <1>2, <1>3, <1>5, <2>1, <2>2, RenameIs DEF Aside, Fails
<1>6. CASE Install
  <2>1. q # to
    BY <1>2
  <2> QED BY <1>1, <1>6, <2>1 DEF Install, Fails, TreeOK
<1>7. CASE MakeDir
  <2> DEFINE M == {to} \cup IF Len(to) = 2 THEN {} ELSE {Folder(to)}
  <2>1. at' = [p \in Paths |-> IF p \in M THEN Dir ELSE at[p]] \/ UNCHANGED at
    BY <1>7 DEF MakeDir, Fails
  <2>2. Len(to) = 3 => Folder(to)[1] = top
    BY <1>2, FolderOf
  <2>3. q \notin M
    BY <1>2, <2>2, PathLen
  <2> HIDE DEF M
  <2> QED BY <2>1, <2>3
<1> QED BY <1>4, <1>5, <1>6, <1>7

\* Steps that leave the tree as it was.
LEMMA TreeUntouched ==
    ASSUME Execute \/ Resolve \/ (\E i \in items : NextItem(i)) \/ Stage \/ Settle \/ CancelBetween \/ CopyDone
           \/ MoveDone \/ Cancel \/ Crash \/ (MoveRoot /\ pc' # "ok")
    PROVE  UNCHANGED <<at, files, overwritten>>
  BY DEF Execute, Resolve, NextItem, Stage, Settle, CancelBetween, CopyDone, MoveDone, Cancel, Crash, MoveRoot,
         Fails, ghosts

\* What other programs create is a new file, and what they delete is no file of the transfer any more.
LEMMA CreateIs ==
    ASSUME TreeOK, NEW p \in OthersAt, NEW f \in Strangers, Create(p, f)
    PROVE  /\ p \in Paths /\ at[p] = Nothing /\ at'[p] = f
           /\ \A q \in Paths : q # p => at'[q] = at[q]
           /\ files' = files \cup {f} /\ UNCHANGED <<pc, request, copying, target, overwritten>>
<1>1. p \in Paths /\ DOMAIN at = Paths
  BY TransferConstants DEF TreeOK
<1> QED BY <1>1 DEF Create, CanInstall

\* What a deletion by another program does, path by path.
LEMMA DeleteIs ==
    ASSUME TreeOK, NEW p \in DeletedAt, Delete(p)
    PROVE  /\ p \in Paths /\ at'[p] = Nothing
           /\ \A q \in Paths : q # p => at'[q] = at[q]
           /\ files' = files \ {at[p]} /\ UNCHANGED <<pc, request, copying, target, overwritten>>
<1>1. p \in Paths /\ DOMAIN at = Paths
  BY TransferConstants DEF TreeOK
<1> QED BY <1>1 DEF Delete

\* What the removal of a source does, path by path.
LEMMA RemoveIs ==
    ASSUME TreeOK, NEW p \in Paths, RemoveSource(p)
    PROVE  /\ pc = "remove" /\ p \in removing
           /\ \A q \in Paths : q # p => at'[q] = at[q]
           /\ \/ at'[p] = Nothing /\ pc' = "remove" /\ removing' = removing \ {p}
              \/ at' = at /\ pc' = "error" /\ removing' = removing
           /\ UNCHANGED <<files, overwritten, copied>>
<1>1. DOMAIN at = Paths
  BY DEF TreeOK
<1> QED BY <1>1 DEF RemoveSource, Fails, ghosts

\* A source of the plan stays until the removal.
LEMMA StayKeeps ==
    ASSUME TypeOK, RunInv, pc # "new", Separate, SourcesStay, Next
    PROVE  SourcesStay'
<1>1. TreeOK /\ Planned /\ items' = items
  BY TypeIs, RequestStays DEF RunInv, request
<1> SUFFICES ASSUME pc' \in Early, NEW i \in items, Mine(i)'
             PROVE  at'[i.source] = i.source
  BY <1>1 DEF SourcesStay, Stays
<1>2. at[i.source] = i.source
  BY <1>1, EarlyBefore, MineShrinks DEF SourcesStay, Stays
<1>3. i.source \in Paths /\ i.source \in Initial /\ i.source[1] # top /\ i.source \in Files
  BY <1>1, ItemIs, SourceElsewhere, NothingIsNoFile
<1>4. CASE UNCHANGED <<at, files, overwritten>>
  BY <1>2, <1>4
<1>5. CASE Clear \/ Aside \/ Install \/ MakeDir
  BY <1>2, <1>3, <1>5, TopOnly
<1>6. CASE MoveRoot
  <2>1. pc' # "ok"
    BY DEF Early, Working
  <2> QED BY <1>4, <1>6, <2>1, TreeUntouched
<1>7. ASSUME NEW p \in Paths, RemoveSource(p) PROVE at'[i.source] = i.source
  BY <1>7 DEF RemoveSource, Early, Working
<1>8. ASSUME NEW p \in OthersAt, NEW f \in Strangers, Create(p, f) PROVE at'[i.source] = i.source
  BY <1>1, <1>2, <1>3, <1>8, CreateIs, NothingIsNoFile
<1>9. ASSUME NEW p \in DeletedAt, Delete(p) PROVE at'[i.source] = i.source
  <2>1. i.source \in files'
    BY DEF Mine
  <2>2. i.source # p
    BY <1>1, <1>2, <1>9, <2>1, DeleteIs
  <2> QED BY <1>1, <1>2, <1>3, <1>9, <2>2, DeleteIs
<1>10. ~Plan
  BY DEF Plan, Goto
<1> QED BY <1>4, <1>5, <1>6, <1>7, <1>8, <1>9, <1>10, TreeUntouched DEF Next

\* A copy stays where it is, or at least below the top folder.
LEMMA PlacedKeeps ==
    ASSUME TypeOK, RunInv, pc # "new", Separate, Next, pc' \in Early \cup {"remove"},
           NEW i \in items, Placed(i), Mine(i)', pc = "clear" => i \in copied
    PROVE  Placed(i)'
<1>1. TreeOK /\ Planned /\ Way /\ Order /\ policy' = policy /\ top' = top
  BY TypeIs, RequestStays DEF RunInv, request
<1>2. /\ i.source \in Paths /\ i.source \in Initial /\ i.source \in Files
      /\ i.target \in Paths /\ i.target[1] = top /\ i.source \in files'
  BY <1>1, ItemIs, NothingIsNoFile DEF Mine
<1>3. CASE \A q \in Paths : q[1] = top /\ at[q] = i.source => at'[q] = i.source
  <2>1. CASE policy = "overwrite"
    BY <1>1, <1>2, <1>3, <2>1 DEF Placed
  <2>2. CASE policy # "overwrite"
    BY <1>1, <1>3, <2>2 DEF Placed, InTop
  <2> QED BY <2>1, <2>2
<1>4. CASE UNCHANGED <<at, files, overwritten>>
  BY <1>3, <1>4
<1>5. CASE Clear
  <2>1. pc = "clear" /\ i \in copied /\ policy = "overwrite" /\ to = goal /\ to \in Paths
    BY <1>1, <1>5 DEF Clear, Way, StepFits, ToFits
  <2>2. ~Moving
    BY <1>1, <2>1 DEF Way, MoveFits
  <2>3. AtItem
    BY <2>1, <2>2 DEF AtItem, Moving, Deciding
  <2>4. item \in items /\ item \notin copied /\ to = item.target /\ ~Below(i.source, item.source)
    BY <1>1, <2>1, <2>3 DEF Way, ItemFits, Order
  <2>5. ~Within(i.target, to)
    BY <1>1, <2>1, <2>4, TargetsApart
  <2>6. at'[i.target] = at[i.target]
    BY <1>2, <1>5, <2>5 DEF Clear, Fails, Remaining
  <2> QED BY <1>1, <2>1, <2>6 DEF Placed
<1>6. CASE Aside
  <2>1. pc = "aside" /\ policy = "renameExisting"
    BY <1>1, <1>6 DEF Aside, Way, StepFits
  <2>2. /\ to \in Paths /\ to[1] = top /\ spare \in Paths /\ spare[1] = top /\ Len(spare) = Len(to)
        /\ spare # to => at[spare] \in {Nothing} \cup Strangers
    BY <1>1, <2>1, AtWork DEF Way, SpareFits
  <2>3. CASE UNCHANGED at
    BY <1>3, <2>3
  <2>4. CASE Rename(to, spare)
    <3>1. PICK q \in Paths : q[1] = top /\ at[q] = i.source
      BY <2>1 DEF Placed, InTop
    <3>2. CASE Within(q, to)
      <4>1. \E s \in Paths : s[1] = spare[1] /\ at'[s] = at[q]
        BY <2>2, <2>4, <3>2, RenameMoves
      <4> QED BY <1>1, <2>1, <2>2, <3>1, <4>1 DEF Placed, InTop
    <3>3. CASE ~Within(q, to)
      <4>1. ~Within(q, spare)
        <5>1. CASE spare = to
          BY <3>3, <5>1
        <5>2. CASE q = spare
          <6>1. spare # to
            BY <2>2, <3>3, <5>2, WithinIs
          <6> QED BY <1>2, <2>2, <3>1, <5>2, <6>1, NothingIsNoFile
        <5>3. CASE spare # to /\ Below(q, spare)
          <6>1. at[spare] # Dir
            BY <2>2, <5>3, NothingIsNoFile
          <6>2. at[q] = Nothing
            BY <1>1, <2>2, <5>3, <6>1, NothingBelow DEF TreeOK
          <6> QED BY <1>2, <3>1, <6>2, NothingIsNoFile
        <5> QED BY <5>1, <5>2, <5>3 DEF Below
      <4>2. at'[q] = at[q]
        BY <2>2, <2>4, <3>3, <4>1, RenameIs
      <4> QED BY <1>1, <2>1, <3>1, <4>2 DEF Placed, InTop
    <3> QED BY <3>2, <3>3
  <2> QED BY <1>6, <2>3, <2>4 DEF Aside, Fails
<1>7. CASE MoveRoot
  <2>1. pc' # "ok"
    BY DEF Early, Working
  <2> QED BY <1>4, <1>7, <2>1, TreeUntouched
<1>8. CASE Install
  <2>1. to \in Paths /\ DOMAIN at = Paths
    BY <1>1, <1>8, AtWork DEF Install, TreeOK
  <2>2. UNCHANGED at \/ (at[to] = Nothing /\ \A q \in Paths : q # to => at'[q] = at[q])
    BY <1>8, <2>1 DEF Install, Fails, CanInstall
  <2> QED BY <1>2, <1>3, <2>2, NothingIsNoFile
<1>9. CASE MakeDir
  <2> DEFINE M == {to} \cup IF Len(to) = 2 THEN {} ELSE {Folder(to)}
  <2>1. UNCHANGED at \/ /\ at' = [p \in Paths |-> IF p \in M THEN Dir ELSE at[p]]
                        /\ \A p \in M : ~IsFile(p)
    BY <1>9 DEF MakeDir, Fails
  <2> HIDE DEF M
  <2> QED BY <1>2, <1>3, <2>1 DEF IsFile
<1>10. ASSUME NEW p \in Paths, RemoveSource(p) PROVE Placed(i)'
  <2>1. p \in removing /\ \A q \in Paths : q # p => at'[q] = at[q]
    BY <1>1, <1>10, RemoveIs
  <2>2. p[1] # top
    <3>1. PICK k \in items : p = k.source
      BY <2>1, TypeIs DEF SetsOK
    <3> QED BY <1>1, <3>1, SourceElsewhere
  <2> QED BY <1>3, <2>1, <2>2
<1>11. ASSUME NEW p \in OthersAt, NEW f \in Strangers, Create(p, f) PROVE Placed(i)'
  BY <1>1, <1>2, <1>3, <1>11, CreateIs, NothingIsNoFile
<1>12. ASSUME NEW p \in DeletedAt, Delete(p) PROVE Placed(i)'
  <2>1. \A q \in Paths : at[q] = i.source => q # p
    BY <1>1, <1>2, <1>12, DeleteIs
  <2> QED BY <1>1, <1>3, <1>12, <2>1, DeleteIs
<1>13. ~Plan
  BY DEF Plan, Goto
<1> QED BY <1>4, <1>5, <1>6, <1>7, <1>8, <1>9, <1>10, <1>11, <1>12, <1>13, TreeUntouched DEF Next

\* Every copy that was made stays, overwritten by none of the later ones.
LEMMA CopiesKeep ==
    ASSUME TypeOK, RunInv, pc # "new", Separate, CopiesStay, Next
    PROVE  CopiesStay'
<1>1. TreeOK /\ Planned /\ Way /\ copied \subseteq items /\ items' = items /\ policy' = policy /\ top' = top
  BY TypeIs, RequestStays DEF RunInv, request, SetsOK
<1>2. ASSUME pc' \in Early \cup {"remove"}, NEW i \in copied', Mine(i)' PROVE Placed(i)'
  <2>1. CASE i \in copied
    <3>1. Mine(i)
      BY <1>1, <1>2, <2>1, MineShrinks
    <3>2. Placed(i)
      BY <1>2, <2>1, <3>1, EarlyBefore DEF CopiesStay
    <3> QED BY <1>1, <1>2, <2>1, <3>2, PlacedKeeps
  <2>2. CASE i \notin copied
    <3>1. Settle
      <4>1. copied' # copied
        BY <2>2
      <4>2. ~Plan
        BY DEF Plan, Goto
      <4> QED BY <4>1, <4>2 DEF Next, Execute, Resolve, Clear, Aside, MoveRoot, NextItem, Stage, Install, copying,
           MakeDir, CancelBetween, CopyDone, RemoveSource, MoveDone, Cancel, Crash, Create, Delete
    <3>2. pc = "settle" /\ i = item /\ item \in items
      BY <1>1, <2>2, <3>1 DEF Settle, Goto, Way, ItemFits, AtItem
    <3>3. Mine(i)
      BY <1>1, <1>2, <3>2, MineShrinks
    <3>4. Placed(i)
      BY <3>2, <3>3 DEF CopiesStay
    <3> QED BY <1>1, <1>2, <3>2, <3>4, PlacedKeeps
  <2> QED BY <2>1, <2>2
<1>3. ASSUME pc' = "settle", NEW i \in items, item' = i, Mine(i)' PROVE Placed(i)'
  <2>1. pc' \in Early
    BY <1>3 DEF Early, Working
  <2>2. CASE pc = "settle"
    <3>1. item = i
      <4>1. ~Plan
        BY DEF Plan, Goto
      <4> QED BY <1>3, <2>2, <4>1 DEF Next, Execute, Resolve, Clear, Aside, MoveRoot, NextItem, Stage, Install, copying,
           MakeDir, Settle, CancelBetween, CopyDone, RemoveSource, MoveDone, Cancel, Crash, Create, Delete, Goto
    <3>2. Placed(i)
      BY <1>1, <1>3, <2>2, <3>1, MineShrinks DEF CopiesStay
    <3> QED BY <1>3, <2>1, <2>2, <3>2, PlacedKeeps
  <2>3. CASE pc # "settle"
    <3>1. Install \/ MakeDir
      BY <1>3, <2>3 DEF Next, Plan, Execute, Resolve, Clear, Aside, MoveRoot, NextItem, Stage,
           Settle, CancelBetween, CopyDone, RemoveSource, MoveDone, Cancel, Crash, Create, Delete, Goto
    <3>2. pc = "act" /\ item = i /\ files' = files /\ doing \in {"file", "dir"} /\ (MakeDir => doing = "dir")
      BY <1>3, <3>1 DEF Install, MakeDir, copying, ghosts
    <3>3. AtItem
      BY <3>2 DEF AtItem, Deciding
    <3>4. ~i.dir /\ doing = "file" /\ goal = i.target
      <4>1. ~i.dir
        BY <1>3 DEF Mine
      <4> QED BY <1>1, <3>2, <3>3, <4>1 DEF Way, ItemFits
    <3>5. at' = [at EXCEPT ![to] = held]
      BY <1>3, <3>1, <3>2, <3>4 DEF Install
    <3>6. to \in Paths /\ to[1] = top /\ (policy # "renameNew" => to = goal)
      BY <1>1, <3>2 DEF Way, ToFits
    <3>7. held = i.source
      <4>1. Mine(item)
        BY <1>1, <1>3, <3>2, MineShrinks
      <4> QED BY <3>2, <3>4, <4>1 DEF RunInv, HeldFits, Deciding
    <3>8. at'[to] = i.source
      BY <1>1, <3>5, <3>6, <3>7 DEF TreeOK
    <3> QED BY <1>1, <3>4, <3>6, <3>8 DEF Placed, InTop
  <2> QED BY <2>2, <2>3
<1>4. pc' = "settle" /\ Mine(item)' => Placed(item)'
  <2>1. CASE pc' = "settle" /\ Mine(item)'
    <3>1. item' \in items
      <4>1. Way'
        BY WayKeeps
      <4> QED BY <1>1, <2>1, <4>1 DEF Way, ItemFits, AtItem
    <3>2. PICK i \in items : i = item'
      BY <3>1
    <3>3. Mine(i)'
      BY <2>1, <3>2 DEF Mine
    <3>4. Placed(i)'
      BY <1>3, <2>1, <3>2, <3>3
    <3> QED BY <3>2, <3>4 DEF Placed, InTop
  <2> QED BY <2>1
<1> QED BY <1>2, <1>4 DEF CopiesStay

\* The removal takes the sources of complete roots only.
LEMMA RemovalKeeps ==
    ASSUME TypeOK, RunInv, pc # "new", Separate, SourcesStay, RemovalFits, Next
    PROVE  RemovalFits'
<1>1. TreeOK /\ Planned /\ items' = items /\ roots' = roots
  BY TypeIs, RequestStays DEF RunInv, request
<1>2. \A i \in items : i.source \in Initial /\ i.source \in Paths /\ i.source \in Files
                       /\ i.source \notin {Nothing, Dir} /\ i.source \notin Strangers
  BY <1>1, ItemIs, NothingIsNoFile
<1>3. CASE pc' # "remove"
  BY <1>3 DEF RemovalFits
<1>4. CASE pc' = "remove" /\ pc # "remove"
  <2>1. CopyDone
    BY <1>4 DEF Next, Plan, Execute, Resolve, Clear, Aside, MoveRoot, NextItem, Stage, Install,
           MakeDir, Settle, CancelBetween, RemoveSource, MoveDone, Cancel, Crash, Create, Delete, Goto
  <2>2. pc = "next" /\ UNCHANGED <<at, files, copied>> /\ removing' = Removable
    BY <1>4, <2>1 DEF CopyDone, Goto, ghosts
  <2>3. Removable' = Removable
    BY <1>1, <2>2 DEF Removable, FullyCopied
  <2>4. \A i \in items : Mine(i) => Stays(i)
    BY <2>2 DEF SourcesStay, Early
  <2> QED BY <1>1, <2>2, <2>3, <2>4 DEF RemovalFits, Mine, Stays
<1>5. CASE pc' = "remove" /\ pc = "remove"
  <2>0. \/ \E p \in Paths : RemoveSource(p)
        \/ Cancel
        \/ \E p \in OthersAt, f \in Strangers : Create(p, f)
        \/ \E p \in DeletedAt : Delete(p)
    BY <1>5 DEF Next, Plan, Execute, Resolve, Clear, Aside, MoveRoot, NextItem, Stage, Install,
           MakeDir, Settle, CancelBetween, CopyDone, MoveDone, Crash, Goto
  <2>1. copied' = copied
    BY <2>0 DEF RemoveSource, Cancel, Create, Delete, copying
  <2>2. Removable' = Removable
    BY <1>1, <2>1 DEF Removable, FullyCopied
  <2>3. Removable \subseteq {i.source : i \in items}
    BY DEF Removable
  <2>4. /\ removing \subseteq Removable
        /\ \A i \in items : Mine(i) /\ (i.source \in removing \/ i.source \notin Removable) => at[i.source] = i.source
        /\ \A s \in Removable \ removing : at[s] \notin {s, Dir}
    BY <1>5 DEF RemovalFits, Stays
  <2> SUFFICES /\ removing' \subseteq Removable
               /\ \A i \in items : Mine(i)' /\ (i.source \in removing' \/ i.source \notin Removable)
                                       => at'[i.source] = i.source
               /\ \A s \in Removable \ removing' : at'[s] \notin {s, Dir}
    BY <1>1, <2>2 DEF RemovalFits, Stays
  <2>5. ASSUME NEW p \in Paths, RemoveSource(p)
        PROVE  /\ removing' \subseteq Removable
               /\ \A i \in items : Mine(i)' /\ (i.source \in removing' \/ i.source \notin Removable)
                                       => at'[i.source] = i.source
               /\ \A s \in Removable \ removing' : at'[s] \notin {s, Dir}
    <3>1. /\ p \in removing /\ \A q \in Paths : q # p => at'[q] = at[q]
          /\ at'[p] = Nothing /\ removing' = removing \ {p}
      BY <1>1, <1>5, <2>5, RemoveIs
    <3>2. ASSUME NEW i \in items, Mine(i)', i.source \in removing' \/ i.source \notin Removable
          PROVE  at'[i.source] = i.source
      <4>1. Mine(i)
        BY <1>1, <3>2, MineShrinks
      <4>2. i.source # p /\ (i.source \in removing \/ i.source \notin Removable)
        BY <2>4, <3>1, <3>2
      <4> QED BY <1>2, <2>4, <3>1, <4>1, <4>2
    <3>3. ASSUME NEW s \in Removable \ removing' PROVE at'[s] \notin {s, Dir}
      <4>1. PICK i \in items : s = i.source
        BY <2>3
      <4>2. CASE s = p
        BY <1>2, <3>1, <4>1, <4>2, NothingIsNoFile
      <4>3. CASE s # p
        BY <1>2, <2>4, <3>1, <3>3, <4>1, <4>3
      <4> QED BY <4>2, <4>3
    <3> QED BY <2>4, <3>1, <3>2, <3>3
  <2>6. CASE Cancel
    BY <2>4, <2>6 DEF Cancel, copying, ghosts, Mine
  <2>7. ASSUME NEW p \in OthersAt, NEW f \in Strangers, Create(p, f)
        PROVE  /\ removing' \subseteq Removable
               /\ \A i \in items : Mine(i)' /\ (i.source \in removing' \/ i.source \notin Removable)
                                       => at'[i.source] = i.source
               /\ \A s \in Removable \ removing' : at'[s] \notin {s, Dir}
    <3>1. /\ at[p] = Nothing /\ at'[p] = f /\ removing' = removing
          /\ \A q \in Paths : q # p => at'[q] = at[q]
      BY <1>1, <2>7, CreateIs DEF copying
    <3>2. ASSUME NEW i \in items, Mine(i)', i.source \in removing' \/ i.source \notin Removable
          PROVE  at'[i.source] = i.source
      <4>1. Mine(i)
        BY <1>1, <3>2, MineShrinks
      <4>2. at[i.source] = i.source
        BY <2>4, <3>1, <3>2, <4>1
      <4> QED BY <1>2, <3>1, <4>2
    <3>3. ASSUME NEW s \in Removable \ removing' PROVE at'[s] \notin {s, Dir}
      <4>1. PICK i \in items : s = i.source
        BY <2>3
      <4>2. CASE s = p
        BY <1>2, <3>1, <4>1, <4>2, NothingIsNoFile
      <4>3. CASE s # p
        BY <1>2, <2>4, <3>1, <3>3, <4>1, <4>3
      <4> QED BY <4>2, <4>3
    <3> QED BY <2>4, <3>1, <3>2, <3>3
  <2>8. ASSUME NEW p \in DeletedAt, Delete(p)
        PROVE  /\ removing' \subseteq Removable
               /\ \A i \in items : Mine(i)' /\ (i.source \in removing' \/ i.source \notin Removable)
                                       => at'[i.source] = i.source
               /\ \A s \in Removable \ removing' : at'[s] \notin {s, Dir}
    <3>1. /\ at'[p] = Nothing /\ removing' = removing /\ files' = files \ {at[p]}
          /\ \A q \in Paths : q # p => at'[q] = at[q]
      BY <1>1, <2>8, DeleteIs DEF copying
    <3>2. ASSUME NEW i \in items, Mine(i)', i.source \in removing' \/ i.source \notin Removable
          PROVE  at'[i.source] = i.source
      <4>1. Mine(i) /\ i.source \in files'
        BY <1>1, <3>2, MineShrinks DEF Mine
      <4>2. at[i.source] = i.source
        BY <2>4, <3>1, <3>2, <4>1
      <4> QED BY <1>2, <3>1, <4>1, <4>2
    <3>3. ASSUME NEW s \in Removable \ removing' PROVE at'[s] \notin {s, Dir}
      <4>1. PICK i \in items : s = i.source
        BY <2>3
      <4>2. CASE s = p
        BY <1>2, <3>1, <4>1, <4>2, NothingIsNoFile
      <4>3. CASE s # p
        BY <1>2, <2>4, <3>1, <3>3, <4>1, <4>3
      <4> QED BY <4>2, <4>3
    <3> QED BY <2>4, <3>1, <3>2, <3>3
  <2> QED BY <2>0, <2>5, <2>6, <2>7, <2>8
<1> QED BY <1>3, <1>4, <1>5

\* Nothing but what other programs create comes to the place of a source.
LEMMA PureKeeps ==
    ASSUME TypeOK, RunInv, pc # "new", Separate, SourcesPure, Next
    PROVE  SourcesPure'
<1>1. TreeOK /\ Planned /\ items' = items
  BY TypeIs, RequestStays DEF RunInv, request
<1> SUFFICES ASSUME pc' \in Early \cup {"remove"}, NEW i \in items
             PROVE  at'[i.source] \in {Nothing, Dir, i.source} \cup Strangers
  BY <1>1 DEF SourcesPure
<1>2. at[i.source] \in {Nothing, Dir, i.source} \cup Strangers
  BY EarlyBefore DEF SourcesPure
<1>3. i.source \in Paths /\ i.source[1] # top
  BY <1>1, ItemIs, SourceElsewhere
<1>4. CASE UNCHANGED <<at, files, overwritten>>
  BY <1>2, <1>4
<1>5. CASE Clear \/ Aside \/ Install \/ MakeDir
  BY <1>2, <1>3, <1>5, TopOnly
<1>6. CASE MoveRoot
  <2>1. pc' # "ok"
    BY DEF Early, Working
  <2> QED BY <1>4, <1>6, <2>1, TreeUntouched
<1>7. ASSUME NEW p \in Paths, RemoveSource(p) PROVE at'[i.source] \in {Nothing, Dir, i.source} \cup Strangers
  BY <1>1, <1>2, <1>3, <1>7, RemoveIs
<1>8. ASSUME NEW p \in OthersAt, NEW f \in Strangers, Create(p, f)
      PROVE  at'[i.source] \in {Nothing, Dir, i.source} \cup Strangers
  BY <1>1, <1>2, <1>3, <1>8, CreateIs
<1>9. ASSUME NEW p \in DeletedAt, Delete(p) PROVE at'[i.source] \in {Nothing, Dir, i.source} \cup Strangers
  BY <1>1, <1>2, <1>3, <1>9, DeleteIs
<1>10. ~Plan
  BY DEF Plan, Goto
<1> QED BY <1>4, <1>5, <1>6, <1>7, <1>8, <1>9, <1>10, TreeUntouched DEF Next

\* Without other programs a rename finds what the resolution of the conflict found.
LEMMA QuietKeeps ==
    ASSUME TypeOK, RunInv, pc # "new", Quiet, Next
    PROVE  Quiet'
<1> SUFFICES ASSUME Strangers = {} PROVE Quiet'
  BY DEF Quiet
<1>1. TreeOK /\ Planned /\ Way /\ policy' = policy
  BY TypeIs, RequestStays DEF RunInv, request
<1>2. CASE ~Moving' /\ pc' # "planned"
  BY <1>2 DEF Quiet
<1>3. ASSUME UNCHANGED <<pc, goal, to, spare, doing>>, \A q \in Paths : at'[q] = at[q] \/ at'[q] = Nothing
      PROVE  Quiet'
  <2>1. Moving' <=> Moving
    BY <1>3 DEF Moving
  <2>2. /\ Moving => goal \in Paths
        /\ Moving /\ pc = "act" => to \in Paths
    BY <1>1 DEF Moving, Deciding, Way, GoalFits, Working, ToFits
  <2> QED BY <1>1, <1>3, <2>1, <2>2 DEF Quiet
<1>4. CASE Execute
  <2>1. CASE Moving'
    <3>1. pc = "planned" /\ pc' = "resolve" /\ at' = at /\ (policy = "skip" => at[goal'] = Nothing)
      BY <1>4, <2>1 DEF Execute, Goto, Moving, Deciding
    <3>2. \A p \in Paths : at[p] # Nothing => p \in Initial
      BY <3>1 DEF Quiet
    <3> QED BY <1>1, <3>1, <3>2 DEF Quiet
  <2> QED BY <1>2, <1>4, <2>1 DEF Execute, Goto
<1>5. CASE Resolve
  <2>1. CASE Moving'
    <3>1. pc = "resolve" /\ Moving /\ UNCHANGED <<at, goal, doing>> /\ goal \in Paths /\ goal[Len(goal)] \in Names
      BY <1>1, <1>5, <2>1 DEF Resolve, Moving, Deciding, Way, GoalFits, Working
    <3>2. \A q \in Paths \ Initial : at[q] = Nothing
      BY <3>1 DEF Quiet
    <3>3. NextAvailable(goal) \in Paths \ Initial /\ at[NextAvailable(goal)] = Nothing
      BY <3>1, <3>2, NextAvailableIs
    <3>4. policy = "skip" => at[goal] = Nothing
      BY <3>1 DEF Quiet
    <3>5. CASE pc' = "act"
      <4>1. at'[to'] = Nothing
        BY <1>5, <3>1, <3>3, <3>4, <3>5 DEF Resolve
      <4> QED BY <3>5, <4>1 DEF Quiet
    <3>6. CASE pc' = "aside"
      <4>1. to' = goal /\ spare' = NextAvailable(goal) /\ at[goal] # Nothing
        BY <1>5, <3>6 DEF Resolve
      <4> QED BY <3>3, <3>6, <4>1 DEF Quiet
    <3>7. CASE pc' \notin {"act", "aside"}
      <4>1. pc' \in {"clear", "error"}
        BY <1>5, <3>7 DEF Resolve
      <4> QED BY <4>1 DEF Quiet
    <3> QED BY <3>5, <3>6, <3>7
  <2> QED BY <1>2, <1>5, <2>1 DEF Resolve
<1>6. CASE Clear
  <2>1. pc = "clear" /\ to' = to /\ to \in Paths
    BY <1>1, <1>6, AtWork DEF Clear, target
  <2>2. CASE pc' = "act"
    <3>1. Within(to, to)
      BY <2>1, WithinIs
    <3>2. at'[to] = Nothing
      BY <1>6, <2>1, <2>2, <3>1 DEF Clear, Remaining
    <3> QED BY <2>1, <2>2, <3>2 DEF Quiet
  <2>3. CASE pc' # "act"
    BY <1>2, <1>6, <2>3 DEF Clear, Moving, Deciding
  <2> QED BY <2>2, <2>3
<1>7. CASE Aside
  <2>1. pc = "aside" /\ to' = to /\ doing' = doing
    BY <1>7 DEF Aside, target
  <2>2. to \in Paths /\ spare \in Paths /\ Len(spare) = Len(to)
    BY <1>1, <2>1, AtWork
  <2>3. CASE pc' = "act" /\ Moving'
    <3>1. spare # to
      BY <2>1, <2>3 DEF Quiet, Moving, Deciding
    <3>2. Rename(to, spare)
      BY <1>7, <2>3 DEF Aside
    <3>3. ~Within(to, spare) /\ Within(to, to)
      BY <2>2, <3>1, WithinIs
    <3>4. at'[to] = Nothing
      BY <2>2, <3>2, <3>3, RenameIs
    <3> QED BY <2>1, <2>3, <3>4 DEF Quiet
  <2>4. CASE ~(pc' = "act" /\ Moving')
    BY <1>2, <1>7, <2>4 DEF Aside, Moving, Deciding
  <2> QED BY <2>3, <2>4
<1>8. CASE MoveRoot \/ (\E i \in items : NextItem(i)) \/ Install \/ MakeDir \/ Settle
           \/ CancelBetween \/ CopyDone \/ MoveDone \/ Crash \/ \E p \in Paths : RemoveSource(p)
  BY <1>2, <1>8 DEF MoveRoot, NextItem, Install, MakeDir, Settle, CancelBetween, CopyDone, MoveDone, Crash,
        RemoveSource, Goto, Moving, Deciding
<1>9. CASE Stage
  <2>1. doing' = "file" /\ pc' # "planned"
    BY <1>1, <1>9 DEF Stage, target, Way, StepFits
  <2> QED BY <1>2, <2>1 DEF Moving
<1>10. CASE Cancel
  BY <1>3, <1>10 DEF Cancel, target
<1>11. ASSUME NEW p \in DeletedAt, Delete(p) PROVE Quiet'
  BY <1>1, <1>3, <1>11, DeleteIs DEF target
<1>12. ~Plan /\ ~\E p \in OthersAt, f \in Strangers : Create(p, f)
  BY DEF Plan, Goto
<1> QED BY <1>4, <1>5, <1>6, <1>7, <1>8, <1>9, <1>10, <1>11, <1>12 DEF Next

-----------------------------------------------------------------------------
(* The properties.                                                         *)

\* An operation that has ended takes no more steps.
LEMMA OverIsOver == Next => pc \notin Over
  BY DEF Next, Plan, Execute, Resolve, Clear, Aside, MoveRoot, NextItem, Stage, Install, Over,
     MakeDir, Settle, CancelBetween, CopyDone, RemoveSource, MoveDone, Cancel, Crash, Create, Delete, Goto

\* The step that ends the operation changes nothing, unless it is the rename of the only root.
LEMMA EndIs ==
    ASSUME TreeOK, pc # "new", Next, pc' \in Over
    PROVE  \/ UNCHANGED <<at, files, overwritten>>
           \/ MoveRoot /\ pc = "act" /\ pc' = "ok" /\ UNCHANGED <<files, overwritten>>
<1>1. ~Plan
  BY DEF Plan, Goto
<1>2. CASE Clear \/ Aside \/ Install \/ MakeDir
  BY <1>2 DEF Clear, Aside, Install, MakeDir, Fails, Over, ghosts
<1>3. CASE \E p \in Paths : RemoveSource(p)
  BY <1>3, RemoveIs DEF Over
<1>4. CASE (\E p \in OthersAt, f \in Strangers : Create(p, f)) \/ (\E p \in DeletedAt : Delete(p))
  BY <1>4 DEF Create, Delete
<1>5. CASE MoveRoot
  BY <1>5 DEF MoveRoot, Fails, Over, ghosts
<1> QED BY <1>1, <1>2, <1>3, <1>4, <1>5, TreeUntouched DEF Next

\* That rename takes every file of the operation with it.
LEMMA MoveRootIs ==
    ASSUME TypeOK, RunInv, Separate, SourcesStay, MoveRoot, pc' = "ok"
    PROVE  \E r \in roots : /\ roots = {r} /\ r \in Paths /\ r[1] # top /\ to \in Paths /\ to[1] = top /\ Len(to) = 2
                            /\ Rename(r, to) \/ UNCHANGED at
                            /\ Rename(r, to)
                            /\ \A i \in items : Within(i.source, r) /\ at'[i.source] = Nothing
                            /\ \A i \in items : Mine(i) => at[i.source] = i.source
<1>1. Planned /\ Way /\ pc = "act" /\ doing = "move"
  BY DEF RunInv, MoveRoot
<1>2. PICK r \in roots : Rename(r, to)
  BY DEF MoveRoot, Fails
<1>3. roots = {r}
  BY <1>1 DEF Way, MoveFits, Moving, Deciding
<1>4. r \in Paths /\ r[1] # top
  BY <1>1, InitialIs DEF Planned, Separate
<1>5. to \in Paths /\ to[1] = top /\ Len(to) = 2
  BY <1>1, AtWork
<1>6. ASSUME NEW i \in items PROVE Within(i.source, r) /\ at'[i.source] = Nothing
  <2>1. i.source \in Paths /\ Within(i.source, r)
    BY <1>1, <1>3, ItemIs
  <2>2. ~Within(i.source, to)
    BY <1>4, <1>5, <2>1, WithinTop
  <2> QED BY <1>2, <1>4, <1>5, <2>1, <2>2, RenameIs
<1>7. \A i \in items : Mine(i) => at[i.source] = i.source
  BY <1>1 DEF SourcesStay, Stays, Early, Working
<1> QED BY <1>2, <1>3, <1>4, <1>5, <1>6, <1>7

\* So no file of the transfer is lost, ...
LEMMA SourcesKeep ==
    ASSUME TypeOK, pc # "new", RunInv, Separate => TreeInv, (Separate => TreeInv)', SourcesKept, Next
    PROVE  SourcesKept'
<1>1. UNCHANGED request /\ Planned /\ TreeOK /\ (Separate' <=> Separate) /\ PointOK'
  BY TypeIs, RequestStays, SeparateStays, PointKeeps DEF RunInv
<1> SUFFICES ASSUME Separate, NEW f \in found, f \in files' PROVE Kept(f)'
  BY <1>1 DEF SourcesKept, request
<1>2. PICK i \in items : ~i.dir /\ f = i.source
  BY <1>1 DEF Planned
<1>3. Mine(i)' /\ Mine(i) /\ i \in items' /\ f \in files
  BY <1>1, <1>2, MineShrinks DEF Mine, request
<1>4. TreeInv' /\ TreeInv /\ i.source \in Paths /\ i.target \in Paths /\ top' = top /\ policy' = policy
      /\ items' = items /\ roots' = roots
  BY <1>1, ItemIs DEF request
<1>5. CASE pc' \in Early
  <2>1. at'[i.source] = i.source
    BY <1>3, <1>4, <1>5 DEF TreeInv, SourcesStay, Stays
  <2> QED BY <1>2, <1>4, <2>1 DEF Kept
<1>6. CASE pc' = "remove"
  <2>1. CASE i.source \in removing' \/ i.source \notin Removable'
    <3>1. at'[i.source] = i.source
      BY <1>3, <1>4, <1>6, <2>1 DEF TreeInv, RemovalFits, Stays
    <3> QED BY <1>2, <1>4, <3>1 DEF Kept
  <2>2. CASE i.source \in Removable'
    <3>1. PICK r \in roots : Within(i.source, r)
      BY <1>1, ItemIs
    <3>2. i \in copied'
      BY <1>3, <1>4, <2>2, <3>1 DEF Removable, FullyCopied
    <3>3. Placed(i)'
      BY <1>3, <1>4, <1>6, <3>2 DEF TreeInv, CopiesStay
    <3> QED BY <1>2, <1>4, <3>3 DEF Placed, InTop, Kept
  <2> QED BY <2>1, <2>2
<1>7. CASE pc' \in Over
  <2>1. CASE UNCHANGED <<at, files, overwritten>>
    <3>1. Kept(f)
      BY <1>3 DEF SourcesKept
    <3> QED BY <2>1, <3>1 DEF Kept
  <2>2. CASE MoveRoot /\ pc' = "ok"
    <3>1. PICK r \in roots : /\ r \in Paths /\ to \in Paths /\ Len(to) = 2 /\ Rename(r, to)
                             /\ Within(i.source, r) /\ at[i.source] = i.source
      BY <1>3, <1>4, <2>2, MoveRootIs DEF TreeInv
    <3>2. \E s \in Paths : at'[s] = at[i.source]
      BY <1>4, <3>1, RenameMoves
    <3> QED BY <1>2, <3>1, <3>2 DEF Kept
  <2> QED BY <1>1, <1>7, <2>1, <2>2, EndIs
<1>8. pc' # "new"
  BY DEF Next, Plan, Execute, Resolve, Clear, Aside, MoveRoot, NextItem, Stage, Install,
     MakeDir, Settle, CancelBetween, CopyDone, RemoveSource, MoveDone, Cancel, Crash, Create, Delete, Goto
<1> QED BY <1>1, <1>5, <1>6, <1>7, <1>8 DEF PointOK, Early, Working

\* ... nor any other file, ...
LEMMA OthersKeep ==
    ASSUME TypeOK, pc # "new", RunInv, Separate => TreeInv, OthersKept, Next
    PROVE  OthersKept'
<1>1. Planned /\ TreeOK /\ SetsOK /\ Way /\ (Separate' <=> Separate) /\ kind' = kind /\ policy' = policy
  BY TypeIs, RequestStays, SeparateStays DEF RunInv, request
<1> SUFFICES ASSUME (Strangers = {} /\ Separate) \/ (kind = "copy" /\ policy # "renameExisting"),
                    NEW f \in files' \ overwritten'
             PROVE  Kept(f)'
  BY <1>1 DEF OthersKept
<1>2. \A g \in files \ overwritten : \E p \in Paths : at[p] = g
  BY DEF OthersKept, Kept
<1>3. \A g \in files : g # Nothing /\ g # Dir
  BY <1>1, NothingIsNoFile DEF SetsOK
<1>4. CASE /\ f \in files \ overwritten
           /\ \A p \in Paths : at[p] = f => at'[p] = f
  BY <1>2, <1>4 DEF Kept
<1>5. CASE UNCHANGED <<at, files, overwritten>>
  BY <1>4, <1>5
<1>6. CASE Clear
  <2>1. to \in Paths /\ files' = files
    BY <1>1, <1>6, AtWork DEF Clear
  <2>2. CASE at' = Remaining(to) /\ overwritten' = overwritten \cup FilesAt(to)
    <3>1. f \in files \ overwritten /\ f \notin FilesAt(to)
      BY <2>1, <2>2
    <3>2. ASSUME NEW p \in Paths, at[p] = f PROVE at'[p] = f
      <4>1. ~Within(p, to)
        BY <1>3, <3>1, <3>2 DEF FilesAt
      <4> QED BY <2>2, <3>2, <4>1 DEF Remaining
    <3> QED BY <1>4, <3>1, <3>2
  <2>3. CASE UNCHANGED <<at, overwritten>>
    BY <1>5, <2>1, <2>3
  <2> QED BY <1>6, <2>2, <2>3 DEF Clear, Fails
<1>7. CASE Aside
  <2>0. UNCHANGED <<files, overwritten>>
    BY <1>7 DEF Aside, ghosts
  <2>1. pc = "aside" /\ policy = "renameExisting" /\ Strangers = {} /\ Separate
    BY <1>1, <1>7 DEF Aside, Way, StepFits
  <2>2. /\ to \in Paths /\ spare \in Paths /\ Len(spare) = Len(to)
        /\ spare # to => at[spare] = Nothing
    BY <1>1, <2>1, AtWork DEF Way, SpareFits
  <2>3. CASE Rename(to, spare)
    <3>1. PICK q \in Paths : at[q] = f
      BY <1>2, <2>0
    <3>2. CASE Within(q, to)
      <4>1. \E s \in Paths : at'[s] = at[q]
        BY <2>2, <2>3, <3>2, RenameMoves
      <4> QED BY <3>1, <4>1 DEF Kept
    <3>3. CASE ~Within(q, to)
      <4>0. f # Nothing
        BY <1>3, <2>0
      <4>1. ~Within(q, spare)
        <5>1. CASE spare = to
          BY <3>3, <5>1
        <5>2. CASE spare # to /\ q = spare
          BY <2>2, <3>1, <4>0, <5>2
        <5>3. CASE spare # to /\ Below(q, spare)
          <6>1. at[spare] # Dir
            BY <2>2, <5>3, NothingIsNoFile
          <6>2. at[q] = Nothing
            BY <1>1, <2>2, <5>3, <6>1, NothingBelow DEF TreeOK
          <6> QED BY <3>1, <4>0, <6>2
        <5> QED BY <5>1, <5>2, <5>3 DEF Below
      <4>2. at'[q] = at[q]
        BY <2>2, <2>3, <3>3, <4>1, RenameIs
      <4> QED BY <3>1, <4>2 DEF Kept
    <3> QED BY <3>2, <3>3
  <2> QED BY <1>5, <1>7, <2>0, <2>3 DEF Aside, Fails
<1>8. CASE MoveRoot
  <2>1. CASE pc' = "ok"
    <3>1. pc = "act" /\ doing = "move" /\ kind = "move"
      BY <1>1, <1>8 DEF MoveRoot, Way, MoveFits, Moving, Deciding
    <3>2. Strangers = {} /\ Separate
      BY <3>1
    <3>3. SourcesStay /\ at[to] = Nothing
      BY <3>1, <3>2 DEF TreeInv, Quiet, Moving, Deciding
    <3>4. PICK r \in roots : r \in Paths /\ r[1] # top /\ to \in Paths /\ to[1] = top /\ Len(to) = 2 /\ Rename(r, to)
      BY <1>8, <2>1, <3>2, <3>3, MoveRootIs
    <3>5. UNCHANGED <<files, overwritten>>
      BY <1>8 DEF MoveRoot, ghosts
    <3>6. PICK q \in Paths : at[q] = f
      BY <1>2, <3>5
    <3>7. f # Nothing
      BY <1>3, <3>5
    <3>8. CASE Within(q, r)
      <4>1. \E s \in Paths : at'[s] = at[q]
        BY <3>4, <3>8, RenameMoves
      <4> QED BY <3>6, <4>1 DEF Kept
    <3>9. CASE ~Within(q, r)
      <4>1. ~Within(q, to)
        <5>1. q # to
          BY <3>3, <3>6, <3>7
        <5>2. ~Below(q, to)
          BY <1>1, <3>3, <3>4, <3>6, <3>7, NothingBelow, NothingIsNoFile DEF TreeOK
        <5> QED BY <5>1, <5>2 DEF Below
      <4>2. at'[q] = at[q]
        BY <3>4, <3>9, <4>1, RenameIs
      <4> QED BY <3>6, <4>2 DEF Kept
    <3> QED BY <3>8, <3>9
  <2>2. CASE pc' # "ok"
    BY <1>5, <1>8, <2>2, TreeUntouched
  <2> QED BY <2>1, <2>2
<1>9. CASE Install
  <2>1. to \in Paths /\ DOMAIN at = Paths /\ UNCHANGED <<files, overwritten>>
    BY <1>1, <1>9, AtWork DEF Install, TreeOK, ghosts
  <2>2. UNCHANGED at \/ (at[to] = Nothing /\ \A q \in Paths : q # to => at'[q] = at[q])
    BY <1>9, <2>1 DEF Install, Fails, CanInstall
  <2> QED BY <1>3, <1>4, <2>1, <2>2
<1>10. CASE MakeDir
  <2> DEFINE M == {to} \cup IF Len(to) = 2 THEN {} ELSE {Folder(to)}
  <2>1. UNCHANGED at \/ /\ at' = [p \in Paths |-> IF p \in M THEN Dir ELSE at[p]]
                        /\ \A p \in M : ~IsFile(p)
    BY <1>10 DEF MakeDir, Fails
  <2>2. UNCHANGED <<files, overwritten>> /\ f \in Files
    BY <1>1, <1>10 DEF MakeDir, ghosts, SetsOK
  <2> HIDE DEF M
  <2> QED BY <1>4, <2>1, <2>2 DEF IsFile
<1>11. ASSUME NEW p \in Paths, RemoveSource(p) PROVE Kept(f)'
  <2>1. /\ pc = "remove" /\ p \in removing /\ \A q \in Paths : q # p => at'[q] = at[q]
        /\ UNCHANGED <<files, overwritten>>
    BY <1>1, <1>11, RemoveIs
  <2>2. kind = "move" /\ Strangers = {} /\ Separate
    BY <1>1, <2>1 DEF Way, StepFits
  <2>3. CASE at[p] # f
    BY <1>4, <2>1, <2>3
  <2>4. CASE at[p] = f
    <3>1. PICK i \in items : p = i.source
      BY <1>1, <2>1 DEF SetsOK
    <3>2. f = i.source
      BY <1>3, <2>1, <2>2, <2>4, <3>1 DEF TreeInv, SourcesPure
    <3>3. Mine(i)
      BY <1>1, <2>1, <3>2 DEF Mine, Planned
    <3>4. p \in Removable
      BY <2>1, <2>2 DEF TreeInv, RemovalFits
    <3>5. PICK r \in roots : Within(i.source, r)
      BY <1>1, ItemIs
    <3>6. i \in copied
      BY <3>1, <3>4, <3>5 DEF Removable, FullyCopied
    <3>7. Placed(i)
      BY <2>1, <2>2, <3>3, <3>6 DEF TreeInv, CopiesStay
    <3>8. PICK q \in Paths : q[1] = top /\ at[q] = f
      BY <1>1, <3>2, <3>7, ItemIs DEF Placed, InTop
    <3>9. q # p
      BY <1>1, <2>2, <3>1, <3>8, SourceElsewhere
    <3> QED BY <2>1, <3>8, <3>9 DEF Kept
  <2> QED BY <2>3, <2>4
<1>12. ASSUME NEW p \in OthersAt, NEW g \in Strangers, Create(p, g) PROVE Kept(f)'
  <2>1. /\ p \in Paths /\ at[p] = Nothing /\ at'[p] = g
        /\ \A q \in Paths : q # p => at'[q] = at[q]
        /\ files' = files \cup {g} /\ overwritten' = overwritten
    BY <1>1, <1>12, CreateIs
  <2>2. CASE f = g
    BY <2>1, <2>2 DEF Kept
  <2>3. CASE f # g
    BY <1>3, <1>4, <2>1, <2>3
  <2> QED BY <2>2, <2>3
<1>13. ASSUME NEW p \in DeletedAt, Delete(p) PROVE Kept(f)'
  <2>1. /\ \A q \in Paths : q # p => at'[q] = at[q]
        /\ files' = files \ {at[p]} /\ overwritten' = overwritten
    BY <1>1, <1>13, DeleteIs
  <2> QED BY <1>4, <2>1
<1>14. ~Plan
  BY DEF Plan, Goto
<1> QED BY <1>5, <1>6, <1>7, <1>8, <1>9, <1>10, <1>11, <1>12, <1>13, <1>14, TreeUntouched DEF Next

\* Of two roots a file is below, one is below the other: what is kept of either is kept of both.
LEMMA NothingRemovable ==
    ASSUME Planned, NEW r \in roots, NEW s \in roots, NEW i \in items, NEW k \in items,
           Within(i.source, r), Within(k.source, r), Within(i.source, s), ~FullyCopied(s)
    PROVE  k.source \notin Removable
<1>1. r \in Paths /\ s \in Paths /\ \A m \in items : m.source \in Paths
  BY ItemIs, InitialIs DEF Planned
<1>2. PICK m \in items : Within(m.source, s) /\ m \notin copied
  BY DEF FullyCopied
<1>3. CASE Within(s, r)
  <2>1. Within(m.source, r)
    BY <1>1, <1>2, <1>3, WithinIs
  <2> QED BY <1>2, <2>1 DEF FullyCopied, Removable
<1>4. CASE ~Within(s, r)
  <2>1. Within(r, s)
    <3>1. i.source[1] = r[1] /\ i.source[1] = s[1] /\ i.source[2] = r[2] /\ i.source[2] = s[2]
      BY <1>1, WithinIs, PathShape
    <3>2. Len(r) \in {2, 3} /\ Len(s) \in {2, 3} /\ i.source \in Paths
      BY <1>1, PathShape
    <3>3. Len(s) = 2 => Within(r, s)
      BY <1>1, <3>1, <3>2, WithinIs, SamePath
    <3>4. Len(r) = 2 => Within(s, r)
      BY <1>1, <3>1, <3>2, WithinIs, SamePath
    <3>5. Len(r) = 3 /\ Len(s) = 3 => i.source = r /\ i.source = s
      BY <1>1, <3>2, WithinIs
    <3>6. Within(r, r)
      BY <1>1, WithinIs
    <3> QED BY <1>4, <3>2, <3>3, <3>4, <3>5, <3>6
  <2>2. Within(k.source, s)
    BY <1>1, <2>1, WithinIs
  <2> QED BY <2>2 DEF Removable
<1> QED BY <1>3, <1>4

\* ... and a root is moved as a whole or stays as a whole.
LEMMA WholeKeeps ==
    ASSUME TypeOK, pc # "new", RunInv, Separate => TreeInv, Next
    PROVE  WholeRoots'
<1>1. UNCHANGED request /\ Planned /\ TreeOK /\ (Separate' <=> Separate) /\ PointOK /\ pc \notin Over
  BY TypeIs, RequestStays, SeparateStays, OverIsOver DEF RunInv
<1> SUFFICES ASSUME Separate, pc' \in {"ok", "cancelled"}, NEW r \in roots
             PROVE  LET left == {i \in items' : Within(i.source, r) /\ at'[i.source] \in {i.source, Dir}}
                        kept == {i \in items' : Within(i.source, r) /\ ~i.dir /\ i.source \in files'}
                    IN  left # {} \/ pc' = "cancelled" => kept \subseteq left
  BY <1>1 DEF WholeRoots, request
<1>2. items' = items /\ roots' = roots /\ TreeInv
  BY <1>1 DEF request
<1>3. CASE MoveRoot /\ pc' = "ok"
  <2>1. roots = {r} /\ \A i \in items : at'[i.source] = Nothing
    BY <1>2, <1>3, MoveRootIs DEF TreeInv
  <2>2. \A i \in items : Nothing # i.source /\ Nothing # Dir
    BY <1>1, ItemIs, NothingIsNoFile
  <2> QED BY <1>2, <1>3, <2>1, <2>2
<1>4. CASE UNCHANGED <<at, files>> /\ pc \in Early
  <2>1. \A i \in items : ~i.dir /\ i.source \in files => at[i.source] = i.source
    BY <1>2, <1>4 DEF TreeInv, SourcesStay, Mine, Stays
  <2> QED BY <1>2, <1>4, <2>1
<1>5. CASE UNCHANGED <<at, files>> /\ pc = "remove"
  <2>1. MoveDone
    BY <1>5 DEF Next, Plan, Execute, Resolve, Clear, Aside, MoveRoot, NextItem, Stage, Install, Deciding, Over,
       MakeDir, Settle, CancelBetween, CopyDone, RemoveSource, Cancel, Crash, Create, Delete, Goto
  <2>2. pc' = "ok" /\ removing = {}
    BY <2>1 DEF MoveDone, Goto
  <2> SUFFICES ASSUME NEW i \in items, Within(i.source, r), at[i.source] \in {i.source, Dir},
                      NEW k \in items, Within(k.source, r), Mine(k)
               PROVE  at[k.source] = k.source
    BY <1>2, <1>5, <2>2 DEF Mine
  <2>3. i.source \notin Removable
    BY <1>2, <1>5, <2>2 DEF TreeInv, RemovalFits
  <2>4. PICK s \in roots : Within(i.source, s) /\ ~FullyCopied(s)
    BY <2>3 DEF Removable
  <2>5. k.source \notin Removable
    BY <1>1, <2>4, NothingRemovable
  <2> QED BY <1>2, <1>5, <2>5 DEF TreeInv, RemovalFits, Stays
<1> QED BY <1>1, <1>3, <1>4, <1>5, EndIs DEF PointOK, Early, Working, Over

-----------------------------------------------------------------------------
(* The plan, and the invariant.                                            *)

\* What is planned is there.
LEMMA ItemsIs ==
    ASSUME Unplanned, Plan, NEW i \in items'
    PROVE  \E r \in roots' : /\ r \in Initial /\ Within(i.source, r) /\ i.target = TargetOf(i.source, r, top')
                             /\ i.source \in Initial /\ i.target \in Paths
                             /\ i = [source |-> i.source, target |-> i.target, dir |-> at[i.source] = Dir]
                             /\ at[i.source] \in {Dir, i.source}
<1>1. PICK r \in roots' : i \in ItemsOf(r, top')
  BY DEF Plan
<1>2. r \in Initial /\ top' \in Tops
  BY DEF Plan
<1>3. PICK p \in Paths : /\ Within(p, r) /\ at[p] # Nothing
                         /\ i = [source |-> p, target |-> TargetOf(p, r, top'), dir |-> at[p] = Dir]
  BY <1>1 DEF ItemsOf, TargetOf
<1>4. i.source = p /\ i.target = TargetOf(p, r, top')
  BY <1>3
<1>5. p \in Initial /\ at[p] \in {Dir, p}
  BY <1>3 DEF Unplanned
<1>6. TargetOf(p, r, top') \in Paths
  BY <1>2, <1>3, <1>5, TargetIs
<1> QED BY <1>2, <1>3, <1>4, <1>5, <1>6

\* The plan is made of what is there.
LEMMA PlanIs ==
    ASSUME TypeOK, Unplanned, Plan
    PROVE  Planned'
<1>1. /\ top' \in Tops /\ kind' \in {"copy", "move"} /\ roots' \subseteq Initial /\ files' = files
      /\ policy' \in {"fail", "skip", "overwrite", "renameNew", "renameExisting"}
  BY TransferConstants DEF Plan, ghosts
<1>2. items' \subseteq [source : Initial, target : Paths, dir : BOOLEAN]
  <2> SUFFICES ASSUME NEW i \in items' PROVE i \in [source : Initial, target : Paths, dir : BOOLEAN]
    OBVIOUS
  <2>1. /\ i.source \in Initial /\ i.target \in Paths
        /\ i = [source |-> i.source, target |-> i.target, dir |-> at[i.source] = Dir]
    BY ItemsIs
  <2> DEFINE d == at[i.source] = Dir
  <2>2. d \in BOOLEAN /\ i = [source |-> i.source, target |-> i.target, dir |-> d]
    BY <2>1
  <2> HIDE DEF d
  <2> QED BY <2>1, <2>2
<1>3. \A i \in items' : \E r \in roots' : Within(i.source, r) /\ i.target = TargetOf(i.source, r, top')
  BY ItemsIs
<1>4. \A i \in items' : (i.dir <=> at[i.source] = Dir) /\ at[i.source] \in {Dir, i.source} /\ i.source \in Initial
                        /\ i.dir \in BOOLEAN
  <2> TAKE i \in items'
  <2>1. /\ at[i.source] \in {Dir, i.source} /\ i.source \in Initial
        /\ i = [source |-> i.source, target |-> i.target, dir |-> at[i.source] = Dir]
    BY ItemsIs
  <2>2. i.dir = (at[i.source] = Dir)
    BY <2>1
  <2> QED BY <2>1, <2>2
<1>5. \A i, k \in items' : i.source = k.source => i.dir = k.dir
  BY <1>4
<1>6. \A i \in items' : i.dir => i.source \notin files'
  BY <1>1, <1>4, NothingIsNoFile DEF Unplanned
<1>7. found' = {i.source : i \in {k \in items' : ~k.dir}}
  <2>1. found' = {at[i.source] : i \in items'} \ {Dir}
    BY DEF Plan
  <2>2. \A i \in items' : i.source # Dir
    BY <1>4, NothingIsNoFile
  <2> QED BY <1>4, <2>1, <2>2
<1> QED BY <1>1, <1>2, <1>3, <1>5, <1>6, <1>7 DEF Planned

\* The step that plans starts the invariant of the run.
LEMMA PlanKeeps ==
    ASSUME TypeOK, Unplanned, Plan
    PROVE  TypeOK' /\ pc' # "new" /\ RunInv' /\ TreeInv' /\ RootsKept'
<1>1. /\ pc' = "planned" /\ todo' = items' /\ copied' = {} /\ removing' = {} /\ held' = Nothing
      /\ overwritten' = {} /\ doing' = "move" /\ files' = files /\ at' = at /\ cancel' = cancel
  BY DEF Plan, Goto, Unplanned, ghosts, target
<1>2. Planned'
  BY PlanIs
<1>3. \A i \in items' : at[i.source] \in {Dir, i.source}
  BY ItemsIs
<1>4. /\ \A p \in Paths : at[p] \in {Nothing, Dir, p} /\ (at[p] # Nothing => p \in Initial)
      /\ \A f \in files : f \in Paths /\ at[f] = f
  BY InitialIs DEF Unplanned
<1>5. TypeOK'
  <2>1. TreeOK' /\ SetsOK' /\ PointOK' /\ cancel' \in BOOLEAN
    BY <1>1, TypeIs, TreeStays DEF SetsOK, PointOK, Over
  <2>2. ItemsOK'
    <3>1. \A i \in items' : i.source \in Paths /\ i.target \in Paths /\ i.dir \in BOOLEAN
      BY <1>2, InitialIs DEF Planned
    <3> QED BY <3>1 DEF ItemsOK
  <2> QED BY <2>1, <2>2, TypeIsThen
<1>6. RunInv'
  <2>1. Way'
    BY <1>1 DEF Way, StepFits, GoalFits, ItemFits, ToFits, SpareFits, MoveFits, AtItem, Moving, Working, Deciding
  <2>2. Order' /\ HeldFits'
    BY <1>1 DEF Order, HeldFits, AtItem, Deciding
  <2> QED BY <1>2, <2>1, <2>2 DEF RunInv
<1>7. TreeInv'
  <2>1. SourcesStay'
    BY <1>1, <1>4 DEF SourcesStay, Mine, Stays
  <2>2. CopiesStay' /\ RemovalFits'
    BY <1>1 DEF CopiesStay, RemovalFits
  <2>3. SourcesPure' /\ Quiet'
    BY <1>1, <1>3, <1>4 DEF SourcesPure, Quiet, Moving, Deciding
  <2> QED BY <2>1, <2>2, <2>3 DEF TreeInv
<1>8. RootsKept'
  BY <1>1, <1>4 DEF RootsKept, FilesKept, SourcesKept, OthersKept, WholeRoots, Kept
<1> QED BY <1>1, <1>5, <1>6, <1>7, <1>8

\* Before the plan other programs delete files, and nothing else happens.
LEMMA NewKeeps ==
    ASSUME TypeOK, Unplanned, pc = "new", NEW p \in DeletedAt, Delete(p)
    PROVE  TypeOK' /\ pc' = "new" /\ Unplanned' /\ RootsKept'
<1>1. TreeOK /\ SetsOK /\ PointOK /\ ItemsOK /\ cancel \in BOOLEAN /\ p \in Paths
  BY TypeIs, TransferConstants
<1>2. /\ at' = [at EXCEPT ![p] = Nothing] /\ Empty(p) /\ files' = files \ {at[p]}
      /\ UNCHANGED <<pc, request, copying, target, cancel, overwritten>>
  BY DEF Delete
<1>3. DOMAIN at' = Paths /\ \A q \in Paths : at'[q] = IF q = p THEN Nothing ELSE at[q]
  BY <1>1, <1>2 DEF TreeOK
<1>4. \A f \in files : f \in Initial /\ f \in Paths /\ f # Nothing /\ at[f] = f
  BY InitialIs, NothingIsNoFile DEF Unplanned
<1>5. \A f \in files' : f \in Initial /\ f \in Paths /\ at'[f] = f
  BY <1>2, <1>3, <1>4
<1>6. Unplanned'
  <2>1. /\ kind' = "copy" /\ policy' = "fail" /\ roots' = {} /\ items' = {} /\ found' = {} /\ todo' = {}
        /\ copied' = {} /\ removing' = {} /\ held' = Nothing /\ overwritten' = {} /\ doing' = "move"
    BY <1>2 DEF Unplanned, request, copying, target
  <2>2. \A q \in Paths : at'[q] \in {Nothing, Dir, q} /\ (at'[q] # Nothing => q \in Initial)
    BY <1>3 DEF Unplanned
  <2> QED BY <1>5, <2>1, <2>2 DEF Unplanned
<1>7. TypeOK'
  <2>1. TreeOK'
    BY <1>1, <1>2, RemoveTree
  <2>2. SetsOK' /\ PointOK' /\ ItemsOK' /\ cancel' \in BOOLEAN
    BY <1>1, <1>2 DEF SetsOK, PointOK, ItemsOK, request, copying, Over
  <2> QED BY <2>1, <2>2, TypeIsThen
<1>8. RootsKept'
  BY <1>2, <1>5, <1>6 DEF RootsKept, FilesKept, SourcesKept, OthersKept, WholeRoots, Kept, Unplanned
<1> QED BY <1>2, <1>6, <1>7, <1>8

\* Before the plan every file is in its place.
LEMMA StartsRight == Init => TransferInv
<1> SUFFICES ASSUME Init PROVE TransferInv
  OBVIOUS
<1>1. PICK tree \in [Initial -> {"absent", "file", "dir"}] :
          at = [p \in Paths |-> IF p \notin Initial \/ tree[p] = "absent" THEN Nothing
                                ELSE IF tree[p] = "dir" THEN Dir ELSE p]
  BY DEF Init
<1>2. \A p \in Paths : at[p] \in {Nothing, Dir, p} /\ (at[p] # Nothing => p \in Initial)
  BY <1>1
<1>3. at \in [Paths -> Files \cup {Nothing, Dir}]
  <2>1. \A p \in Paths : at[p] \in Files \cup {Nothing, Dir}
    BY <1>2, NothingIsNoFile
  <2> QED BY <1>1, <2>1
<1>4. \A f \in files : f \in Initial /\ at[f] = f
  BY <1>2 DEF Init
<1>5. Unplanned /\ pc = "new"
  BY <1>2, <1>4 DEF Init, Unplanned
<1>6. TypeOK
  <2>1. TreeOK /\ PointOK /\ ItemsOK /\ cancel \in BOOLEAN
    BY <1>3 DEF Init, TreeOK, PointOK, ItemsOK, Over
  <2>2. SetsOK
    BY <1>4, NothingIsNoFile DEF Init, SetsOK
  <2> QED BY <2>1, <2>2, TypeIs
<1>7. RootsKept
  BY <1>4, <1>5, InitialIs DEF RootsKept, FilesKept, SourcesKept, OthersKept, WholeRoots, Kept, Unplanned
<1> QED BY <1>5, <1>6, <1>7 DEF TransferInv

\* The part of the invariant that needs the roots to be separate is kept.
LEMMA TreeKept ==
    ASSUME TypeOK, pc # "new", RunInv, Separate => TreeInv, Next
    PROVE  (Separate => TreeInv)'
<1> SUFFICES ASSUME Separate PROVE TreeInv'
  BY SeparateStays
<1> QED BY StayKeeps, CopiesKeep, RemovalKeeps, PureKeeps, QuietKeeps DEF TreeInv

\* Every step keeps the invariant.
LEMMA StepKeepsAll == TransferInv /\ [Next]_vars => TransferInv'
<1> SUFFICES ASSUME TransferInv, [Next]_vars PROVE TransferInv'
  OBVIOUS
<1>1. CASE UNCHANGED vars
  <2>1. /\ at' = at /\ pc' = pc /\ kind' = kind /\ policy' = policy /\ roots' = roots /\ top' = top
        /\ items' = items /\ found' = found /\ todo' = todo /\ item' = item /\ held' = held
        /\ copied' = copied /\ removing' = removing /\ doing' = doing /\ goal' = goal /\ to' = to
        /\ spare' = spare /\ cancel' = cancel /\ files' = files /\ overwritten' = overwritten
    BY <1>1 DEF vars, request, copying, target, ghosts
  <2>2. (TypeOK' <=> TypeOK) /\ (Unplanned' <=> Unplanned) /\ (Separate' <=> Separate)
    BY <2>1 DEF TypeOK, TreeShape, HasFolder, Unplanned, Separate
  <2>3. Planned' <=> Planned
    BY <2>1 DEF Planned
  <2>4. Way' <=> Way
    BY <2>1 DEF Way, StepFits, GoalFits, ItemFits, ToFits, SpareFits, MoveFits, AtItem, Moving
  <2>5. (Order' <=> Order) /\ (HeldFits' <=> HeldFits)
    BY <2>1, <2>2 DEF Order, HeldFits, AtItem, Mine
  <2>6. (SourcesStay' <=> SourcesStay) /\ (CopiesStay' <=> CopiesStay) /\ (RemovalFits' <=> RemovalFits)
    BY <2>1 DEF SourcesStay, CopiesStay, RemovalFits, Mine, Stays, Placed, InTop, Removable, FullyCopied
  <2>7. (SourcesPure' <=> SourcesPure) /\ (Quiet' <=> Quiet)
    BY <2>1 DEF SourcesPure, Quiet, Moving
  <2>8. (SourcesKept' <=> SourcesKept) /\ (OthersKept' <=> OthersKept) /\ (WholeRoots' <=> WholeRoots)
    BY <2>1, <2>2 DEF SourcesKept, OthersKept, WholeRoots, Kept
  <2> QED BY <2>1, <2>2, <2>3, <2>4, <2>5, <2>6, <2>7, <2>8
          DEF TransferInv, RunInv, TreeInv, RootsKept, FilesKept
<1>2. CASE Next /\ pc = "new"
  <2>1. Unplanned /\ TypeOK
    BY <1>2 DEF TransferInv
  <2>2. CASE Plan
    BY <2>1, <2>2, PlanKeeps DEF TransferInv
  <2>3. CASE \E p \in DeletedAt : Delete(p)
    BY <1>2, <2>1, <2>3, NewKeeps DEF TransferInv
  <2>4. Plan \/ \E p \in DeletedAt : Delete(p)
    BY <1>2, <2>1 DEF Next, Execute, Resolve, Clear, Aside, MoveRoot, NextItem, Stage, Install, Unplanned, Over,
       MakeDir, Settle, CancelBetween, CopyDone, RemoveSource, MoveDone, Cancel, Crash, Create, Goto
  <2> QED BY <2>2, <2>3, <2>4
<1>3. CASE Next /\ pc # "new"
  <2>1. TypeOK /\ RunInv /\ (Separate => TreeInv) /\ SourcesKept /\ OthersKept
    BY <1>3 DEF TransferInv, RootsKept, FilesKept
  <2>2. RunInv' /\ TypeOK'
    BY <1>3, <2>1, RunKeeps, TypeKeeps DEF TreeInv
  <2>3. (Separate => TreeInv)'
    BY <1>3, <2>1, TreeKept
  <2>4. RootsKept'
    BY <1>3, <2>1, <2>3, SourcesKeep, OthersKeep, WholeKeeps DEF RootsKept, FilesKept
  <2>5. pc' # "new"
    BY <1>3 DEF Next, Plan, Execute, Resolve, Clear, Aside, MoveRoot, NextItem, Stage, Install,
     MakeDir, Settle, CancelBetween, CopyDone, RemoveSource, MoveDone, Cancel, Crash, Create, Delete, Goto
  <2> QED BY <2>2, <2>3, <2>4, <2>5 DEF TransferInv
<1> QED BY <1>1, <1>2, <1>3

\* The invariant holds of every state.
LEMMA TransferInvariant == Spec => []TransferInv
  BY StartsRight, StepKeepsAll, PTL DEF Spec

\* Every file, item and root is where the executors look for it, and what is in the tree
\* is in a directory of the tree, whoever else works on it.
THEOREM TransferTypes == Spec => []TypeOK
<1>1. TransferInv => TypeOK
  BY DEF TransferInv
<1> QED BY <1>1, TransferInvariant, PTL

\* A copy or a move loses no file: neither one that was to be transferred, whatever is at its
\* target, whatever fails and whenever the process ends, nor one that was in its way; and a
\* root of a move goes as a whole or stays as a whole.
THEOREM NothingIsTorn == Spec => []RootsKept
<1>1. TransferInv => RootsKept
  BY DEF TransferInv
<1> QED BY <1>1, TransferInvariant, PTL

-----------------------------------------------------------------------------
(* The answer.                                                             *)

\* Unless the policy is to skip, the loop leaves no item behind.
LoopFits ==
    policy # "skip" /\ pc \in Early \cup {"remove"} =>
        \A i \in items : i \in todo \cup copied \/ (AtItem /\ i = item)

\* Each item is to do, copied, or the one the loop is at.
LEMMA LoopKeeps ==
    ASSUME TransferInv, LoopFits, Next
    PROVE  LoopFits'
<1> SUFFICES ASSUME policy' # "skip", pc' \in Early \cup {"remove"}, NEW i \in items'
             PROVE  i \in todo' \cup copied' \/ (AtItem' /\ i = item')
  BY DEF LoopFits
<1>1. CASE pc = "new"
  <2>1. CASE Plan
    BY <2>1 DEF Plan
  <2>2. CASE ~Plan
    BY <1>1, <2>2 DEF TransferInv, Unplanned, Next, Execute, Resolve, Clear, Aside, MoveRoot, NextItem, Stage, Install,
       MakeDir, Settle, CancelBetween, CopyDone, RemoveSource, MoveDone, Cancel, Crash, Create, Delete, Goto, Early,
       Working
  <2> QED BY <2>1, <2>2
<1>2. CASE pc # "new"
  <2>1. policy' = policy /\ items' = items /\ StepFits /\ MoveFits /\ policy # "skip" /\ i \in items
    BY <1>2, RequestStays DEF TransferInv, RunInv, Way, request
  <2>2. CASE Execute
    BY <2>1, <2>2 DEF Execute, StepFits, Goto, copying
  <2>3. CASE MoveRoot
    BY <2>1, <2>3 DEF MoveRoot, MoveFits, Moving, Deciding, copying, Early, Working
  <2>4. ASSUME NEW k \in items, NextItem(k) PROVE i \in todo' \cup copied' \/ (AtItem' /\ i = item')
    <3>1. pc = "next" /\ todo' = todo \ {k} /\ item' = k /\ copied' = copied /\ doing' # "move"
      BY <2>4 DEF NextItem
    <3>2. pc' \in {"resolve", "stage", "error"}
      BY <2>1, <2>4 DEF NextItem, Skips
    <3>3. i \in todo \cup copied
      BY <2>1, <3>1 DEF LoopFits, AtItem, Deciding, Early
    <3> QED BY <3>1, <3>2, <3>3 DEF AtItem, Deciding, Early, Working
  <2>5. CASE Settle
    <3>1. pc = "settle" /\ todo' = todo
      BY <2>5 DEF Settle, Goto
    <3>2. i \in todo \cup copied \cup {item}
      BY <2>1, <3>1 DEF LoopFits, Early, Working
    <3>3. pc' = "next" => copied' = copied \cup {item}
      BY <2>5 DEF Settle, Goto
    <3>4. pc' \in {"next", "cancelled"}
      BY <2>5 DEF Settle, Goto
    <3> QED BY <3>1, <3>2, <3>3, <3>4 DEF Early, Working
  <2>6. CASE Resolve \/ Clear \/ Aside
    <3>1. UNCHANGED <<todo, copied, item, doing>>
      BY <2>6 DEF Resolve, Clear, Aside, target
    <3>2. pc \in Deciding /\ pc' \in Deciding \cup {"error"}
      BY <2>6 DEF Resolve, Clear, Aside, Deciding
    <3>3. (AtItem' <=> AtItem) /\ pc \in Early
      BY <3>1, <3>2 DEF AtItem, Deciding, Early, Working
    <3> QED BY <2>1, <3>1, <3>3 DEF LoopFits
  <2>7. CASE Stage
    <3>1. UNCHANGED <<todo, copied, item, doing>> /\ pc = "stage" /\ doing = "file"
      BY <2>1, <2>7 DEF Stage, target, StepFits
    <3>2. pc' \in {"cancelled", "error", "resolve"}
      BY <2>1, <2>7 DEF Stage, Skips
    <3>3. AtItem' /\ AtItem /\ pc \in Early
      BY <3>1, <3>2 DEF AtItem, Deciding, Early, Working
    <3> QED BY <2>1, <3>1, <3>3 DEF LoopFits
  <2>8. CASE Install \/ MakeDir
    <3>1. UNCHANGED <<todo, copied, item, doing>> /\ pc = "act" /\ doing # "move"
      BY <2>8 DEF Install, MakeDir, target, copying
    <3>2. pc' \in {"settle", "error"}
      BY <2>8 DEF Install, MakeDir
    <3>3. AtItem' /\ AtItem /\ pc \in Early
      BY <3>1, <3>2 DEF AtItem, Deciding, Early, Working
    <3> QED BY <2>1, <3>1, <3>3 DEF LoopFits
  <2>9. CASE CopyDone
    <3>1. UNCHANGED <<todo, copied, item>> /\ pc = "next"
      BY <2>9 DEF CopyDone, Goto
    <3> QED BY <2>1, <3>1 DEF LoopFits, AtItem, Deciding, Early
  <2>10. CASE \/ \E p \in Paths : RemoveSource(p)
              \/ \E p \in OthersAt, f \in Strangers : Create(p, f)
              \/ \E p \in DeletedAt : Delete(p)
              \/ Cancel
    <3>1. UNCHANGED <<todo, copied, item, doing>>
      BY <2>10 DEF RemoveSource, Create, Delete, Cancel, target, copying
    <3>2. pc' \in {pc, "error"}
      BY <2>10 DEF RemoveSource, Create, Delete, Cancel
    <3>3. pc' = pc /\ (AtItem' <=> AtItem)
      BY <3>1, <3>2 DEF AtItem, Early, Working
    <3> QED BY <2>1, <3>1, <3>3 DEF LoopFits
  <2>11. CASE CancelBetween \/ MoveDone \/ Crash
    BY <2>11 DEF CancelBetween, MoveDone, Crash, Goto, Early, Working
  <2>12. ~Plan
    BY <1>2 DEF Plan, Goto
  <2> QED BY <2>2, <2>3, <2>4, <2>5, <2>6, <2>7, <2>8, <2>9, <2>10, <2>11, <2>12 DEF Next
<1> QED BY <1>1, <1>2

\* What was copied is below the top folder.
LEMMA CopiedInTop ==
    ASSUME Planned, CopiesStay, pc \in {"next", "remove"}, NEW i \in copied, i \in items, Mine(i)
    PROVE  \E p \in Paths : p[1] = top /\ at[p] = i.source
<1>1. Placed(i) /\ i.target \in Paths /\ i.target[1] = top
  BY ItemIs DEF CopiesStay, Early
<1> QED BY <1>1 DEF Placed, InTop

\* An operation ends well only after the rename of its root, or with all items copied.
LEMMA HonestKeeps ==
    ASSUME TransferInv, LoopFits, Next, pc # "new"
    PROVE  HonestAnswer'
<1>1. /\ UNCHANGED request /\ Planned /\ TreeOK /\ SetsOK /\ RunInv /\ TypeOK
      /\ (Separate' <=> Separate) /\ pc \notin Over
  BY TypeIs, RequestStays, SeparateStays, OverIsOver DEF TransferInv, RunInv
<1> SUFFICES ASSUME pc' = "ok", Separate, policy # "skip"
             PROVE  /\ \A f \in found \cap files' : \E p \in Paths : p[1] = top /\ at'[p] = f
                    /\ kind = "move" => \A i \in items : ~i.dir => at'[i.source] \notin found
  BY <1>1 DEF HonestAnswer, request
<1>2. TreeInv /\ StepFits
  BY <1>1 DEF TransferInv, RunInv, Way
<1>3. CASE MoveRoot
  <2>1. PICK r \in roots : /\ r \in Paths /\ to \in Paths /\ to[1] = top /\ Len(to) = 2 /\ Rename(r, to)
                           /\ \A i \in items : Within(i.source, r) /\ at'[i.source] = Nothing
                           /\ \A i \in items : Mine(i) => at[i.source] = i.source
    BY <1>1, <1>2, <1>3, MoveRootIs DEF TreeInv
  <2>2. files' = files
    BY <1>3 DEF MoveRoot, ghosts
  <2>3. ASSUME NEW f \in found \cap files' PROVE \E p \in Paths : p[1] = top /\ at'[p] = f
    <3>1. PICK i \in items : ~i.dir /\ f = i.source
      BY <1>1 DEF Planned
    <3>2. i.source \in Paths /\ Within(i.source, r) /\ at[i.source] = f
      BY <1>1, <2>1, <2>2, <3>1, ItemIs DEF Mine
    <3>3. PICK q \in Paths : q[1] = to[1] /\ at'[q] = f
      BY <2>1, <3>2, RenameMoves
    <3> QED BY <2>1, <3>3
  <2>4. Nothing \notin found
    BY <1>1, ItemIs, NothingIsNoFile DEF Planned
  <2> QED BY <2>1, <2>3, <2>4
<1>4. CASE CopyDone \/ MoveDone
  <2>1. UNCHANGED <<at, files>> /\ pc \in {"next", "remove"} /\ todo = {}
    BY <1>2, <1>4 DEF CopyDone, MoveDone, Goto, ghosts, StepFits
  <2>2. \A i \in items : i \in copied
    BY <1>1, <2>1 DEF LoopFits, AtItem, Deciding, Early
  <2>3. ASSUME NEW f \in found \cap files' PROVE \E p \in Paths : p[1] = top /\ at'[p] = f
    <3>1. PICK i \in items : ~i.dir /\ f = i.source
      BY <1>1 DEF Planned
    <3> QED BY <1>1, <1>2, <2>1, <2>2, <3>1, CopiedInTop DEF Mine, TreeInv
  <2>4. ASSUME kind = "move", NEW i \in items, ~i.dir PROVE at'[i.source] \notin found
    <3>1. pc = "remove" /\ removing = {}
      BY <1>1, <1>4, <2>4 DEF CopyDone, MoveDone, Goto
    <3>2. i.source \in Removable
      BY <2>2 DEF Removable, FullyCopied
    <3>3. at[i.source] \notin {i.source, Dir} /\ at[i.source] \in {Nothing, Dir, i.source} \cup Strangers
      BY <1>2, <3>1, <3>2 DEF TreeInv, RemovalFits, SourcesPure
    <3>4. found \subseteq Initial
      BY <1>1, ItemIs DEF Planned
    <3> QED BY <2>1, <3>3, <3>4, NothingIsNoFile
  <2> QED BY <2>3, <2>4
<1>5. MoveRoot \/ CopyDone \/ MoveDone
  BY <1>1 DEF Next, Plan, Execute, Resolve, Clear, Aside, NextItem, Stage, Install, Over,
       MakeDir, Settle, CancelBetween, RemoveSource, Cancel, Crash, Create, Delete, Goto
<1> QED BY <1>3, <1>4, <1>5

\* When a copy or a move says it succeeded, what was not skipped or deleted by others is below
\* the top folder, and a move has left none of its files at a source.
THEOREM TransferAnswers == Spec => []HonestAnswer
<1> DEFINE I == TransferInv /\ LoopFits /\ HonestAnswer
<1>1. Init => LoopFits /\ HonestAnswer
  BY DEF Init, LoopFits, HonestAnswer, Early, Working
<1>2. I /\ [Next]_vars => (LoopFits /\ HonestAnswer)'
  <2> SUFFICES ASSUME I, [Next]_vars PROVE (LoopFits /\ HonestAnswer)'
    OBVIOUS
  <2>1. CASE UNCHANGED vars
    <3>1. /\ at' = at /\ pc' = pc /\ kind' = kind /\ policy' = policy /\ roots' = roots /\ top' = top
          /\ items' = items /\ found' = found /\ todo' = todo /\ item' = item
          /\ copied' = copied /\ doing' = doing /\ files' = files
      BY <2>1 DEF vars, request, copying, target, ghosts
    <3> QED BY <3>1 DEF LoopFits, HonestAnswer, AtItem, Separate
  <2>2. CASE Next /\ pc # "new"
    BY <2>2, LoopKeeps, HonestKeeps
  <2>3. CASE Next /\ pc = "new"
    <3>1. pc' # "ok"
      BY <2>3 DEF Next, Plan, Execute, Resolve, Clear, Aside, MoveRoot, NextItem, Stage, Install, TransferInv,
         MakeDir, Settle, CancelBetween, CopyDone, RemoveSource, MoveDone, Cancel, Crash, Create, Delete, Goto,
         Unplanned
    <3> QED BY <2>3, <3>1, LoopKeeps DEF HonestAnswer
  <2> QED BY <2>1, <2>2, <2>3
<1>3. I => HonestAnswer
  OBVIOUS
<1> HIDE DEF I
<1>4. Init => I
  BY <1>1, StartsRight DEF I
<1>5. I /\ [Next]_vars => I'
  BY <1>2, StepKeepsAll DEF I
<1> QED BY <1>3, <1>4, <1>5, PTL DEF Spec

-----------------------------------------------------------------------------
(* Archives: the inductive invariant.                                       *)

FileKinds == {"none", "file", "dir", "archive", "part"}
FileNames == Spots \cup {<<n>> : n \in Labels} \cup {Foreign, <<>>}
Bare      == {NoFile, Folder_} \cup {Plain(n) : n \in FileNames}
Entry1    == {e \in [label : Labels \cup {Pack}, file : Bare] : e.label # Pack => e.file # NoFile}
Depth1    == [kind : FileKinds, name : FileNames, has : Seq(Entry1)]
Entry2    == [label : Labels \cup {Pack}, file : Depth1]
Depth2    == [kind : FileKinds, name : FileNames, has : Seq(Entry2)]

Packing   == {"make", "create", "add"}
Loading   == {"entry", "stage", "settle", "commit", "drop"}
Unpacking == {"open"} \cup Loading
Resting   == {"idle"} \cup Ended

ArcPcs    == {"crashed"} \cup Resting \cup Packing \cup Unpacking
ArcPolicy == {"fail", "skip", "overwrite", "renameNew", "renameExisting"}

\* What t is, is said by PackFits and UnpackFits.
ArcRecords(t) ==
    [pc : ArcPcs, jobs : Nat, act : {"pack", "unpack"}, rule : ArcPolicy, format : {"zip", "tar"},
     sacks : SUBSET Sacks, items : Seq(Spots), wanted : Seq(Depth2), todo : {t}, target : Spots,
     clash : BOOLEAN, print : Depth1, kept : SUBSET Spots, skipped : SUBSET Spots, cancel : BOOLEAN]

ArcTypes ==
    /\ shelf \in [Spots -> Depth2] /\ shelf[Pack] \in Depth1
    /\ \A s \in Spots \ {Pack, Spare} : shelf[s] \in Bare
    /\ arc \in ArcRecords(arc.todo)
    /\ marks \in [begun : SUBSET Depth2, overruled : SUBSET Depth2, emptied : SUBSET Depth2,
                  swapped : SUBSET Depth2, meddled : BOOLEAN, crowded : BOOLEAN]

\* What was there at first is none of what other programs create.
ForeignIsNew == Plain(Foreign) \notin marks.begun /\ (~marks.meddled => marks.swapped = {})

\* Where another program can only have put its file.
FreeOrForeign(s) == shelf[s] \in {NoFile, Plain(Foreign)}

\* How far the loop over s has come, when t is left.
Past(s, t) == Len(s) - Len(t)
RestOf(s, t) == Len(t) \in 0 .. Len(s) /\ \A k \in 1 .. Len(t) : t[k] = s[Past(s, t) + k]

\* An archive is being made.  Unless another program interferes or the archive is put into
\* itself, each file of the plan is as it was, and what is in the archive is the first of them.
Intact(i) == arc.items[i] \in Spots /\ shelf[arc.items[i]] = arc.wanted[i]
Undisturbed == ~marks.meddled /\ ~(OwnSource /\ arc.target = Pack)
ItemsFit ==
    /\ Len(arc.wanted) = Len(arc.items) /\ IsInjective(arc.items)
    /\ \A i \in 1 .. Len(arc.items) :
          arc.items[i] = Pack \/ (arc.items[i] \in SackSpots /\ arc.items[i][1] \in arc.sacks)
MadeFits(n) ==
    LET has == shelf[arc.target].has
    IN  /\ Len(has) = n /\ \A k \in 1 .. n : has[k].label = LabelOf(arc.items[k])
        /\ Undisturbed => \A k \in 1 .. n : has[k].file = arc.wanted[k]
        /\ arc.format = "zip" => Distinct(has)
PackFits ==
    arc.act = "pack" /\ arc.pc \in Packing =>
        /\ ItemsFit /\ arc.target \in {Pack, Spare} /\ RestOf(arc.items, arc.todo)
        /\ arc.todo \in Seq(Spots) /\ arc.skipped = {}
        /\ arc.jobs > 1 => ~OwnSource
        /\ arc.pc = "make" => /\ ~marks.meddled => \A i \in 1 .. Len(arc.items) : Intact(i)
                              /\ arc.target = Pack
        /\ arc.pc \in {"create", "add"} /\ Undisturbed => \A i \in 1 .. Len(arc.items) : Intact(i)
        /\ arc.pc \in {"make", "create"} => arc.todo = arc.items
        /\ arc.pc = "create" => marks.crowded \/ FreeOrForeign(arc.target)
        /\ arc.pc = "add" => shelf[arc.target].kind = "part" /\ MadeFits(Past(arc.items, arc.todo))

\* An archive is being unpacked.  What is staged, kept and at the target of the entry, at each
\* point; and what has become of the entries before it.
E(k)   == arc.print.has[k]
InHand == Head(arc.todo)
Placed_(k) ==
    \/ shelf[Goal(E(k))] = E(k).file
    \/ arc.rule = "renameNew" /\ shelf[FreeName(Goal(E(k)))] = E(k).file
    \/ Goal(E(k)) \in arc.skipped /\ arc.rule = "skip"
\* ... and not at s
PlacedOff(k, s) ==
    \/ Goal(E(k)) # s /\ shelf[Goal(E(k))] = E(k).file
    \/ arc.rule = "renameNew" /\ FreeName(Goal(E(k))) # s /\ shelf[FreeName(Goal(E(k)))] = E(k).file
    \/ Goal(E(k)) \in arc.skipped /\ arc.rule = "skip"
UnpackFits ==
    arc.act = "unpack" /\ arc.pc \in Unpacking =>
        /\ Distinct(arc.print.has) /\ \A k \in 1 .. Len(arc.print.has) : E(k).label \in Labels
        /\ arc.pc \in Loading =>
            /\ arc.todo \in Seq(Entry1) /\ RestOf(arc.print.has, arc.todo)
            /\ shelf[Pack] = arc.print \/ \A k \in 1 .. Len(arc.print.has) : E(k).file \in marks.swapped
            /\ \A k \in 1 .. Past(arc.print.has, arc.todo) : Placed_(k)
        /\ arc.pc \in Loading \ {"entry"} =>
            /\ arc.todo # <<>>
            /\ arc.target = Goal(InHand) \/ (arc.rule = "renameNew" /\ arc.target = FreeName(Goal(InHand)))
        /\ arc.pc \in {"settle", "commit"} => shelf[Staging] = InHand.file
        /\ arc.pc = "commit" =>
            /\ FreeOrForeign(arc.target)
            /\ \A k \in 1 .. Past(arc.print.has, arc.todo) : PlacedOff(k, arc.target)
            /\ \/ arc.kept = {}
               \/ arc.kept = {Backup} /\ arc.rule = "overwrite" /\ Is(Backup)
               \/ /\ arc.kept = {FreeName(arc.target)} /\ arc.rule = "renameExisting"
                  /\ FreeName(arc.target) # arc.target /\ Is(FreeName(arc.target))
        /\ arc.pc = "drop" => /\ arc.kept = {Backup} /\ arc.rule = "overwrite" /\ Is(Backup)
                              /\ shelf[arc.target] = InHand.file

\* When the hidden names are in use.
HiddenFits ==
    /\ arc.act = "pack" => arc.pc \in {"crashed"} \cup Resting \cup Packing
    /\ arc.act = "unpack" => arc.pc \in {"crashed"} \cup Ended \cup Unpacking
    /\ Is(Staging) => arc.pc \in {"settle", "commit", "crashed"}
    /\ Is(Backup) => arc.pc \in {"commit", "drop", "crashed", "error"}
    /\ Is(Backup) /\ arc.pc = "commit" => arc.kept = {Backup}
    /\ arc.kept # {} => arc.pc \in {"commit", "drop", "crashed"} \/ (arc.pc = "error" /\ Is(Backup))

\* In the first operation the policy alone removes files: those at the targets of entries, each
\* when its entry is there.
OwnName(s) == shelf[s] \in {NoFile, Folder_, Plain(s), Plain(Foreign)}
OverwriteFits ==
    arc.jobs = 1 /\ arc.act = "unpack" /\ arc.rule = "overwrite" =>
        /\ arc.pc = "open" => marks.overruled = {} /\ \A s \in OutSpots : OwnName(s)
        /\ \A f \in marks.overruled : f.name \in OutSpots =>
               \E k \in 1 .. Len(arc.print.has) :
                   k <= Past(arc.print.has, arc.todo) /\ f = Plain(Goal(E(k))) /\ shelf[Goal(E(k))] = E(k).file
        /\ arc.pc \in Loading => \A k \in Past(arc.print.has, arc.todo) + 1 .. Len(arc.print.has) :
               OwnName(Goal(E(k))) \/ (arc.pc = "drop" /\ k = Past(arc.print.has, arc.todo) + 1)
        /\ arc.pc \in {"commit", "drop"} /\ arc.kept = {Backup} =>
               shelf[Backup] \in {Plain(arc.target), Plain(Foreign)}
FirstFits ==
    /\ arc.jobs = 0 => /\ arc.pc = "idle" /\ marks.overruled = {} /\ marks.swapped = {}
                       /\ \A s \in OutSpots : OwnName(s)
    /\ arc.jobs = 0 \/ (arc.act = "unpack" /\ arc.jobs = 1) =>
           \A f \in Held(Pack) \cup marks.swapped : f.name \notin OutSpots
    /\ arc.jobs = 1 /\ arc.rule # "overwrite" => marks.overruled = {}
    /\ OverwriteFits

NoneMissing == Missing \subseteq marks.overruled \cup marks.swapped \cup marks.emptied
OnlyCrowded == marks.emptied \cap marks.begun # {} => marks.crowded

ArcInv ==
    /\ ArcTypes /\ ForeignIsNew /\ PackFits /\ UnpackFits /\ HiddenFits /\ FirstFits
    /\ NoneMissing /\ OnlyCrowded /\ ArchivesTrue

-----------------------------------------------------------------------------
(* Spots, and the files there are.                                          *)

LEMMA SpotFacts ==
    /\ Pack \in Spots /\ Spare \in Spots /\ Staging \in Spots /\ Backup \in Spots
    /\ OutSpots \subseteq Spots /\ SackSpots \subseteq Spots
    /\ Pack # Spare /\ Staging # Backup /\ Pack \notin {Staging, Backup} /\ Spare \notin {Staging, Backup}
    /\ \A s \in OutSpots \cup SackSpots : s \notin {Pack, Spare, Staging, Backup}
    /\ \A s \in OutSpots : s \notin SackSpots
<1>1. \A s \in OutSpots : s \notin SackSpots
  BY ArchiveConstants DEF OutSpots, SackSpots, Spot
<1> QED BY <1>1, ArchiveConstants DEF Spots

\* The targets of an entry.
LEMMA GoalFacts ==
    ASSUME NEW e, e.label \in Labels
    PROVE  Goal(e) \in OutSpots /\ FreeName(Goal(e)) \in OutSpots
  BY DEF Goal, FreeName, OutSpots, Spot

LEMMA GoalsDiffer ==
    ASSUME NEW d, NEW e, Goal(d) = Goal(e)
    PROVE  d.label = e.label
  BY DEF Goal, Spot

LEMMA BareFacts ==
    ASSUME NEW f \in Bare
    PROVE  /\ f.kind \in {"none", "file", "dir"} /\ f.has = <<>> /\ f.name \in FileNames
           /\ f \in Depth1 /\ f \in Depth2
<1>1. f.kind \in {"none", "file", "dir"} /\ f.has = <<>> /\ f.name \in FileNames
      /\ f = [kind |-> f.kind, name |-> f.name, has |-> f.has]
  BY DEF Bare, NoFile, Folder_, Plain, FileNames
<1>2. <<>> \in Seq(Entry1) /\ <<>> \in Seq(Entry2)
  OBVIOUS
<1> QED BY <1>1, <1>2 DEF Depth1, Depth2, FileKinds

LEMMA DepthsGrow == Depth1 \subseteq Depth2 /\ Entry1 \subseteq Entry2 /\ Seq(Entry1) \subseteq Seq(Entry2)
<1>1. Bare \subseteq Depth1
  BY BareFacts
<1>2. ASSUME NEW e \in Entry1 PROVE e \in Entry2
  <2>1. e \in [label : Labels \cup {Pack}, file : Bare]
    BY DEF Entry1
  <2> QED BY <2>1, <1>1 DEF Entry2
<1>3. Entry1 \subseteq Entry2
  BY <1>2
<1>4. \A s \in Seq(Entry1) : s \in Seq(Entry2)
  BY <1>3, SeqMonotonic
<1> QED BY <1>3, <1>4 DEF Depth1, Depth2

LEMMA Bares ==
    /\ NoFile \in Bare /\ Plain(Foreign) \in Bare /\ Folder_ \in Bare
    /\ \A n \in FileNames : Plain(n) \in Bare
    /\ NoFile.kind = "none" /\ \A n : Plain(n).kind = "file" /\ Plain(n).name = n
    /\ \A n : Plain(n) # NoFile
  BY DEF Bare, NoFile, Plain, FileNames, Folder_

\* What is in an archive.
LEMMA HasFacts ==
    ASSUME NEW f \in Depth2
    PROVE  /\ f.kind \in FileKinds /\ f.has \in Seq(Entry2)
           /\ Len(f.has) \in Nat /\ DOMAIN f.has = 1 .. Len(f.has)
           /\ \A k \in 1 .. Len(f.has) : f.has[k] \in Entry2 /\ f.has[k].file \in Depth1
<1>1. f.kind \in FileKinds /\ f.has \in Seq(Entry2)
  BY DEF Depth2
<1>2. Len(f.has) \in Nat /\ DOMAIN f.has = 1 .. Len(f.has)
      /\ \A k \in 1 .. Len(f.has) : f.has[k] \in Entry2
  BY <1>1, LenProperties, ElementOfSeq
<1> QED BY <1>1, <1>2 DEF Entry2

LEMMA HasFacts1 ==
    ASSUME NEW f \in Depth1
    PROVE  /\ f \in Depth2 /\ f.has \in Seq(Entry1)
           /\ Len(f.has) \in Nat /\ DOMAIN f.has = 1 .. Len(f.has)
           /\ \A k \in 1 .. Len(f.has) : f.has[k] \in Entry1 /\ f.has[k].file \in Bare
                                        /\ (f.has[k].label # Pack => f.has[k].file # NoFile)
<1>1. f \in Depth2 /\ f.has \in Seq(Entry1)
  BY DepthsGrow DEF Depth1
<1>2. Len(f.has) \in Nat /\ DOMAIN f.has = 1 .. Len(f.has)
      /\ \A k \in 1 .. Len(f.has) : f.has[k] \in Entry1
  BY <1>1, LenProperties, ElementOfSeq
<1> QED BY <1>1, <1>2 DEF Entry1

LEMMA BareHeld ==
    ASSUME NEW s, shelf[s] \in Bare
    PROVE  Held(s) = {shelf[s]}
<1>1. shelf[s].has = <<>>
  BY BareFacts
<1>2. DOMAIN shelf[s].has = {}
  BY <1>1
<1> QED BY <1>2 DEF Held

LEMMA HeldIn ==
    ASSUME ArcTypes, NEW s \in Spots
    PROVE  Held(s) \subseteq Depth2
<1>1. shelf[s] \in Depth2
  BY DEF ArcTypes
<1>2. \A k \in DOMAIN shelf[s].has : shelf[s].has[k].file \in Depth1
  BY <1>1, HasFacts
<1> QED BY <1>1, <1>2, DepthsGrow DEF Held

-----------------------------------------------------------------------------
(* Sequences.                                                               *)

LEMMA SetToSeqIs ==
    ASSUME NEW S, IsFiniteSet(S)
    PROVE  /\ SetToSeq(S) \in Seq(S) /\ IsInjective(SetToSeq(S))
           /\ Len(SetToSeq(S)) = Cardinality(S) /\ Cardinality(S) \in Nat
<1> DEFINE n == Cardinality(S)
<1>1. n \in Nat /\ ExistsBijection(1 .. n, S)
  BY FS_CardinalityType
<1>2. PICK f \in Bijection(1 .. n, S) : TRUE
  BY <1>1 DEF ExistsBijection
<1>3. f \in [1 .. n -> S] /\ IsInjective(f)
  BY <1>2 DEF Bijection, Injection
<1>4. SetToSeq(S) \in [1 .. n -> S] /\ IsInjective(SetToSeq(S))
  BY <1>3 DEF SetToSeq
<1>5. SetToSeq(S) \in Seq(S)
  BY <1>1, <1>4, SeqDef
<1>6. Len(SetToSeq(S)) = n
  BY <1>1, <1>4, <1>5, LenProperties
<1> QED BY <1>1, <1>4, <1>5, <1>6

\* One more step of a loop.
LEMMA RestFacts ==
    ASSUME NEW S, NEW s \in Seq(S), NEW T, NEW t \in Seq(T), RestOf(s, t)
    PROVE  /\ Past(s, t) \in 0 .. Len(s)
           /\ t # <<>> => /\ Past(s, t) + 1 \in 1 .. Len(s) /\ Head(t) = s[Past(s, t) + 1]
                          /\ RestOf(s, Tail(t)) /\ Past(s, Tail(t)) = Past(s, t) + 1
                          /\ Tail(t) \in Seq(T)
           /\ t = <<>> => Past(s, t) = Len(s)
<1>1. Len(s) \in Nat /\ Len(t) \in Nat /\ Len(t) <= Len(s)
  BY LenProperties DEF RestOf
<1>2. Past(s, t) \in 0 .. Len(s)
  BY <1>1 DEF Past
<1>3. ASSUME t # <<>>
      PROVE  /\ Past(s, t) + 1 \in 1 .. Len(s) /\ Head(t) = s[Past(s, t) + 1]
             /\ RestOf(s, Tail(t)) /\ Past(s, Tail(t)) = Past(s, t) + 1
             /\ Tail(t) \in Seq(T)
  <2>1. Len(t) >= 1
    BY <1>3, EmptySeq, <1>1
  <2>2. Tail(t) \in Seq(T) /\ Len(Tail(t)) = Len(t) - 1 /\ \A k \in 1 .. Len(Tail(t)) : Tail(t)[k] = t[k + 1]
    BY <1>3, HeadTailProperties
  <2>3. Head(t) = t[1]
    OBVIOUS
  <2>4. t[1] = s[Past(s, t) + 1]
    BY <2>1, <1>1 DEF RestOf
  <2>5. Past(s, Tail(t)) = Past(s, t) + 1
    BY <2>2, <1>1 DEF Past
  <2>6. \A k \in 1 .. Len(Tail(t)) : Tail(t)[k] = s[Past(s, Tail(t)) + k]
    <3> TAKE k \in 1 .. Len(Tail(t))
    <3>1. k + 1 \in 1 .. Len(t)
      BY <2>2, <1>1
    <3>2. t[k + 1] = s[Past(s, t) + (k + 1)]
      BY <3>1 DEF RestOf
    <3>3. Past(s, t) + (k + 1) = Past(s, Tail(t)) + k
      BY <2>5, <1>2
    <3> QED BY <3>2, <3>3, <2>2
  <2>7. RestOf(s, Tail(t))
    BY <2>2, <2>1, <1>1, <2>6 DEF RestOf
  <2>8. Past(s, t) + 1 \in 1 .. Len(s)
    BY <1>1, <2>1 DEF Past
  <2> QED BY <2>2, <2>3, <2>4, <2>5, <2>7, <2>8
<1>4. ASSUME t = <<>> PROVE Past(s, t) = Len(s)
  BY <1>4, <1>1 DEF Past
<1> QED BY <1>2, <1>3, <1>4

LEMMA RestAll ==
    ASSUME NEW S, NEW s \in Seq(S)
    PROVE  RestOf(s, s) /\ Past(s, s) = 0
<1>1. Len(s) \in Nat
  BY LenProperties
<1> QED BY <1>1 DEF RestOf, Past

-----------------------------------------------------------------------------
(* What steps have in common.                                               *)

\* A file is missing only when a step says so.
LEMMA StillThere ==
    ASSUME NoneMissing, marks'.begun = marks.begun, marks.overruled \subseteq marks'.overruled,
           marks.swapped \subseteq marks'.swapped, marks.emptied \subseteq marks'.emptied,
           \A s \in Spots : \A f \in Held(s) : f.kind = "file" =>
               f \in OnShelf' \/ f \in marks'.overruled \cup marks'.swapped \cup marks'.emptied
    PROVE  NoneMissing'
<1> SUFFICES ASSUME NEW f \in Missing'
             PROVE  f \in marks'.overruled \cup marks'.swapped \cup marks'.emptied
  BY DEF NoneMissing
<1>1. f \in marks.begun /\ f.kind = "file" /\ f \notin OnShelf'
  BY DEF Missing
<1>2. CASE f \in OnShelf
  <2>1. PICK s \in Spots : f \in Held(s)
    BY <1>2 DEF OnShelf
  <2> QED BY <2>1, <1>1
<1>3. CASE f \notin OnShelf
  BY <1>1, <1>3 DEF Missing, NoneMissing
<1> QED BY <1>2, <1>3

\* What is held at another spot is still there.
LEMMA HeldStays ==
    ASSUME NEW s \in Spots, NEW t \in Spots, shelf'[t] = shelf[s]
    PROVE  Held(s) \subseteq OnShelf'
<1>1. Held(t)' = Held(s)
  BY DEF Held
<1> QED BY <1>1 DEF OnShelf

\* A file is written over what no one could see before.
LEMMA OnlyForeignEmptied ==
    ASSUME ArcTypes, ForeignIsNew, OnlyCrowded, NEW s \in Spots, FreeOrForeign(s),
           marks' = [marks EXCEPT !.emptied = @ \cup (Held(s) \ {NoFile})]
    PROVE  OnlyCrowded'
<1>1. shelf[s] \in Bare
  BY Bares DEF FreeOrForeign
<1>2. Held(s) \ {NoFile} \subseteq {Plain(Foreign)}
  BY <1>1, BareHeld DEF FreeOrForeign
<1>3. marks'.emptied = marks.emptied \cup (Held(s) \ {NoFile}) /\ marks'.begun = marks.begun
      /\ marks'.crowded = marks.crowded
  BY DEF ArcTypes
<1> QED BY <1>2, <1>3 DEF OnlyCrowded, ForeignIsNew

\* A step that changes nothing but the operation.
LEMMA QuietStep ==
    ASSUME ArcInv, UNCHANGED <<shelf, marks>>
    PROVE  /\ ForeignIsNew' /\ NoneMissing' /\ OnlyCrowded'
           /\ \A s : Held(s)' = Held(s) /\ (Is(s)' <=> Is(s)) /\ (FreeOrForeign(s)' <=> FreeOrForeign(s))
           /\ \A s : OwnName(s)' <=> OwnName(s)
<1>1. \A s : Held(s)' = Held(s) /\ (Is(s)' <=> Is(s)) /\ (FreeOrForeign(s)' <=> FreeOrForeign(s))
             /\ (OwnName(s)' <=> OwnName(s))
  BY DEF Held, Is, FreeOrForeign, OwnName
<1>2. OnShelf' = OnShelf /\ Missing' = Missing
  <2>1. OnShelf' = OnShelf
    BY <1>1 DEF OnShelf
  <2> QED BY <2>1 DEF Missing
<1> QED BY <1>1, <1>2 DEF ArcInv, ForeignIsNew, NoneMissing, OnlyCrowded

-----------------------------------------------------------------------------
(* At first.                                                                *)

LEMMA ArcInit == ArchiveInit => ArcInv
<1> SUFFICES ASSUME ArchiveInit PROVE ArcInv
  OBVIOUS
<1>1. PICK sources \in SUBSET SackSpots, taken \in SUBSET {Spot(Out, n) : n \in Labels},
           sort \in {"file", "dir"}, inside \in SUBSET Labels, old \in BOOLEAN :
        /\ inside # {} => sources = {} /\ old
        /\ inside = {} => taken = {} /\ sort = "file"
        /\ shelf = [s \in Spots |->
                IF s \in sources THEN Plain(s)
                ELSE IF s \in taken THEN IF sort = "file" THEN Plain(s) ELSE Folder_
                ELSE IF s = Pack /\ inside # {} THEN
                        Packed("archive", [k \in 1 .. Cardinality(inside) |->
                            [label |-> SetToSeq(inside)[k], file |-> Plain(<<SetToSeq(inside)[k]>>)]])
                ELSE IF s = Pack /\ old THEN Plain(Pack) ELSE NoFile]
  BY DEF ArchiveInit
<1>2. arc = [pc |-> "idle", jobs |-> 0, act |-> "pack", rule |-> "fail", format |-> "zip", sacks |-> {},
             items |-> <<>>, wanted |-> <<>>, todo |-> <<>>, target |-> Pack, clash |-> FALSE,
             print |-> NoFile, kept |-> {}, skipped |-> {}, cancel |-> FALSE]
      /\ marks = [begun |-> UNION {Held(s) : s \in Spots} \ {NoFile, Folder_}, overruled |-> {}, emptied |-> {},
                  swapped |-> {}, meddled |-> FALSE, crowded |-> FALSE]
  BY DEF ArchiveInit
<1> DEFINE entry(k) == [label |-> SetToSeq(inside)[k], file |-> Plain(<<SetToSeq(inside)[k]>>)]
           entries == [k \in 1 .. Cardinality(inside) |-> entry(k)]
<1>3. entries \in Seq(Entry1) /\ \A k \in DOMAIN entries : \E n \in Labels : entries[k].file = Plain(<<n>>)
  <2>1. IsFiniteSet(inside)
    BY ArchiveConstants, FS_Subset
  <2>2. SetToSeq(inside) \in Seq(inside) /\ Len(SetToSeq(inside)) = Cardinality(inside) /\ Cardinality(inside) \in Nat
    BY <2>1, SetToSeqIs
  <2>3. \A k \in 1 .. Cardinality(inside) : SetToSeq(inside)[k] \in Labels
    BY <2>2, ElementOfSeq
  <2>4. \A k \in 1 .. Cardinality(inside) : entry(k) \in Entry1
    BY <2>3, Bares DEF Entry1, FileNames
  <2>5. entries \in Seq(Entry1)
    <3> HIDE DEF entry
    <3>1. entries \in [1 .. Cardinality(inside) -> Entry1]
      BY <2>4
    <3> QED BY <3>1, <2>2, SeqDef
  <2> QED BY <2>5, <2>3
<1>4. shelf[Pack] \in {Packed("archive", entries), Plain(Pack), NoFile}
  <2>1. Pack \notin sources /\ Pack \notin taken
    BY SpotFacts DEF OutSpots
  <2> QED BY <2>1, <1>1, SpotFacts
<1>5. \A s \in Spots \ {Pack} : shelf[s] \in {NoFile, Folder_, Plain(s)}
  BY <1>1
<1>6. Packed("archive", entries) \in Depth1
  <2> HIDE DEF entries
  <2> QED BY <1>3 DEF Packed, Depth1, FileKinds, FileNames
<1>7. shelf[Pack] \in Depth1 /\ \A s \in Spots \ {Pack} : shelf[s] \in Bare
  <2>1. \A s \in Spots : Plain(s) \in Bare
    BY Bares DEF FileNames
  <2> QED BY <1>4, <1>5, <1>6, <2>1, BareFacts, Bares, SpotFacts
<1>8. shelf \in [Spots -> Depth2]
  <2>1. \A s \in Spots : shelf[s] \in Depth2
    BY <1>7, BareFacts, DepthsGrow
  <2>2. DOMAIN shelf = Spots /\ shelf = [s \in Spots |-> shelf[s]]
    BY <1>1
  <2> QED BY <2>1, <2>2
<1>9. \A s \in Spots : Held(s) \subseteq Depth2
  <2> SUFFICES ASSUME NEW s \in Spots PROVE Held(s) \subseteq Depth2
    OBVIOUS
  <2>1. shelf[s] \in Depth2
    BY <1>8
  <2>2. \A k \in DOMAIN shelf[s].has : shelf[s].has[k].file \in Depth1
    BY <2>1, HasFacts
  <2> QED BY <2>1, <2>2, DepthsGrow DEF Held
<1>10. ArcTypes
  <2>1. marks.begun \subseteq Depth2
    BY <1>2, <1>9
  <2>2. NoFile \in Depth1
    BY Bares, BareFacts
  <2>3. <<>> \in Seq(Spots) /\ <<>> \in Seq(Depth2)
    OBVIOUS
  <2> QED BY <1>2, <1>7, <1>8, <2>1, <2>2, <2>3, SpotFacts DEF ArcTypes, ArcRecords, ArcPcs, ArcPolicy, Resting
<1>11. \A f \in Held(Pack) : f # Plain(Foreign) /\ f.name \notin OutSpots
  <2>1. Held(Pack) \subseteq {Packed("archive", entries), Plain(Pack), NoFile} \cup {Plain(<<n>>) : n \in Labels}
    <3>1. CASE shelf[Pack] = Packed("archive", entries)
      <4>1. shelf[Pack].has = entries
        BY <3>1 DEF Packed
      <4>2. Held(Pack) = {shelf[Pack]} \cup {entries[k].file : k \in DOMAIN entries}
        BY <4>1 DEF Held
      <4> HIDE DEF entries
      <4> QED BY <3>1, <4>2, <1>3
    <3>2. CASE shelf[Pack] \in {Plain(Pack), NoFile}
      BY <3>2, BareHeld, Bares, SpotFacts DEF FileNames
    <3> QED BY <3>1, <3>2, <1>4
  <2>2. Plain(Pack) # Plain(Foreign) /\ Pack \notin OutSpots /\ \A n \in Labels : Plain(<<n>>) # Plain(Foreign)
    BY ArchiveConstants, Bares, SpotFacts
  <2>3. \A n : <<n>> \notin OutSpots
    BY DEF OutSpots, Spot
  <2>4. <<>> \notin OutSpots
    BY DEF OutSpots, Spot
  <2>5. Packed("archive", entries) # Plain(Foreign) /\ Packed("archive", entries).name = <<>>
    BY DEF Packed, Plain
  <2>6. NoFile # Plain(Foreign) /\ NoFile.name = <<>>
    BY Bares DEF NoFile
  <2> HIDE DEF entries
  <2> SUFFICES ASSUME NEW f \in Held(Pack) PROVE f # Plain(Foreign) /\ f.name \notin OutSpots
    OBVIOUS
  <2>7. CASE \E n \in Labels : f = Plain(<<n>>)
    <3>1. PICK n \in Labels : f = Plain(<<n>>)
      BY <2>7
    <3>2. f.name = <<n>>
      BY <3>1, Bares
    <3> QED BY <3>1, <3>2, <2>2, <2>3
  <2>8. CASE f = Plain(Pack)
    <3>1. f.name = Pack
      BY <2>8, Bares
    <3> QED BY <2>8, <3>1, <2>2
  <2>9. CASE f \in {Packed("archive", entries), NoFile}
    BY <2>9, <2>4, <2>5, <2>6
  <2> QED BY <2>1, <2>7, <2>8, <2>9
<1>12. ForeignIsNew
  <2>1. \A s \in Spots : Plain(Foreign) \notin Held(s)
    <3> SUFFICES ASSUME NEW s \in Spots, s # Pack PROVE Plain(Foreign) \notin Held(s)
      BY <1>11
    <3>1. Held(s) = {shelf[s]}
      BY <1>7, BareHeld
    <3>2. Plain(s) # Plain(Foreign) /\ NoFile # Plain(Foreign) /\ Folder_ # Plain(Foreign)
      BY ArchiveConstants, Bares DEF Folder_, Plain
    <3> QED BY <3>1, <3>2, <1>5
  <2> QED BY <2>1, <1>2 DEF ForeignIsNew
<1>13. PackFits /\ UnpackFits
  BY <1>2 DEF PackFits, UnpackFits, Packing
<1>14. HiddenFits
  <2>1. ~Is(Staging) /\ ~Is(Backup)
    <3>1. \A s \in {Staging, Backup} : s \notin sources /\ s \notin taken /\ s # Pack
      BY SpotFacts DEF OutSpots
    <3> QED BY <3>1, <1>1, SpotFacts DEF Is
  <2> QED BY <1>2, <2>1 DEF HiddenFits, Resting
<1>15. FirstFits
  <2>1. \A s \in OutSpots : OwnName(s)
    BY <1>5, SpotFacts DEF OwnName
  <2> QED BY <1>2, <2>1, <1>11 DEF FirstFits, OverwriteFits
<1>16. NoneMissing /\ OnlyCrowded
  BY <1>2 DEF NoneMissing, OnlyCrowded, Missing, OnShelf
<1>17. ArchivesTrue
  BY <1>2 DEF ArchivesTrue
<1> QED BY <1>10, <1>12, <1>13, <1>14, <1>15, <1>16, <1>17 DEF ArcInv

-----------------------------------------------------------------------------
(* Making an archive.                                                       *)

LEMMA SackSpotsFinite == IsFiniteSet(SackSpots)
<1>1. SackSpots = Sacks \X Labels
  BY DEF SackSpots, Spot
<1>2. IsFiniteSet(Sacks \X Labels)
  BY FS_Product, ArchiveConstants
<1> QED BY <1>1, <1>2

\* A step of making an archive has nothing to do with what unpacking leaves.
LEMMA PackStep ==
    ASSUME ArcInv, arc.act = "pack", arc.pc \in Packing, UNCHANGED <<shelf[Staging], shelf[Backup]>>,
           arc' = [arc EXCEPT !.pc = arc'.pc, !.target = arc'.target, !.todo = arc'.todo, !.skipped = arc'.skipped],
           arc'.pc \in {"crashed"} \cup Ended \cup Packing,
           arc.rule # "overwrite" => marks'.overruled = marks.overruled
    PROVE  UnpackFits' /\ HiddenFits' /\ FirstFits'
<1>1. /\ arc'.act = "pack" /\ arc'.rule = arc.rule /\ arc'.jobs = arc.jobs /\ arc'.kept = arc.kept
      /\ arc'.pc \in {"crashed"} \cup Ended \cup Packing
  BY DEF ArcInv, ArcTypes, ArcRecords
<1>2. arc.kept = {} /\ ~Is(Staging) /\ ~Is(Backup) /\ arc.jobs # 0
  BY DEF ArcInv, HiddenFits, FirstFits, Packing
<1>3. ~Is(Staging)' /\ ~Is(Backup)'
  BY <1>2 DEF Is
<1>4. UnpackFits'
  BY <1>1 DEF UnpackFits
<1>5. HiddenFits'
  BY <1>1, <1>2, <1>3 DEF HiddenFits, Resting
<1>6. FirstFits'
  BY <1>1, <1>2 DEF FirstFits, OverwriteFits, ArcInv
<1> QED BY <1>4, <1>5, <1>6

LEMMA PlanPackKeeps == ASSUME ArcInv, PlanPack PROVE ArcInv'
<1>1. PICK sacks \in SUBSET Sacks \ {{}}, own \in BOOLEAN, rule \in ArcRules, format \in Formats :
        LET list == SetToSeq(Gathered(sacks, own)) IN
        /\ arc.jobs > 0 => ~own
        /\ arc' = [arc EXCEPT !.pc = "make", !.jobs = @ + 1, !.act = "pack", !.sacks = sacks, !.rule = rule,
                              !.format = format, !.items = list, !.todo = list, !.target = Pack,
                              !.clash = Is(Pack) /\ list # <<>>, !.cancel = FALSE, !.skipped = {},
                              !.wanted = [k \in DOMAIN list |-> shelf[list[k]]]]
  BY DEF PlanPack
<1> DEFINE G == Gathered(sacks, own)
           list == SetToSeq(G)
           wanted == [k \in DOMAIN list |-> shelf[list[k]]]
<1>2. CanBegin /\ UNCHANGED <<shelf, marks>>
  BY DEF PlanPack
<1>3. G \subseteq SackSpots \cup {Pack} /\ \A s \in G : s = Pack \/ (s \in SackSpots /\ s[1] \in sacks)
  BY DEF Gathered
<1>4. G \subseteq Spots /\ IsFiniteSet(G)
  <2>1. IsFiniteSet(SackSpots \cup {Pack})
    BY SackSpotsFinite, FS_AddElement
  <2> QED BY <1>3, <2>1, FS_Subset, SpotFacts
<1>5. list \in Seq(G) /\ IsInjective(list)
  BY <1>4, SetToSeqIs
<1>6. list \in Seq(Spots) /\ Len(list) \in Nat /\ DOMAIN list = 1 .. Len(list)
      /\ \A k \in 1 .. Len(list) : list[k] \in G
  BY <1>5, <1>4, SeqMonotonic, LenProperties, ElementOfSeq
<1>7. wanted \in Seq(Depth2) /\ Len(wanted) = Len(list)
  <2>1. \A k \in DOMAIN list : shelf[list[k]] \in Depth2
    BY <1>6, <1>4 DEF ArcInv, ArcTypes, ArcRecords
  <2>2. wanted \in [1 .. Len(list) -> Depth2]
    BY <2>1, <1>6
  <2>3. wanted \in Seq(Depth2)
    BY <2>2, <1>6, SeqDef
  <2>4. Len(wanted) = Len(list)
    BY <2>2, <2>3, <1>6, LenProperties
  <2> QED BY <2>3, <2>4
<1>a. PICK b \in BOOLEAN :
        arc' = [arc EXCEPT !.pc = "make", !.jobs = @ + 1, !.act = "pack", !.sacks = sacks, !.rule = rule,
                              !.format = format, !.items = list, !.todo = list, !.target = Pack,
                              !.clash = b, !.cancel = FALSE, !.skipped = {}, !.wanted = wanted]
  <2>1. (Is(Pack) /\ list # <<>>) \in BOOLEAN
    OBVIOUS
  <2> QED BY <2>1, <1>1
<1>8. /\ arc'.pc = "make" /\ arc'.jobs = arc.jobs + 1 /\ arc'.act = "pack" /\ arc'.sacks = sacks
      /\ arc'.rule = rule /\ arc'.items = list /\ arc'.todo = list /\ arc'.target = Pack
      /\ arc'.wanted = wanted /\ arc'.skipped = {} /\ arc'.kept = arc.kept
  <2> HIDE DEF list, wanted
  <2> QED BY <1>a DEF ArcInv, ArcTypes, ArcRecords
<1>9. ArcTypes'
  <2>1. rule \in ArcPolicy /\ format \in {"zip", "tar"}
    BY ArchiveConstants DEF ArcPolicy
  <2>2. arc'.todo = list
    BY <1>8
  <2>3. shelf' = shelf /\ marks' = marks
    BY <1>2
  <2>4. list \in Seq(Spots) /\ wanted \in Seq(Depth2) /\ Pack \in Spots /\ sacks \in SUBSET Sacks
        /\ b \in BOOLEAN
    BY <1>6, <1>7, SpotFacts
  <2>5. arc \in ArcRecords(arc.todo)
    BY DEF ArcInv, ArcTypes
  <2>6. arc' \in ArcRecords(arc'.todo)
    <3>1. arc.jobs \in Nat
      BY <2>5 DEF ArcRecords
    <3>2. PICK j \in Nat : j = arc.jobs + 1
      BY <3>1
    <3>3. arc' = [arc EXCEPT !.pc = "make", !.jobs = j, !.act = "pack", !.sacks = sacks, !.rule = rule,
                              !.format = format, !.items = list, !.todo = list, !.target = Pack,
                              !.clash = b, !.cancel = FALSE, !.skipped = {}, !.wanted = wanted]
      BY <3>2, <1>a
    <3>4. "make" \in ArcPcs
      BY DEF ArcPcs, Packing
    <3> QED BY <2>1, <2>2, <2>4, <2>5, <3>3, <3>4 DEF ArcRecords
  <2> QED BY <2>6, <2>3 DEF ArcInv, ArcTypes
<1>10. ForeignIsNew' /\ NoneMissing' /\ OnlyCrowded'
  BY <1>2, QuietStep
<1>11. arc.kept = {} /\ ~Is(Staging)' /\ ~Is(Backup)'
  BY <1>2 DEF CanBegin, Is, ArcInv, HiddenFits, Ended
<1>12. UnpackFits' /\ HiddenFits' /\ ArchivesTrue'
  BY <1>8, <1>11 DEF UnpackFits, HiddenFits, ArchivesTrue, Packing
<1>13. FirstFits'
  <2>1. arc'.jobs = 1 => arc.jobs = 0
    BY <1>8 DEF ArcInv, ArcTypes, ArcRecords
  <2>2. arc'.jobs # 0 /\ arc'.act = "pack"
    BY <1>8 DEF ArcInv, ArcTypes, ArcRecords
  <2> QED BY <2>1, <2>2, <1>2 DEF ArcInv, FirstFits, OverwriteFits
<1>14. PackFits'
  <2>1. ItemsFit'
    BY <1>8, <1>7, <1>6, <1>5, <1>3 DEF ItemsFit
  <2>2. RestOf(list, list)
    BY <1>6, RestAll
  <2>3. arc'.jobs > 1 => ~OwnSource'
    <3>1. SUFFICES ASSUME arc'.jobs > 1 PROVE ~OwnSource'
      OBVIOUS
    <3>2. arc.jobs > 0
      BY <1>8, <3>1 DEF ArcInv, ArcTypes, ArcRecords
    <3>3. ~own
      BY <3>2, <1>1
    <3>4. Pack \notin G
      BY <3>3, SpotFacts DEF Gathered
    <3> QED BY <3>4, <1>6, <1>8 DEF OwnSource
  <2>4. \A i \in 1 .. Len(list) : list[i] \in Spots /\ wanted[i] = shelf[list[i]]
    BY <1>6, <1>4
  <2>5. \A i \in 1 .. Len(arc'.items) : Intact(i)'
    <3> HIDE DEF list, wanted, G
    <3> QED BY <2>4, <1>8, <1>2 DEF Intact
  <2> HIDE DEF list, wanted, G
  <2> QED BY <2>1, <2>2, <2>3, <2>5, <1>8, <1>6 DEF PackFits, Packing
<1> QED BY <1>9, <1>10, <1>12, <1>13, <1>14 DEF ArcInv

\* The operation after a step that only moves it on.
LEMMA EndsFacts ==
    ASSUME ArcTypes, NEW p \in ArcPcs, Ends(p)
    PROVE  /\ arc' \in ArcRecords(arc'.todo) /\ arc'.pc = p
           /\ arc'.jobs = arc.jobs /\ arc'.act = arc.act /\ arc'.rule = arc.rule /\ arc'.format = arc.format
           /\ arc'.sacks = arc.sacks /\ arc'.items = arc.items /\ arc'.wanted = arc.wanted /\ arc'.todo = arc.todo
           /\ arc'.target = arc.target /\ arc'.print = arc.print /\ arc'.kept = arc.kept
           /\ arc'.skipped = arc.skipped
  BY DEF Ends, ArcTypes, ArcRecords

LEMMA PackPcs == \A p \in {"make", "create", "add", "error", "ok", "cancelled", "crashed"} : p \in ArcPcs
  BY DEF ArcPcs, Packing, Resting, Ended

\* A step of the packing, but for where the operation goes.
LEMMA PackFrame ==
    ASSUME ArcInv, arc.act = "pack", arc.pc \in Packing, arc'.act = "pack", arc'.sacks = arc.sacks,
           arc'.items = arc.items, arc'.wanted = arc.wanted, arc'.format = arc.format,
           arc'.jobs = arc.jobs, \A s \in SackSpots : shelf'[s] = shelf[s],
           OwnSource => shelf'[Pack] = shelf[Pack]
    PROVE  /\ ItemsFit' /\ (OwnSource' <=> OwnSource) /\ (arc'.jobs > 1 => ~OwnSource')
           /\ \A i \in 1 .. Len(arc.items) : Intact(i)' <=> Intact(i)
           /\ \A i \in 1 .. Len(arc.items) : arc.items[i] = Pack => OwnSource
           /\ Len(arc.items) \in Nat /\ DOMAIN arc.items = 1 .. Len(arc.items)
           /\ arc.items \in Seq(Spots)
<1>1. arc.items \in Seq(Spots)
  BY DEF ArcInv, ArcTypes, ArcRecords
<1>2. Len(arc.items) \in Nat /\ DOMAIN arc.items = 1 .. Len(arc.items)
  BY <1>1, LenProperties
<1>3. ItemsFit /\ (arc.jobs > 1 => ~OwnSource)
  BY DEF ArcInv, PackFits
<1>4. ItemsFit'
  BY <1>3 DEF ItemsFit
<1>5. OwnSource' <=> OwnSource
  BY DEF OwnSource
<1>6. \A i \in 1 .. Len(arc.items) : arc.items[i] = Pack => OwnSource
  BY <1>2 DEF OwnSource
<1>7. ASSUME NEW i \in 1 .. Len(arc.items) PROVE Intact(i)' <=> Intact(i)
  <2>1. shelf'[arc.items[i]] = shelf[arc.items[i]]
    BY <1>3, <1>6 DEF ItemsFit
  <2> QED BY <2>1 DEF Intact
<1> QED BY <1>1, <1>2, <1>3, <1>4, <1>5, <1>6, <1>7

\* Packing ends without an archive, or before it was begun.
LEMMA PackEnds ==
    ASSUME ArcInv, arc.act = "pack", arc.pc \in Packing, NEW p \in {"error", "cancelled", "crashed"}, Ends(p),
           UNCHANGED <<shelf, marks>>
    PROVE  ArcInv'
<1>1. p \in ArcPcs /\ ArcTypes
  BY PackPcs DEF ArcInv
<1>2. arc' \in ArcRecords(arc'.todo) /\ arc'.pc = p /\ arc'.act = "pack"
  BY <1>1, EndsFacts
<1>3. ArcTypes'
  BY <1>1, <1>2 DEF ArcTypes
<1>4. arc' = [arc EXCEPT !.pc = arc'.pc, !.target = arc'.target, !.todo = arc'.todo, !.skipped = arc'.skipped]
  BY <1>1, <1>2 DEF Ends, ArcTypes, ArcRecords
<1>5. arc'.pc \in {"crashed"} \cup Ended \cup Packing
  BY <1>2 DEF Ended
<1>6. UnpackFits' /\ HiddenFits' /\ FirstFits'
  BY <1>4, <1>5, PackStep
<1>7. PackFits' /\ ArchivesTrue'
  BY <1>2 DEF PackFits, ArchivesTrue, Packing
<1> QED BY <1>3, <1>6, <1>7, QuietStep DEF ArcInv

LEMMA PackLookKeeps == ASSUME ArcInv, PackLook, arc.act = "pack" PROVE ArcInv'
<1> USE DEF ArcInv
<1>1. arc.pc = "make" /\ arc.pc \in Packing /\ ArcTypes /\ arc.rule \in ArcPolicy
  BY DEF PackLook, Packing, ArcTypes, ArcRecords
<1>2. /\ arc.target = Pack /\ arc.todo = arc.items /\ RestOf(arc.items, arc.todo) /\ arc.todo \in Seq(Spots)
      /\ arc.skipped = {} /\ (~marks.meddled => \A i \in 1 .. Len(arc.items) : Intact(i))
  BY <1>1 DEF PackFits
<1>3. shelf \in [Spots -> Depth2] /\ shelf[Pack] \in Depth1 /\ Pack \in Spots /\ Spare \in Spots /\ Pack # Spare
  BY SpotFacts DEF ArcTypes
<1>4. \A s \in SackSpots \cup {Staging, Backup} : s \in Spots /\ s # Pack /\ s # Spare
  BY SpotFacts
<1>5. marks \in [begun : SUBSET Depth2, overruled : SUBSET Depth2, emptied : SUBSET Depth2,
                 swapped : SUBSET Depth2, meddled : BOOLEAN, crowded : BOOLEAN]
  BY DEF ArcTypes
<1>6. CASE arc.rule = "fail" /\ (arc.clash \/ Is(Pack))
  <2>1. Ends("error") /\ UNCHANGED <<shelf, marks>>
    BY <1>6, <1>1 DEF PackLook
  <2> QED BY <2>1, <1>1, PackEnds
<1>7. CASE ~(arc.rule = "fail" /\ (arc.clash \/ Is(Pack))) /\ Is(Pack) /\ arc.rule = "skip"
  <2>1. arc' = [arc EXCEPT !.pc = "ok", !.skipped = {Pack}] /\ UNCHANGED <<shelf, marks>>
    BY <1>7 DEF PackLook
  <2>2. arc' \in ArcRecords(arc'.todo) /\ arc'.pc = "ok" /\ arc'.skipped = {Pack} /\ arc'.act = "pack"
    BY <2>1, <1>1, <1>3, PackPcs DEF ArcTypes, ArcRecords
  <2>3. ArcTypes'
    BY <2>1, <2>2 DEF ArcTypes
  <2>4. arc' = [arc EXCEPT !.pc = arc'.pc, !.target = arc'.target, !.todo = arc'.todo, !.skipped = arc'.skipped]
    BY <2>1, <1>1 DEF ArcTypes, ArcRecords
  <2>5. UnpackFits' /\ HiddenFits' /\ FirstFits'
    <3>1. arc'.pc \in {"crashed"} \cup Ended \cup Packing
      BY <2>2 DEF Ended
    <3> HIDE DEF ArcInv
    <3> QED BY <2>1, <2>4, <3>1, <1>1, PackStep
  <2>6. PackFits' /\ ArchivesTrue'
    BY <2>2 DEF PackFits, ArchivesTrue, Packing
  <2>7. ForeignIsNew' /\ NoneMissing' /\ OnlyCrowded'
    BY <2>1, QuietStep
  <2> QED BY <2>3, <2>5, <2>6, <2>7
<1>8. ASSUME NEW t \in {Pack, Spare}, arc' = [arc EXCEPT !.pc = "create", !.target = t],
             shelf' \in [Spots -> Depth2], shelf'[Pack] \in Depth1,
             \A s \in Spots \ {Pack, Spare} : shelf'[s] = shelf[s],
             OwnSource /\ t # Pack => shelf'[Pack] = shelf[Pack],
             ArcTypes => marks' \in [begun : SUBSET Depth2, overruled : SUBSET Depth2, emptied : SUBSET Depth2,
                         swapped : SUBSET Depth2, meddled : BOOLEAN, crowded : BOOLEAN],
             arc.rule # "overwrite" => marks'.overruled = marks.overruled,
             marks'.begun = marks.begun, marks'.meddled = marks.meddled, marks'.swapped = marks.swapped,
             NoneMissing', OnlyCrowded', marks'.crowded \/ FreeOrForeign(t)'
      PROVE  ArcInv'
  <2>1. t \in Spots
    BY <1>3
  <2>2. arc' \in ArcRecords(arc'.todo) /\ arc'.pc = "create" /\ arc'.act = "pack" /\ arc'.target = t
        /\ arc'.sacks = arc.sacks /\ arc'.items = arc.items /\ arc'.wanted = arc.wanted
        /\ arc'.format = arc.format /\ arc'.jobs = arc.jobs /\ arc'.todo = arc.todo /\ arc'.skipped = arc.skipped
    BY <1>8, <2>1, <1>1, PackPcs DEF ArcTypes, ArcRecords
  <2>3. ArcTypes'
    BY <1>8, <2>2, <1>1 DEF ArcTypes
  <2>4. arc' = [arc EXCEPT !.pc = arc'.pc, !.target = arc'.target, !.todo = arc'.todo, !.skipped = arc'.skipped]
    BY <1>8, <1>1 DEF ArcTypes, ArcRecords
  <2>5. UnpackFits' /\ HiddenFits' /\ FirstFits'
    <3>1. arc'.pc \in {"crashed"} \cup Ended \cup Packing /\ UNCHANGED <<shelf[Staging], shelf[Backup]>>
      BY <2>2, <1>8, <1>4 DEF Packing
    <3> HIDE DEF ArcInv
    <3> QED BY <2>4, <3>1, <1>1, <1>8, PackStep
  <2>6. ForeignIsNew'
    BY <1>8 DEF ForeignIsNew
  <2>8. /\ arc'.target \in {Pack, Spare} /\ RestOf(arc'.items, arc'.todo)
        /\ arc'.todo \in Seq(Spots) /\ arc'.skipped = {} /\ arc'.todo = arc'.items
    BY <1>8, <1>2, <2>2
  <2>9. arc'.pc = "create" /\ (marks'.crowded \/ shelf'[arc'.target] \in {NoFile, Plain(Foreign)})
    BY <1>8, <2>2 DEF FreeOrForeign
  <2>7. PackFits'
    <3>1. \A s \in SackSpots : shelf'[s] = shelf[s]
      BY <1>8, <1>4
    <3>2. CASE OwnSource => shelf'[Pack] = shelf[Pack]
      <4>1. /\ ItemsFit' /\ (OwnSource' <=> OwnSource) /\ (arc'.jobs > 1 => ~OwnSource')
            /\ \A i \in 1 .. Len(arc.items) : Intact(i)' <=> Intact(i)
        <5> HIDE DEF ArcInv
        <5> QED BY <3>1, <3>2, <2>2, <1>1, PackFrame
      <4>2. Undisturbed' => \A i \in 1 .. Len(arc'.items) : Intact(i)'
        <5> SUFFICES ASSUME Undisturbed', NEW i \in 1 .. Len(arc'.items) PROVE Intact(i)'
          OBVIOUS
        <5>1. ~marks.meddled
          BY <1>8 DEF Undisturbed
        <5>2. i \in 1 .. Len(arc.items)
          BY <2>2
        <5>3. Intact(i)
          BY <5>1, <5>2, <1>2
        <5> QED BY <5>2, <5>3, <4>1
      <4> HIDE DEF ArcInv
      <4> QED BY <4>1, <4>2, <2>8, <2>9 DEF PackFits, FreeOrForeign
    <3>3. CASE OwnSource /\ t = Pack
      <4>1. ItemsFit' /\ (arc'.jobs > 1 => ~OwnSource') /\ OwnSource'
        <5>1. ItemsFit /\ (arc.jobs > 1 => ~OwnSource)
          BY <1>1 DEF PackFits
        <5> QED BY <5>1, <2>2, <3>3 DEF ItemsFit, OwnSource
      <4>2. ~Undisturbed'
        BY <4>1, <3>3, <2>2 DEF Undisturbed
      <4> HIDE DEF ArcInv
      <4> QED BY <4>1, <4>2, <2>8, <2>9 DEF PackFits, FreeOrForeign
    <3> QED BY <3>2, <3>3, <1>8
  <2>a. ArchivesTrue'
    BY <2>2 DEF ArchivesTrue
  <2> QED BY <1>8, <2>3, <2>5, <2>6, <2>7, <2>a
<1>9. CASE ~(arc.rule = "fail" /\ (arc.clash \/ Is(Pack))) /\ ~Is(Pack)
  <2>1. Ends("create") /\ UNCHANGED <<shelf, marks>>
    BY <1>9 DEF PackLook
  <2>2. arc' = [arc EXCEPT !.pc = "create", !.target = Pack]
    BY <2>1, <1>1, <1>2 DEF Ends, ArcTypes, ArcRecords
  <2>3. FreeOrForeign(Pack)'
    BY <2>1, <1>9 DEF Is, FreeOrForeign
  <2>4. NoneMissing' /\ OnlyCrowded'
    BY <2>1, QuietStep
  <2> QED BY <2>1, <2>2, <2>3, <2>4, <1>3, <1>5, <1>8
<1>10. CASE ~(arc.rule = "fail" /\ (arc.clash \/ Is(Pack))) /\ Is(Pack) /\ arc.rule = "overwrite"
  <2>1. /\ Ends("create") /\ shelf' = [shelf EXCEPT ![Pack] = NoFile]
        /\ marks' = [marks EXCEPT !.overruled = @ \cup Held(Pack)]
    BY <1>10 DEF PackLook
  <2>2. arc' = [arc EXCEPT !.pc = "create", !.target = Pack]
    BY <2>1, <1>1, <1>2 DEF Ends, ArcTypes, ArcRecords
  <2>3. Held(Pack) \subseteq Depth2 /\ NoFile \in Depth1 /\ NoFile \in Depth2
    BY <1>1, <1>3, HeldIn, Bares, BareFacts
  <2>4. shelf' \in [Spots -> Depth2] /\ shelf'[Pack] = NoFile /\ \A s \in Spots \ {Pack} : shelf'[s] = shelf[s]
    BY <2>1, <2>3, <1>3
  <2>5. /\ marks'.overruled = marks.overruled \cup Held(Pack) /\ marks'.begun = marks.begun
        /\ marks'.meddled = marks.meddled /\ marks'.swapped = marks.swapped /\ marks'.emptied = marks.emptied
        /\ marks'.crowded = marks.crowded
        /\ marks' \in [begun : SUBSET Depth2, overruled : SUBSET Depth2, emptied : SUBSET Depth2,
                       swapped : SUBSET Depth2, meddled : BOOLEAN, crowded : BOOLEAN]
    BY <2>1, <2>3, <1>5
  <2>6. NoneMissing'
    <3>1. \A s \in Spots \ {Pack} : Held(s) \subseteq OnShelf'
      BY <2>4, HeldStays
    <3>2. \A s \in Spots : \A f \in Held(s) : f \in OnShelf' \/ f \in marks'.overruled
      BY <3>1, <2>5
    <3> QED BY <3>2, <2>5, StillThere
  <2>7. OnlyCrowded'
    BY <2>5 DEF OnlyCrowded
  <2>8. FreeOrForeign(Pack)'
    BY <2>4 DEF FreeOrForeign
  <2> QED BY <2>2, <2>3, <2>4, <2>5, <2>6, <2>7, <2>8, <1>8, <1>10
<1>11. CASE ~(arc.rule = "fail" /\ (arc.clash \/ Is(Pack))) /\ Is(Pack) /\ arc.rule = "renameNew"
  <2>8. PICK t \in {Pack, Spare} : t = IF Is(Spare) THEN Pack ELSE Spare
    OBVIOUS
  <2>1. arc' = [arc EXCEPT !.pc = "create", !.target = t] /\ shelf' = shelf
        /\ marks' = [marks EXCEPT !.crowded = @ \/ Is(Spare)]
    BY <1>11, <2>8 DEF PackLook
  <2>2. PICK b \in BOOLEAN : b = (marks.crowded \/ Is(Spare))
    OBVIOUS
  <2>3. marks' = [marks EXCEPT !.crowded = b]
    BY <2>1, <2>2
  <2>4. /\ marks'.overruled = marks.overruled /\ marks'.begun = marks.begun
        /\ marks'.meddled = marks.meddled /\ marks'.swapped = marks.swapped /\ marks'.emptied = marks.emptied
        /\ marks'.crowded = b
        /\ marks' \in [begun : SUBSET Depth2, overruled : SUBSET Depth2, emptied : SUBSET Depth2,
                       swapped : SUBSET Depth2, meddled : BOOLEAN, crowded : BOOLEAN]
    BY <2>3, <1>5
  <2>5. NoneMissing'
    <3>1. \A s \in Spots : Held(s) \subseteq OnShelf'
      BY <2>1, HeldStays
    <3> QED BY <3>1, <2>4, StillThere
  <2>6. OnlyCrowded'
    BY <2>4, <2>2 DEF OnlyCrowded
  <2>7. marks'.crowded \/ FreeOrForeign(t)'
    BY <2>4, <2>2, <2>1, <2>8 DEF Is, FreeOrForeign
  <2> QED BY <2>1, <2>4, <2>5, <2>6, <2>7, <2>8, <1>8, <1>3
<1>12. CASE ~(arc.rule = "fail" /\ (arc.clash \/ Is(Pack))) /\ Is(Pack) /\ arc.rule = "renameExisting"
  <2>1. /\ Ends("create") /\ marks' = [marks EXCEPT !.crowded = @ \/ Is(Spare)]
        /\ shelf' = IF Is(Spare) THEN shelf ELSE [shelf EXCEPT ![Spare] = shelf[Pack], ![Pack] = NoFile]
    BY <1>12 DEF PackLook
  <2>2. arc' = [arc EXCEPT !.pc = "create", !.target = Pack]
    BY <2>1, <1>1, <1>2 DEF Ends, ArcTypes, ArcRecords
  <2>a. PICK b \in BOOLEAN : b = (marks.crowded \/ Is(Spare))
    OBVIOUS
  <2>3. marks' = [marks EXCEPT !.crowded = b]
    BY <2>1, <2>a
  <2>4. /\ marks'.overruled = marks.overruled /\ marks'.begun = marks.begun
        /\ marks'.meddled = marks.meddled /\ marks'.swapped = marks.swapped /\ marks'.emptied = marks.emptied
        /\ marks'.crowded = b
        /\ marks' \in [begun : SUBSET Depth2, overruled : SUBSET Depth2, emptied : SUBSET Depth2,
                       swapped : SUBSET Depth2, meddled : BOOLEAN, crowded : BOOLEAN]
    BY <2>3, <1>5
  <2>5. OnlyCrowded'
    BY <2>4, <2>a DEF OnlyCrowded
  <2>6. CASE Is(Spare)
    <3>1. shelf' = shelf /\ marks'.crowded
      BY <2>1, <2>4, <2>a, <2>6
    <3>2. NoneMissing'
      <4>1. \A s \in Spots : Held(s) \subseteq OnShelf'
        BY <3>1, HeldStays
      <4> QED BY <4>1, <2>4, StillThere
    <3> QED BY <2>2, <2>4, <2>5, <3>1, <3>2, <1>8, <1>3
  <2>7. CASE ~Is(Spare)
    <3>1. shelf' = [shelf EXCEPT ![Spare] = shelf[Pack], ![Pack] = NoFile]
      BY <2>1, <2>7
    <3>2. NoFile \in Depth1 /\ NoFile \in Depth2
      BY Bares, BareFacts
    <3>3. /\ shelf' \in [Spots -> Depth2] /\ shelf'[Pack] = NoFile /\ shelf'[Spare] = shelf[Pack]
          /\ \A s \in Spots \ {Pack, Spare} : shelf'[s] = shelf[s]
      BY <3>1, <3>2, <1>3
    <3>4. NoneMissing'
      <4>1. \A s \in Spots \ {Pack, Spare} : Held(s) \subseteq OnShelf'
        BY <3>3, HeldStays
      <4>2. Held(Pack) \subseteq OnShelf'
        BY <3>3, <1>3, HeldStays
      <4>3. \A f \in Held(Spare) : f.kind # "file"
        <5>1. Held(Spare) = {NoFile}
          BY <2>7, BareHeld, Bares DEF Is
        <5> QED BY <5>1, Bares
      <4> QED BY <4>1, <4>2, <4>3, <2>4, StillThere
    <3>5. FreeOrForeign(Pack)'
      BY <3>3 DEF FreeOrForeign
    <3> QED BY <2>2, <2>4, <2>5, <3>2, <3>3, <3>4, <3>5, <1>8
  <2> QED BY <2>6, <2>7
<1> QED BY <1>1, <1>6, <1>7, <1>9, <1>10, <1>11, <1>12 DEF ArcPolicy

\* A step that writes to the archive that is being made.
LEMMA PackWrites ==
    ASSUME ArcInv, arc.act = "pack", arc.pc \in {"create", "add"}, NEW p \in {"add", "ok"}, NEW t \in Seq(Spots),
           arc' = [arc EXCEPT !.pc = p, !.todo = t], NEW f \in Depth2, arc.target = Pack => f \in Depth1,
           shelf' = [shelf EXCEPT ![arc.target] = f], NEW e \in SUBSET Depth2,
           marks' = [marks EXCEPT !.emptied = e]
    PROVE  /\ ArcTypes' /\ ForeignIsNew' /\ UnpackFits' /\ HiddenFits' /\ FirstFits'
           /\ ItemsFit' /\ (OwnSource' <=> OwnSource) /\ (arc'.jobs > 1 => ~OwnSource')
           /\ (Undisturbed' <=> Undisturbed) /\ (Undisturbed' => \A i \in 1 .. Len(arc'.items) : Intact(i)')
           /\ arc'.pc = p /\ arc'.todo = t /\ arc'.act = "pack" /\ arc'.target = arc.target
           /\ arc'.items = arc.items /\ arc'.wanted = arc.wanted /\ arc'.format = arc.format
           /\ arc'.skipped = {} /\ arc'.sacks = arc.sacks
           /\ arc.target \in {Pack, Spare} /\ arc.target \in Spots
           /\ shelf'[arc.target] = f /\ \A s \in Spots \ {arc.target} : shelf'[s] = shelf[s]
           /\ marks'.emptied = e /\ marks'.begun = marks.begun /\ marks'.overruled = marks.overruled
           /\ marks'.swapped = marks.swapped /\ marks'.crowded = marks.crowded /\ marks'.meddled = marks.meddled
<1> USE DEF ArcInv
<1>1. arc.pc \in Packing /\ ArcTypes
  BY DEF Packing
<1>2. arc.target \in {Pack, Spare} /\ arc.target \in Spots /\ arc.skipped = {}
  BY <1>1, SpotFacts DEF PackFits
<1>3. shelf \in [Spots -> Depth2] /\ shelf[Pack] \in Depth1 /\ Pack \in Spots
      /\ \A s \in Spots \ {Pack, Spare} : shelf[s] \in Bare
  BY SpotFacts DEF ArcTypes
<1>4. shelf'[arc.target] = f /\ (\A s \in Spots \ {arc.target} : shelf'[s] = shelf[s]) /\ shelf' \in [Spots -> Depth2]
  BY <1>2, <1>3
<1>5. shelf'[Pack] \in Depth1 /\ \A s \in Spots \ {Pack, Spare} : shelf'[s] \in Bare
  BY <1>2, <1>3, <1>4
<1>6. /\ marks'.emptied = e /\ marks'.begun = marks.begun /\ marks'.overruled = marks.overruled
      /\ marks'.swapped = marks.swapped /\ marks'.crowded = marks.crowded /\ marks'.meddled = marks.meddled
      /\ marks' \in [begun : SUBSET Depth2, overruled : SUBSET Depth2, emptied : SUBSET Depth2,
                     swapped : SUBSET Depth2, meddled : BOOLEAN, crowded : BOOLEAN]
  BY <1>1 DEF ArcTypes
<1>7. /\ arc' \in ArcRecords(arc'.todo) /\ arc'.pc = p /\ arc'.todo = t /\ arc'.act = "pack"
      /\ arc'.target = arc.target /\ arc'.items = arc.items /\ arc'.wanted = arc.wanted
      /\ arc'.format = arc.format /\ arc'.skipped = arc.skipped /\ arc'.sacks = arc.sacks /\ arc'.jobs = arc.jobs
  <2>1. p \in ArcPcs
    BY PackPcs
  <2> QED BY <2>1, <1>1 DEF ArcTypes, ArcRecords
<1>8. ArcTypes' /\ ForeignIsNew'
  BY <1>4, <1>5, <1>6, <1>7 DEF ArcTypes, ForeignIsNew
<1>9. \A s \in SackSpots \cup {Staging, Backup} : s \in Spots /\ s # Pack /\ s # Spare
  BY SpotFacts
<1>10. UnpackFits' /\ HiddenFits' /\ FirstFits'
  <2>1. arc' = [arc EXCEPT !.pc = arc'.pc, !.target = arc'.target, !.todo = arc'.todo, !.skipped = arc'.skipped]
    BY <1>7, <1>1 DEF ArcTypes, ArcRecords
  <2>2. arc'.pc \in {"crashed"} \cup Ended \cup Packing /\ UNCHANGED <<shelf[Staging], shelf[Backup]>>
    BY <1>7, <1>4, <1>9, <1>2 DEF Packing, Ended
  <2> HIDE DEF ArcInv
  <2> QED BY <2>1, <2>2, <1>1, <1>6, PackStep
<1>11. ItemsFit /\ (arc.jobs > 1 => ~OwnSource) /\ (Undisturbed => \A i \in 1 .. Len(arc.items) : Intact(i))
  BY <1>1 DEF PackFits
<1>12. ItemsFit' /\ (OwnSource' <=> OwnSource) /\ (Undisturbed' <=> Undisturbed)
  BY <1>7, <1>6, <1>11 DEF ItemsFit, OwnSource, Undisturbed
<1>13. Undisturbed' => \A i \in 1 .. Len(arc'.items) : Intact(i)'
  <2> SUFFICES ASSUME Undisturbed', NEW i \in 1 .. Len(arc'.items) PROVE Intact(i)'
    OBVIOUS
  <2>1. i \in 1 .. Len(arc.items) /\ i \in DOMAIN arc.items
    <3>1. arc.items \in Seq(Spots)
      BY <1>1 DEF ArcTypes, ArcRecords
    <3> QED BY <3>1, <1>7, LenProperties
  <2>2. Intact(i)
    BY <2>1, <1>11, <1>12
  <2>3. arc.items[i] # arc.target
    <3>1. arc.items[i] = Pack => OwnSource
      BY <2>1 DEF OwnSource
    <3>2. ~(OwnSource /\ arc.target = Pack)
      BY <1>12 DEF Undisturbed
    <3>3. arc.items[i] # Spare
      BY <2>1, <1>11, <1>9, SpotFacts DEF ItemsFit
    <3> QED BY <3>1, <3>2, <3>3, <1>2
  <2> QED BY <2>2, <2>3, <1>7, <1>4 DEF Intact
<1> QED BY <1>2, <1>4, <1>6, <1>7, <1>8, <1>10, <1>11, <1>12, <1>13

LEMMA PackedFacts ==
    ASSUME NEW sort, NEW entries
    PROVE  Packed(sort, entries).kind = sort /\ Packed(sort, entries).has = entries
  BY DEF Packed

LEMMA PackCreateKeeps == ASSUME ArcInv, PackCreate, arc.act = "pack" PROVE ArcInv'
<1>1. arc.pc = "create" /\ arc.pc \in Packing /\ ArcTypes
  BY DEF PackCreate, Packing, ArcInv
<1> DEFINE f == Packed("part", <<>>)
<1>2. f \in Depth1 /\ f \in Depth2 /\ f.kind = "part" /\ f.has = <<>>
  <2>1. f \in Depth1
    BY DEF Packed, Depth1, FileKinds, FileNames
  <2> QED BY <2>1, DepthsGrow, PackedFacts
<1>3. arc.target \in Spots /\ arc.todo = arc.items /\ arc.todo \in Seq(Spots) /\ RestOf(arc.items, arc.todo)
      /\ (marks.crowded \/ FreeOrForeign(arc.target))
  BY <1>1, SpotFacts DEF ArcInv, PackFits
<1> DEFINE e == marks.emptied \cup (Held(arc.target) \ {NoFile})
<1>4. e \in SUBSET Depth2
  <2>1. marks.emptied \subseteq Depth2
    BY <1>1 DEF ArcTypes
  <2> QED BY <1>1, <1>3, <2>1, HeldIn
<1>5. arc' = [arc EXCEPT !.pc = "add", !.todo = arc.todo] /\ shelf' = [shelf EXCEPT ![arc.target] = f]
      /\ marks' = [marks EXCEPT !.emptied = e]
  BY <1>1 DEF PackCreate, Ends, ArcTypes, ArcRecords
<1> HIDE DEF f, e
<1>6. /\ ArcTypes' /\ ForeignIsNew' /\ UnpackFits' /\ HiddenFits' /\ FirstFits'
      /\ ItemsFit' /\ (arc'.jobs > 1 => ~OwnSource') /\ (Undisturbed' => \A i \in 1 .. Len(arc'.items) : Intact(i)')
      /\ arc'.pc = "add" /\ arc'.todo = arc.todo /\ arc'.act = "pack" /\ arc'.target = arc.target
      /\ arc'.items = arc.items /\ arc'.skipped = {}
      /\ arc.target \in {Pack, Spare}
      /\ shelf'[arc.target] = f /\ \A s \in Spots \ {arc.target} : shelf'[s] = shelf[s]
      /\ marks'.emptied = e /\ marks'.begun = marks.begun /\ marks'.overruled = marks.overruled
      /\ marks'.swapped = marks.swapped /\ marks'.crowded = marks.crowded
  BY <1>1, <1>2, <1>3, <1>4, <1>5, PackWrites
<1>7. NoneMissing'
  <2>1. \A s \in Spots \ {arc.target} : Held(s) \subseteq OnShelf'
    BY <1>6, HeldStays
  <2>2. \A g \in Held(arc.target) : g.kind = "file" => g \in marks'.emptied
    BY <1>6, Bares DEF e
  <2>3. NoneMissing
    BY DEF ArcInv
  <2>4. marks.emptied \subseteq marks'.emptied
    BY <1>6 DEF e
  <2> QED BY <2>1, <2>2, <2>3, <2>4, <1>6, StillThere
<1>8. OnlyCrowded'
  <2>1. CASE marks.crowded
    BY <2>1, <1>6 DEF OnlyCrowded
  <2>2. CASE FreeOrForeign(arc.target)
    BY <2>2, <1>1, <1>3, <1>5, OnlyForeignEmptied DEF ArcInv, e
  <2> QED BY <2>1, <2>2, <1>3
<1>9. PackFits'
  <2>1. Past(arc.items, arc.todo)' = 0
    BY <1>3, <1>6, RestAll
  <2>2. MadeFits(Past(arc.items, arc.todo))'
    BY <2>1, <1>6, <1>2 DEF MadeFits, Distinct
  <2> QED BY <2>2, <1>6, <1>2, <1>3 DEF PackFits
<1>10. ArchivesTrue'
  BY <1>6 DEF ArchivesTrue
<1> QED BY <1>6, <1>7, <1>8, <1>9, <1>10 DEF ArcInv

LEMMA PackAddKeeps == ASSUME ArcInv, PackAdd, arc.act = "pack" PROVE ArcInv'
<1>1. arc.pc = "add" /\ arc.pc \in Packing /\ ArcTypes /\ arc.todo # <<>>
  BY DEF PackAdd, Packing, ArcInv
<1> DEFINE s == Head(arc.todo)
           made == shelf[arc.target]
           into == made.has
           full == arc.format = "zip" /\ \E k \in DOMAIN into : into[k].label = LabelOf(s)
           file == IF s = arc.target THEN NoFile ELSE shelf[s]
           entry == [label |-> LabelOf(s), file |-> file]
           n == Past(arc.items, arc.todo)
<1>2. CASE arc.cancel
  <2>1. Ends("cancelled") /\ UNCHANGED <<shelf, marks>>
    BY <1>2 DEF PackAdd
  <2> QED BY <2>1, <1>1, PackEnds
<1>3. CASE ~arc.cancel /\ Ends("error") /\ UNCHANGED <<shelf, marks>>
  BY <1>3, <1>1, PackEnds
<1>4. CASE /\ ~arc.cancel /\ ~full /\ Is(s)
           /\ arc' = [arc EXCEPT !.todo = Tail(@)]
           /\ shelf' = [shelf EXCEPT ![arc.target] = Packed("part", Append(into, entry))]
           /\ UNCHANGED marks
  <2>1. /\ arc.target \in {Pack, Spare} /\ arc.target \in Spots /\ RestOf(arc.items, arc.todo) /\ arc.todo \in Seq(Spots)
        /\ arc.items \in Seq(Spots) /\ made.kind = "part" /\ MadeFits(n) /\ ItemsFit
        /\ (Undisturbed => \A i \in 1 .. Len(arc.items) : Intact(i))
    BY <1>1, SpotFacts DEF PackFits, ArcInv, ArcTypes, ArcRecords
  <2>2. /\ n \in 0 .. Len(arc.items) /\ n + 1 \in 1 .. Len(arc.items) /\ s = arc.items[n + 1]
        /\ RestOf(arc.items, Tail(arc.todo)) /\ Past(arc.items, Tail(arc.todo)) = n + 1
        /\ Tail(arc.todo) \in Seq(Spots) /\ Len(arc.items) \in Nat
    BY <1>1, <2>1, RestFacts, LenProperties
  <2>3. s = Pack \/ s \in SackSpots
    BY <2>1, <2>2 DEF ItemsFit
  <2>4. LabelOf(s) \in Labels \cup {Pack}
    BY <2>3, SpotFacts DEF LabelOf, SackSpots, Spot
  <2>5. file \in Depth1 /\ (arc.target = Pack => file \in Bare)
    <3>1. shelf[Pack] \in Depth1 /\ \A r \in SackSpots : shelf[r] \in Bare
      BY <1>1, SpotFacts DEF ArcTypes
    <3>2. \A r \in SackSpots : shelf[r] \in Depth1
      BY <3>1, BareFacts
    <3>3. NoFile \in Bare /\ NoFile \in Depth1
      BY Bares, BareFacts
    <3> HIDE DEF s
    <3> QED BY <2>3, <3>1, <3>2, <3>3
  <2>6. entry \in Entry2 /\ (arc.target = Pack => entry \in Entry1)
    <3>1. arc.target = Pack /\ LabelOf(s) # Pack => file # NoFile
      BY <1>4 DEF LabelOf, Is
    <3> HIDE DEF file, s
    <3> QED BY <3>1, <2>4, <2>5 DEF Entry1, Entry2
  <2>7. into \in Seq(Entry2) /\ (arc.target = Pack => into \in Seq(Entry1)) /\ Len(into) = n /\ Len(into) \in Nat
        /\ DOMAIN into = 1 .. n
    <3>1. made \in Depth2 /\ (arc.target = Pack => made \in Depth1)
      BY <1>1, <2>1 DEF ArcTypes
    <3>2. Len(into) = n
      BY <2>1 DEF MadeFits
    <3> HIDE DEF made, n
    <3> QED BY <3>1, <3>2, HasFacts, HasFacts1
  <2> DEFINE has == Append(into, entry)
             f == Packed("part", has)
  <2>8. /\ has \in Seq(Entry2) /\ (arc.target = Pack => has \in Seq(Entry1)) /\ Len(has) = n + 1
        /\ (\A k \in 1 .. n : has[k] = into[k]) /\ has[n + 1] = entry /\ DOMAIN has = 1 .. n + 1
    <3> HIDE DEF entry, into, n
    <3>1. Len(has) = n + 1 /\ (\A k \in 1 .. n : has[k] = into[k]) /\ has[n + 1] = entry
      BY <2>6, <2>7, AppendProperties
    <3>2. has \in Seq(Entry2) /\ (arc.target = Pack => has \in Seq(Entry1))
      BY <2>6, <2>7, AppendProperties
    <3> QED BY <3>1, <3>2, LenProperties
  <2>9. f \in Depth2 /\ (arc.target = Pack => f \in Depth1) /\ f.kind = "part" /\ f.has = has
    <3> HIDE DEF has
    <3> QED BY <2>8 DEF Packed, Depth1, Depth2, FileKinds, FileNames
  <2>a. PICK t \in Seq(Spots), e \in SUBSET Depth2 : t = Tail(arc.todo) /\ e = marks.emptied
    BY <2>2, <1>1 DEF ArcTypes
  <2>10. arc' = [arc EXCEPT !.pc = "add", !.todo = t]
         /\ shelf' = [shelf EXCEPT ![arc.target] = f] /\ marks' = [marks EXCEPT !.emptied = e]
    <3>1. arc' = [arc EXCEPT !.pc = "add", !.todo = t]
      BY <1>4, <1>1, <2>a DEF ArcTypes, ArcRecords
    <3>2. marks' = [marks EXCEPT !.emptied = e]
      BY <1>4, <1>1, <2>a DEF ArcTypes
    <3> QED BY <3>1, <3>2, <1>4
  <2> HIDE DEF f, has, entry, file, s, n, into
  <2>11. /\ ArcTypes' /\ ForeignIsNew' /\ UnpackFits' /\ HiddenFits' /\ FirstFits'
         /\ ItemsFit' /\ (arc'.jobs > 1 => ~OwnSource') /\ (OwnSource' <=> OwnSource)
         /\ (Undisturbed' <=> Undisturbed) /\ (Undisturbed' => \A i \in 1 .. Len(arc'.items) : Intact(i)')
         /\ arc'.pc = "add" /\ arc'.todo = Tail(arc.todo) /\ arc'.act = "pack" /\ arc'.target = arc.target
         /\ arc'.items = arc.items /\ arc'.wanted = arc.wanted /\ arc'.format = arc.format
         /\ arc'.skipped = {} /\ shelf'[arc.target] = f
         /\ (\A r \in Spots \ {arc.target} : shelf'[r] = shelf[r])
         /\ marks'.emptied = marks.emptied /\ marks'.begun = marks.begun /\ marks'.overruled = marks.overruled
         /\ marks'.swapped = marks.swapped /\ marks'.crowded = marks.crowded
    <3>1. arc.act = "pack" /\ arc.pc \in {"create", "add"} /\ "add" \in {"add", "ok"}
      BY <1>1
    <3>2. f \in Depth2 /\ (arc.target = Pack => f \in Depth1)
      BY <2>9
    <3>3. ArcTypes' /\ ForeignIsNew' /\ UnpackFits' /\ HiddenFits' /\ FirstFits'
      BY <3>1, <3>2, <2>10, PackWrites
    <3>4. /\ ItemsFit' /\ (arc'.jobs > 1 => ~OwnSource') /\ (OwnSource' <=> OwnSource)
          /\ (Undisturbed' <=> Undisturbed) /\ (Undisturbed' => \A i \in 1 .. Len(arc'.items) : Intact(i)')
      BY <3>1, <3>2, <2>10, PackWrites
    <3>5. /\ arc'.pc = "add" /\ arc'.todo = t /\ arc'.act = "pack" /\ arc'.target = arc.target
          /\ arc'.items = arc.items /\ arc'.wanted = arc.wanted /\ arc'.format = arc.format
          /\ arc'.skipped = {} /\ shelf'[arc.target] = f
          /\ \A r \in Spots \ {arc.target} : shelf'[r] = shelf[r]
      BY <3>1, <3>2, <2>10, PackWrites
    <3>6. marks'.emptied = e /\ marks'.begun = marks.begun /\ marks'.overruled = marks.overruled
         /\ marks'.swapped = marks.swapped /\ marks'.crowded = marks.crowded
      BY <3>1, <3>2, <2>10, PackWrites
    <3> QED BY <3>3, <3>4, <3>5, <3>6, <2>a
  <2>12. NoneMissing'
    <3>1. \A r \in Spots \ {arc.target} : Held(r) \subseteq OnShelf'
      BY <2>1, <2>11, HeldStays
    <3>2. \A g \in Held(arc.target) : g.kind = "file" => g \in OnShelf'
      <4> SUFFICES ASSUME NEW g \in Held(arc.target), g.kind = "file" PROVE g \in OnShelf'
        OBVIOUS
      <4>1. PICK k \in DOMAIN into : g = into[k].file
        BY <2>1 DEF Held, into
      <4>2. k \in DOMAIN has /\ g = has[k].file
        BY <4>1, <2>7, <2>8
      <4>3. shelf'[arc.target].has = has
        BY <2>11, <2>9
      <4>4. g \in Held(arc.target)'
        BY <4>2, <4>3, <2>11 DEF Held
      <4> QED BY <4>4, <2>1, <2>11 DEF OnShelf
    <3>3. NoneMissing
      BY DEF ArcInv
    <3> QED BY <3>1, <3>2, <3>3, <2>11, StillThere
  <2>13. OnlyCrowded'
    BY <2>11 DEF ArcInv, OnlyCrowded
  <2>14. MadeFits(Past(arc.items, arc.todo))'
    <3>1. Past(arc.items, arc.todo)' = n + 1 /\ shelf'[arc'.target].has = has
      BY <2>11, <2>2, <2>9
    <3>2. \A k \in 1 .. n + 1 : k \in 1 .. n \/ k = n + 1
      BY <2>2
    <3>3. entry.label = LabelOf(s) /\ entry.file = file
      BY DEF entry
    <3>4. \A k \in 1 .. n + 1 : has[k].label = LabelOf(arc.items[k])
      BY <3>2, <3>3, <2>1, <2>2, <2>8 DEF MadeFits, into
    <3>5. ASSUME Undisturbed PROVE \A k \in 1 .. n + 1 : has[k].file = arc.wanted[k]
      <4>1. s # arc.target
        <5>1. n + 1 \in DOMAIN arc.items
          BY <2>1, <2>2, LenProperties
        <5>2. s = Pack => OwnSource
          BY <5>1, <2>2 DEF OwnSource
        <5>3. s # Spare
          BY <2>3, SpotFacts
        <5> QED BY <5>2, <5>3, <2>1, <3>5 DEF Undisturbed
      <4>2. file = shelf[s]
        BY <4>1 DEF file
      <4>3. Intact(n + 1)
        BY <3>5, <2>1, <2>2
      <4>4. file = arc.wanted[n + 1]
        BY <4>2, <4>3, <2>2 DEF Intact
      <4>5. \A k \in 1 .. n : into[k].file = arc.wanted[k]
        BY <3>5, <2>1 DEF MadeFits, into
      <4> QED BY <3>2, <3>3, <4>4, <4>5, <2>8
    <3>6. ASSUME arc.format = "zip" PROVE Distinct(has)
      <4>1. \A k \in 1 .. n : into[k].label # LabelOf(s)
        BY <1>4, <3>6, <2>7 DEF full
      <4>2. \A j, k \in 1 .. n : into[j].label = into[k].label => j = k
        BY <3>6, <2>1, <2>7 DEF MadeFits, Distinct, into
      <4>3. \A j, k \in 1 .. n + 1 : has[j].label = has[k].label => j = k
        BY <4>1, <4>2, <3>2, <3>3, <2>8
      <4> QED BY <4>3, <2>8 DEF Distinct
    <3> QED BY <3>1, <3>4, <3>5, <3>6, <2>8, <2>11 DEF MadeFits
  <2>15. PackFits'
    <3>1. RestOf(arc.items, arc.todo)' /\ shelf'[arc'.target].kind = "part"
      BY <2>11, <2>2, <2>9
    <3>2. arc'.target \in {Pack, Spare} /\ arc'.todo \in Seq(Spots)
      BY <2>11, <2>1, <2>2
    <3> QED BY <3>1, <3>2, <2>14, <2>11 DEF PackFits
  <2>16. ArchivesTrue'
    BY <2>11 DEF ArchivesTrue
  <2> QED BY <2>11, <2>12, <2>13, <2>15, <2>16 DEF ArcInv
<1> QED BY <1>2, <1>3, <1>4 DEF PackAdd

LEMMA PackFinishKeeps == ASSUME ArcInv, PackFinish, arc.act = "pack" PROVE ArcInv'
<1>1. arc.pc = "add" /\ arc.pc \in Packing /\ ArcTypes /\ arc.todo = <<>>
  BY DEF PackFinish, Packing, ArcInv
<1> DEFINE made == shelf[arc.target]
           f == Packed("archive", made.has)
<1>2. /\ arc.target \in {Pack, Spare} /\ arc.target \in Spots /\ RestOf(arc.items, arc.todo) /\ arc.todo \in Seq(Spots)
      /\ arc.items \in Seq(Spots) /\ made.kind = "part" /\ MadeFits(Past(arc.items, arc.todo)) /\ ItemsFit
  BY <1>1, SpotFacts DEF PackFits, ArcInv, ArcTypes, ArcRecords
<1>3. f \in Depth2 /\ (arc.target = Pack => f \in Depth1) /\ f.kind = "archive" /\ f.has = made.has
      /\ DOMAIN made.has = 1 .. Len(made.has)
  <2>1. made \in Depth2 /\ (arc.target = Pack => made \in Depth1)
    BY <1>1, <1>2 DEF ArcTypes
  <2>2. made.has \in Seq(Entry2) /\ (arc.target = Pack => made.has \in Seq(Entry1)) /\ DOMAIN made.has = 1 .. Len(made.has)
    BY <2>1, HasFacts, HasFacts1
  <2> HIDE DEF made
  <2> QED BY <2>2 DEF Packed, Depth1, Depth2, FileKinds, FileNames
<1>a. PICK t \in Seq(Spots), e \in SUBSET Depth2 : t = arc.todo /\ e = marks.emptied
  BY <1>1, <1>2 DEF ArcTypes
<1>4. arc' = [arc EXCEPT !.pc = "ok", !.todo = t]
      /\ shelf' = [shelf EXCEPT ![arc.target] = f] /\ marks' = [marks EXCEPT !.emptied = e]
  <2>1. arc' = [arc EXCEPT !.pc = "ok", !.todo = t]
    BY <1>1, <1>a DEF PackFinish, Ends, ArcTypes, ArcRecords
  <2>2. marks' = [marks EXCEPT !.emptied = e]
    BY <1>1, <1>a DEF PackFinish, ArcTypes
  <2>3. shelf \in [Spots -> Depth2]
    BY <1>1 DEF ArcTypes
  <2> QED BY <2>1, <2>2, <2>3, <1>2 DEF PackFinish
<1> HIDE DEF f
<1>5. /\ ArcTypes' /\ ForeignIsNew' /\ UnpackFits' /\ HiddenFits' /\ FirstFits'
      /\ (OwnSource' <=> OwnSource) /\ (Undisturbed' <=> Undisturbed)
      /\ arc'.pc = "ok" /\ arc'.act = "pack" /\ arc'.target = arc.target
      /\ arc'.items = arc.items /\ arc'.wanted = arc.wanted /\ arc'.format = arc.format /\ arc'.sacks = arc.sacks
      /\ arc'.skipped = {} /\ shelf'[arc.target] = f
      /\ (\A r \in Spots \ {arc.target} : shelf'[r] = shelf[r])
      /\ marks'.emptied = marks.emptied /\ marks'.begun = marks.begun /\ marks'.overruled = marks.overruled
      /\ marks'.swapped = marks.swapped /\ marks'.crowded = marks.crowded /\ marks'.meddled = marks.meddled
  <2>1. arc.act = "pack" /\ arc.pc \in {"create", "add"} /\ "ok" \in {"add", "ok"}
    BY <1>1
  <2>2. f \in Depth2 /\ (arc.target = Pack => f \in Depth1)
    BY <1>3
  <2>3. /\ ArcTypes' /\ ForeignIsNew' /\ UnpackFits' /\ HiddenFits' /\ FirstFits'
        /\ (OwnSource' <=> OwnSource) /\ (Undisturbed' <=> Undisturbed)
    BY <2>1, <2>2, <1>4, PackWrites
  <2>4. /\ arc'.pc = "ok" /\ arc'.act = "pack" /\ arc'.target = arc.target
        /\ arc'.items = arc.items /\ arc'.wanted = arc.wanted /\ arc'.format = arc.format /\ arc'.sacks = arc.sacks
        /\ arc'.skipped = {} /\ shelf'[arc.target] = f
        /\ \A r \in Spots \ {arc.target} : shelf'[r] = shelf[r]
    BY <2>1, <2>2, <1>4, PackWrites
  <2>5. /\ marks'.emptied = e /\ marks'.begun = marks.begun /\ marks'.overruled = marks.overruled
        /\ marks'.swapped = marks.swapped /\ marks'.crowded = marks.crowded /\ marks'.meddled = marks.meddled
    BY <2>1, <2>2, <1>4, PackWrites
  <2> QED BY <2>3, <2>4, <2>5, <1>a
<1>6. NoneMissing'
  <2>1. \A r \in Spots \ {arc.target} : Held(r) \subseteq OnShelf'
    BY <1>2, <1>5, HeldStays
  <2>2. \A g \in Held(arc.target) : g.kind = "file" => g \in OnShelf'
    <3> SUFFICES ASSUME NEW g \in Held(arc.target), g.kind = "file" PROVE g \in OnShelf'
      OBVIOUS
    <3>1. PICK k \in DOMAIN made.has : g = made.has[k].file
      BY <1>2 DEF Held
    <3>2. shelf'[arc.target].has = made.has
      BY <1>5, <1>3
    <3>3. g \in Held(arc.target)'
      BY <3>1, <3>2, <1>5 DEF Held
    <3> QED BY <3>3, <1>2, <1>5 DEF OnShelf
  <2>3. NoneMissing
    BY DEF ArcInv
  <2> QED BY <2>1, <2>2, <2>3, <1>5, StillThere
<1>7. OnlyCrowded'
  BY <1>5 DEF ArcInv, OnlyCrowded
<1>8. PackFits'
  BY <1>5 DEF PackFits, Packing
<1>9. ArchivesTrue'
  <2> DEFINE m == Len(made.has)
  <2>1. m = Len(arc.items) /\ m = Len(arc.wanted) /\ DOMAIN arc.items = 1 .. m /\ DOMAIN arc.wanted = 1 .. m
        /\ (\A k \in 1 .. m : made.has[k].label = LabelOf(arc.items[k]))
        /\ (Undisturbed => \A k \in 1 .. m : made.has[k].file = arc.wanted[k])
        /\ (arc.format = "zip" => Distinct(made.has))
    <3>1. arc.wanted \in Seq(Depth2)
      BY <1>1 DEF ArcTypes, ArcRecords
    <3>2. Past(arc.items, arc.todo) = Len(arc.items)
      BY <1>1, <1>2, RestFacts
    <3> QED BY <3>1, <3>2, <1>2, LenProperties DEF MadeFits, ItemsFit
  <2>2. ASSUME Undisturbed
        PROVE  {made.has[k].file : k \in DOMAIN made.has} = {arc.wanted[k] : k \in DOMAIN arc.wanted}
    BY <2>1, <2>2, <1>3
  <2>3. ASSUME Cardinality(arc.sacks) = 1 PROVE Distinct(made.has)
    <3>1. arc.sacks \subseteq Sacks /\ IsFiniteSet(arc.sacks)
      BY <1>1, ArchiveConstants, FS_Subset DEF ArcTypes, ArcRecords
    <3>2. PICK x : arc.sacks = {x}
      BY <3>1, <2>3, FS_Singleton
    <3> SUFFICES ASSUME NEW j \in 1 .. m, NEW k \in 1 .. m, made.has[j].label = made.has[k].label
                 PROVE  j = k
      BY <1>3 DEF Distinct
    <3>3. LabelOf(arc.items[j]) = LabelOf(arc.items[k])
      BY <2>1
    <3>4. \A i \in 1 .. m : arc.items[i] = Pack \/ \E l \in Labels : arc.items[i] = <<x, l>>
      BY <3>2, <1>2, <2>1 DEF ItemsFit, SackSpots, Spot
    <3>5. \A l \in Labels : <<x, l>> # Pack => LabelOf(<<x, l>>) = l
      BY DEF LabelOf
    <3>6. arc.items[j] = arc.items[k]
      <4>1. LabelOf(Pack) = Pack
        BY DEF LabelOf
      <4>2. ASSUME NEW i \in 1 .. m
            PROVE  \/ arc.items[i] = Pack /\ LabelOf(arc.items[i]) = Pack
                   \/ arc.items[i] = <<x, LabelOf(arc.items[i])>> /\ LabelOf(arc.items[i]) \in Labels
        BY <3>4, <3>5, <4>1
      <4>3. Pack \notin Labels
        BY ArchiveConstants
      <4> QED BY <4>2, <4>3, <3>3
    <3> QED BY <3>6, <1>2, <2>1 DEF ItemsFit, IsInjective
  <2>4. f.kind = "archive" /\ f.has = made.has
    BY <1>3
  <2> HIDE DEF made, m
  <2>5. \/ marks.meddled
        \/ /\ ~(OwnSource /\ arc.target = Pack) =>
                {f.has[k].file : k \in DOMAIN f.has} = {arc.wanted[k] : k \in DOMAIN arc.wanted}
           /\ arc.format = "zip" \/ Cardinality(arc.sacks) = 1 => Readable(f)
    <3>1. arc.format = "zip" \/ Cardinality(arc.sacks) = 1 => Readable(f)
      BY <2>1, <2>3, <2>4 DEF Readable
    <3> QED BY <3>1, <2>2, <2>4 DEF Undisturbed
  <2>6. shelf'[arc'.target] = f /\ arc'.items = arc.items /\ (OwnSource' <=> OwnSource)
    BY <1>5
  <2>7. \/ marks'.meddled
        \/ /\ ~(OwnSource' /\ arc'.target = Pack) =>
                {f.has[k].file : k \in DOMAIN f.has} = {arc'.wanted[k] : k \in DOMAIN arc'.wanted}
           /\ arc'.format = "zip" \/ Cardinality(arc'.sacks) = 1 => Readable(f)
    <3>1. /\ arc'.target = arc.target /\ arc'.wanted = arc.wanted /\ arc'.format = arc.format
          /\ arc'.sacks = arc.sacks /\ marks'.meddled = marks.meddled /\ (OwnSource' <=> OwnSource)
      BY <1>5
    <3> QED BY <3>1, <2>5
  <2>8. arc'.act = "pack" /\ f.kind = "archive"
    BY <1>5, <2>4
  <2>9. Readable(shelf[arc.target])' <=> Readable(f)
    BY <2>6 DEF Readable, Distinct
  <2>10. {shelf'[arc'.target].has[k].file : k \in DOMAIN shelf'[arc'.target].has} = {f.has[k].file : k \in DOMAIN f.has}
    BY <2>6
  <2> QED BY <2>6, <2>7, <2>8, <2>9, <2>10 DEF ArchivesTrue
<1> QED BY <1>5, <1>6, <1>7, <1>8, <1>9 DEF ArcInv

-----------------------------------------------------------------------------
(* Unpacking.                                                               *)

\* The entries there are.
LEMMA EntryFacts ==
    ASSUME ArcInv, arc.act = "unpack", arc.pc \in Unpacking
    PROVE  /\ arc.print.has \in Seq(Entry1) /\ Len(arc.print.has) \in Nat
           /\ DOMAIN arc.print.has = 1 .. Len(arc.print.has) /\ arc.jobs # 0
           /\ \A k \in 1 .. Len(arc.print.has) :
                /\ E(k).label \in Labels /\ E(k).file \in Bare /\ E(k).file # NoFile
                /\ Goal(E(k)) \in OutSpots /\ FreeName(Goal(E(k))) \in OutSpots
           /\ \A j, k \in 1 .. Len(arc.print.has) : Goal(E(j)) = Goal(E(k)) => j = k
<1>1. arc.print \in Depth1
  BY DEF ArcInv, ArcTypes, ArcRecords
<1>2. /\ arc.print.has \in Seq(Entry1) /\ Len(arc.print.has) \in Nat
      /\ DOMAIN arc.print.has = 1 .. Len(arc.print.has)
      /\ \A k \in 1 .. Len(arc.print.has) : E(k).file \in Bare /\ (E(k).label # Pack => E(k).file # NoFile)
  BY <1>1, HasFacts1 DEF E
<1>3. Distinct(arc.print.has) /\ \A k \in 1 .. Len(arc.print.has) : E(k).label \in Labels
  BY DEF ArcInv, UnpackFits
<1>4. \A j, k \in 1 .. Len(arc.print.has) : Goal(E(j)) = Goal(E(k)) => j = k
  BY <1>2, <1>3, GoalsDiffer DEF Distinct, E
<1>5. \A k \in 1 .. Len(arc.print.has) : Goal(E(k)) \in OutSpots /\ FreeName(Goal(E(k))) \in OutSpots
  BY <1>3, GoalFacts
<1>6. arc.jobs # 0
  BY DEF ArcInv, FirstFits, Unpacking, Loading
<1>7. Pack \notin Labels
  BY ArchiveConstants
<1> QED BY <1>2, <1>3, <1>4, <1>5, <1>6, <1>7

\* The entry at hand.
LEMMA InHandFacts ==
    ASSUME ArcInv, arc.act = "unpack", arc.pc \in Loading
    PROVE  LET n == Past(arc.print.has, arc.todo) IN
           /\ n \in 0 .. Len(arc.print.has) /\ arc.todo \in Seq(Entry1) /\ RestOf(arc.print.has, arc.todo)
           /\ arc.todo # <<>> =>
                /\ n + 1 \in 1 .. Len(arc.print.has) /\ InHand = E(n + 1)
                /\ RestOf(arc.print.has, Tail(arc.todo)) /\ Past(arc.print.has, Tail(arc.todo)) = n + 1
                /\ Tail(arc.todo) \in Seq(Entry1)
           /\ arc.todo = <<>> => n = Len(arc.print.has)
<1>1. arc.pc \in Unpacking
  BY DEF Unpacking
<1>2. arc.print.has \in Seq(Entry1) /\ arc.todo \in Seq(Entry1) /\ RestOf(arc.print.has, arc.todo)
  BY <1>1, EntryFacts DEF ArcInv, UnpackFits
<1> QED BY <1>2, RestFacts DEF InHand, E

\* What is staged is still in the archive, unless that was exchanged.
LEMMA StagedIsPacked ==
    ASSUME ArcInv, arc.act = "unpack", arc.pc \in Loading, NEW k \in 1 .. Len(arc.print.has)
    PROVE  E(k).file \in Held(Pack) \/ E(k).file \in marks.swapped
<1>1. arc.pc \in Unpacking
  BY DEF Unpacking
<1>2. k \in DOMAIN arc.print.has
  BY <1>1, EntryFacts
<1>3. shelf[Pack] = arc.print \/ E(k).file \in marks.swapped
  BY <1>1 DEF ArcInv, UnpackFits
<1> QED BY <1>2, <1>3 DEF Held, E

\* Unpacking ends before its end, with what was staged removed.
LEMMA UnpackStops ==
    ASSUME ArcInv, arc.act = "unpack", arc.pc \in Unpacking, NEW p \in {"error", "cancelled", "crashed"},
           NEW K \in {arc.kept, {}}, arc' = [arc EXCEPT !.pc = p, !.kept = K], UNCHANGED marks, shelf' \in [Spots -> Depth2], \A s \in Spots \ {Staging} : shelf'[s] = shelf[s],
           \/ shelf' = shelf /\ (p = "crashed" \/ ~Is(Staging))
           \/ shelf'[Staging] = NoFile /\ arc.pc \in Loading,
           Is(Backup) => p \in {"error", "crashed"},
           K # {} => p = "crashed" \/ (p = "error" /\ Is(Backup))
    PROVE  ArcInv'
<1>1. p \in ArcPcs /\ ArcTypes /\ Pack \in Spots /\ Backup \in Spots /\ Staging \in Spots
      /\ Pack # Staging /\ Backup # Staging /\ Spare # Staging
  BY PackPcs, SpotFacts DEF ArcInv
<1>2. arc' \in ArcRecords(arc'.todo) /\ arc'.pc = p /\ arc'.act = "unpack" /\ arc'.kept = K
      /\ arc'.jobs = arc.jobs /\ arc'.rule = arc.rule /\ arc'.todo = arc.todo /\ arc'.print = arc.print
  <2>1. arc \in ArcRecords(arc.todo) /\ K \in SUBSET Spots
    BY <1>1 DEF ArcTypes, ArcRecords
  <2> QED BY <2>1, <1>1 DEF ArcRecords
<1>3. shelf'[Pack] = shelf[Pack] /\ shelf'[Backup] = shelf[Backup] /\ (\A s \in OutSpots : shelf'[s] = shelf[s])
  BY <1>1, SpotFacts
<1>4. shelf'[Staging] \in Bare
  BY <1>1, Bares DEF ArcTypes
<1>5. ArcTypes'
  BY <1>1, <1>2, <1>3, <1>4 DEF ArcTypes
<1>6. ForeignIsNew' /\ OnlyCrowded'
  BY DEF ArcInv, ForeignIsNew, OnlyCrowded
<1>7. PackFits' /\ UnpackFits' /\ ArchivesTrue'
  BY <1>2 DEF PackFits, UnpackFits, ArchivesTrue, Packing, Unpacking, Loading
<1>8. Is(Backup)' <=> Is(Backup)
  BY <1>3 DEF Is
<1>9. HiddenFits'
  <2>1. Is(Staging)' => p = "crashed"
    BY DEF Is
  <2> QED BY <1>2, <1>8, <2>1 DEF HiddenFits, Ended
<1>10. NoneMissing'
  <2>1. NoneMissing
    BY DEF ArcInv
  <2>2. \A s \in Spots \ {Staging} : Held(s) \subseteq OnShelf'
    BY HeldStays
  <2>3. ASSUME NEW f \in Held(Staging), f.kind = "file" PROVE f \in OnShelf' \/ f \in marks'.swapped
    <3>1. CASE shelf' = shelf
      BY <3>1, <1>1, HeldStays
    <3>2. CASE shelf'[Staging] = NoFile /\ arc.pc \in Loading
      <4>1. f = shelf[Staging]
        <5>1. shelf[Staging] \in Bare
          BY <1>1, SpotFacts DEF ArcTypes
        <5> QED BY <5>1, BareHeld
      <4>2. CASE Is(Staging)
        <5>1. arc.pc \in {"settle", "commit"}
          BY <4>2, <3>2 DEF ArcInv, HiddenFits, Loading
        <5>2. arc.todo # <<>> /\ f = InHand.file
          BY <5>1, <4>1, <1>1, <3>2 DEF ArcInv, UnpackFits
        <5>3. PICK k \in 1 .. Len(arc.print.has) : f = E(k).file
          BY <5>2, <3>2, InHandFacts
        <5> QED BY <5>3, <3>2, StagedIsPacked, <2>2, <1>1
      <4>3. CASE ~Is(Staging)
        BY <4>3, <4>1, <2>3, Bares DEF Is
      <4> QED BY <4>2, <4>3
    <3> QED BY <3>1, <3>2
  <2>4. \A s \in Spots : \A f \in Held(s) : f.kind = "file" => f \in OnShelf' \/ f \in marks'.swapped
    BY <2>2, <2>3
  <2> QED BY <2>1, <2>4, StillThere
<1>11. FirstFits'
  <2>1. arc.jobs # 0
    BY EntryFacts
  <2>2. Held(Pack)' = Held(Pack)
    BY <1>3 DEF Held
  <2>3. \A k : E(k)' = E(k)
    BY <1>2 DEF E
  <2>4. FirstFits
    BY DEF ArcInv
  <2>5. arc'.pc \notin Loading \cup {"open"}
    BY <1>2 DEF Loading
  <2>6. ASSUME arc.jobs = 1, arc.rule = "overwrite", NEW f \in marks.overruled, f.name \in OutSpots
        PROVE  \E k \in 1 .. Len(arc.print.has) : k <= Past(arc.print.has, arc.todo) /\ f = Plain(Goal(E(k))) /\ shelf'[Goal(E(k))] = E(k).file
    <3>1. PICK k \in 1 .. Len(arc.print.has) : k <= Past(arc.print.has, arc.todo) /\ f = Plain(Goal(E(k))) /\ shelf[Goal(E(k))] = E(k).file
      BY <2>4, <2>6 DEF FirstFits, OverwriteFits
    <3>2. Goal(E(k)) \in OutSpots
      BY <3>1, <2>6, Bares
    <3> QED BY <3>1, <3>2, <1>3
  <2>7. arc'.jobs = 1 /\ arc'.act = "unpack" /\ arc'.rule = "overwrite" =>
          \A f \in marks'.overruled : f.name \in OutSpots =>
               \E k \in 1 .. Len(arc'.print.has) : k <= Past(arc'.print.has, arc'.todo) /\ f = Plain(Goal(E(k)')) /\ shelf'[Goal(E(k)')] = E(k)'.file
    BY <2>6, <2>3, <1>2
  <2>8. /\ arc.jobs = 0 \/ (arc.act = "unpack" /\ arc.jobs = 1) =>
                  \A f \in Held(Pack) \cup marks.swapped : f.name \notin OutSpots
        /\ arc.jobs = 1 /\ arc.rule # "overwrite" => marks.overruled = {}
    BY <2>4 DEF FirstFits, OverwriteFits
  <2> QED BY <2>1, <2>2, <2>5, <2>7, <2>8, <1>2 DEF FirstFits, OverwriteFits, E, Past, Loading
<1> QED BY <1>5, <1>6, <1>7, <1>9, <1>10, <1>11 DEF ArcInv

LEMMA UnpackEnds ==
    ASSUME ArcInv, arc.act = "unpack", arc.pc \in Unpacking, NEW p \in {"error", "cancelled", "crashed"}, Ends(p),
           UNCHANGED marks, shelf' \in [Spots -> Depth2], \A s \in Spots \ {Staging} : shelf'[s] = shelf[s],
           \/ shelf' = shelf /\ (p = "crashed" \/ ~Is(Staging))
           \/ shelf'[Staging] = NoFile /\ arc.pc \in Loading,
           Is(Backup) => p \in {"error", "crashed"},
           arc.kept # {} => p = "crashed" \/ (p = "error" /\ Is(Backup))
    PROVE  ArcInv'
<1>1. arc' = [arc EXCEPT !.pc = p, !.kept = arc.kept]
  BY DEF Ends, ArcInv, ArcTypes, ArcRecords
<1>2. PICK K \in {arc.kept, {}} : K = arc.kept
  OBVIOUS
<1>3. arc' = [arc EXCEPT !.pc = p, !.kept = K] /\ (K # {} => p = "crashed" \/ (p = "error" /\ Is(Backup)))
  BY <1>1, <1>2
<1> QED BY <1>3, UnpackStops

\* A step of unpacking that goes on.
LEMMA LoadFrame ==
    ASSUME ArcInv, arc.act = "unpack", arc.pc \in Unpacking, arc' \in ArcRecords(arc'.todo), arc'.act = "unpack",
           arc'.jobs = arc.jobs, arc'.rule = arc.rule, arc'.print = arc.print,
           shelf' \in [Spots -> Depth2], shelf'[Pack] = shelf[Pack], \A s \in Spots \ {Pack, Spare} : shelf'[s] \in Bare,
           marks' \in [begun : SUBSET Depth2, overruled : SUBSET Depth2, emptied : SUBSET Depth2,
                       swapped : SUBSET Depth2, meddled : BOOLEAN, crowded : BOOLEAN],
           marks'.begun = marks.begun, marks'.swapped = marks.swapped, marks'.meddled = marks.meddled,
           arc.rule # "overwrite" => marks'.overruled = marks.overruled
    PROVE  /\ ArcTypes' /\ ForeignIsNew' /\ PackFits' /\ (OverwriteFits' => FirstFits')
           /\ \A k : E(k)' = E(k)
           /\ Distinct(arc.print.has)' /\ \A k \in 1 .. Len(arc'.print.has) : E(k)'.label \in Labels
           /\ arc.pc \in Loading => shelf'[Pack] = arc'.print \/ \A k \in 1 .. Len(arc'.print.has) : E(k)'.file \in marks'.swapped
<1>1. ArcTypes' /\ ForeignIsNew'
  BY DEF ArcInv, ArcTypes, ForeignIsNew
<1>2. PackFits'
  BY DEF PackFits
<1>3. \A k : E(k)' = E(k)
  BY DEF E
<1>4. Distinct(arc.print.has)' /\ \A k \in 1 .. Len(arc'.print.has) : E(k)'.label \in Labels
  BY <1>3 DEF ArcInv, UnpackFits, Distinct
<1>5. arc.pc \in Loading => shelf'[Pack] = arc'.print \/ \A k \in 1 .. Len(arc'.print.has) : E(k)'.file \in marks'.swapped
  BY <1>3 DEF ArcInv, UnpackFits
<1>6. OverwriteFits' => FirstFits'
  <2>1. Held(Pack)' = Held(Pack)
    BY DEF Held
  <2>2. arc.jobs # 0
    BY EntryFacts
  <2> QED BY <2>1, <2>2 DEF ArcInv, FirstFits
<1> QED BY <1>1, <1>2, <1>3, <1>4, <1>5, <1>6

\* The policy to overwrite has removed nothing more.
LEMMA NothingOverruled ==
    ASSUME ArcInv, arc.act = "unpack", arc.pc \in {"entry", "stage", "settle"}, arc'.act = "unpack",
           arc'.jobs = arc.jobs, arc'.rule = arc.rule, arc'.print = arc.print,
           \A s \in OutSpots : shelf'[s] = shelf[s], marks'.overruled = marks.overruled,
           arc'.pc \in {"ok", "entry", "stage", "settle", "commit"}, arc'.pc = "commit" => arc'.kept = {},
           arc'.todo = arc.todo \/ arc.rule # "overwrite"
    PROVE  OverwriteFits'
<1> SUFFICES ASSUME arc.jobs = 1, arc.rule = "overwrite"
             PROVE  OverwriteFits'
  BY DEF OverwriteFits
<1>1. arc.pc \in Unpacking /\ arc.pc \in Loading /\ arc.pc # "drop"
  BY DEF Unpacking, Loading
<1>2. OverwriteFits
  BY DEF ArcInv, FirstFits
<1>3. \A k : E(k)' = E(k)
  BY DEF E
<1>4. arc'.todo = arc.todo /\ Past(arc.print.has, arc.todo)' = Past(arc.print.has, arc.todo)
  BY DEF Past
<1>5. ASSUME NEW f \in marks'.overruled, f.name \in OutSpots
      PROVE  \E k \in 1 .. Len(arc.print.has) : k <= Past(arc.print.has, arc.todo) /\ f = Plain(Goal(E(k))) /\ shelf'[Goal(E(k))] = E(k).file
  <2>1. PICK k \in 1 .. Len(arc.print.has) : k <= Past(arc.print.has, arc.todo) /\ f = Plain(Goal(E(k))) /\ shelf[Goal(E(k))] = E(k).file
    BY <1>2, <1>5 DEF OverwriteFits
  <2>2. Goal(E(k)) \in OutSpots
    BY <2>1, <1>5, Bares
  <2> QED BY <2>1, <2>2
<1>6. ASSUME NEW k \in Past(arc.print.has, arc.todo) + 1 .. Len(arc.print.has) PROVE OwnName(Goal(E(k)))'
  <2>1. OwnName(Goal(E(k)))
    BY <1>1, <1>2 DEF OverwriteFits
  <2>2. k \in 1 .. Len(arc.print.has)
    BY <1>1, InHandFacts, EntryFacts
  <2>3. Goal(E(k)) \in OutSpots
    BY <1>1, <2>2, EntryFacts
  <2>4. shelf'[Goal(E(k))] = shelf[Goal(E(k))]
    BY <2>3
  <2> QED BY <2>1, <2>4, <1>3 DEF OwnName, Goal
<1>7. \A k \in Past(arc'.print.has, arc'.todo) + 1 .. Len(arc'.print.has) : OwnName(Goal(E(k)))'
  BY <1>6, <1>4 DEF Past
<1>8. \A f \in marks'.overruled : f.name \in OutSpots =>
        \E k \in 1 .. Len(arc'.print.has) : k <= Past(arc'.print.has, arc'.todo) /\ f = Plain(Goal(E(k)')) /\ shelf'[Goal(E(k)')] = E(k)'.file
  BY <1>5, <1>4, <1>3
<1> QED BY <1>7, <1>8 DEF OverwriteFits, Goal

LEMMA UnpackPcs == \A p \in {"open", "entry", "stage", "settle", "commit", "drop", "ok", "error"} : p \in ArcPcs
  BY DEF ArcPcs, Unpacking, Loading, Resting, Ended

LEMMA PlanUnpackKeeps == ASSUME ArcInv, PlanUnpack PROVE ArcInv'
<1>1. /\ CanBegin /\ Readable(shelf[Pack]) /\ UNCHANGED <<shelf, marks>>
      /\ \A k \in DOMAIN shelf[Pack].has : shelf[Pack].has[k].label \in Labels
  BY DEF PlanUnpack
<1>2. PICK rule \in ArcRules :
        arc' = [arc EXCEPT !.pc = "open", !.jobs = @ + 1, !.act = "unpack", !.rule = rule, !.print = shelf[Pack],
                           !.todo = <<>>, !.items = <<>>, !.wanted = <<>>, !.skipped = {}, !.cancel = FALSE,
                           !.clash = \E k \in DOMAIN shelf[Pack].has : Is(Goal(shelf[Pack].has[k]))]
  BY DEF PlanUnpack
<1>3. PICK b \in BOOLEAN : b = \E k \in DOMAIN shelf[Pack].has : Is(Goal(shelf[Pack].has[k]))
  OBVIOUS
<1>4. arc \in ArcRecords(arc.todo) /\ arc.jobs \in Nat
  BY DEF ArcInv, ArcTypes, ArcRecords
<1>5. PICK j \in Nat : j = arc.jobs + 1
  BY <1>4
<1>6. arc' = [arc EXCEPT !.pc = "open", !.jobs = j, !.act = "unpack", !.rule = rule, !.print = shelf[Pack],
                         !.todo = <<>>, !.items = <<>>, !.wanted = <<>>, !.skipped = {}, !.cancel = FALSE, !.clash = b]
  BY <1>2, <1>3, <1>5
<1>7. shelf[Pack] \in Depth1 /\ "open" \in ArcPcs /\ rule \in ArcPolicy
      /\ <<>> \in Seq(Spots) /\ <<>> \in Seq(Depth2)
  BY UnpackPcs, ArchiveConstants DEF ArcInv, ArcTypes, ArcPolicy
<1>8. arc' \in ArcRecords(arc'.todo) /\ arc'.pc = "open" /\ arc'.act = "unpack" /\ arc'.print = shelf[Pack]
      /\ arc'.kept = arc.kept /\ arc'.jobs = arc.jobs + 1 /\ arc'.rule = rule
  BY <1>4, <1>5, <1>6, <1>7 DEF ArcRecords
<1>9. ArcTypes'
  BY <1>1, <1>8 DEF ArcInv, ArcTypes
<1>10. ForeignIsNew' /\ NoneMissing' /\ OnlyCrowded'
  BY <1>1, QuietStep
<1>11. arc.kept = {} /\ ~Is(Staging)' /\ ~Is(Backup)'
  BY <1>1 DEF CanBegin, Is, ArcInv, HiddenFits, Ended
<1>12. PackFits' /\ HiddenFits' /\ ArchivesTrue'
  BY <1>8, <1>11 DEF PackFits, HiddenFits, ArchivesTrue, Unpacking
<1>13. UnpackFits'
  <2>1. DOMAIN shelf[Pack].has = 1 .. Len(shelf[Pack].has)
    BY <1>7, HasFacts1
  <2>2. Distinct(shelf[Pack].has) /\ \A k \in 1 .. Len(shelf[Pack].has) : shelf[Pack].has[k].label \in Labels
    BY <2>1, <1>1 DEF Readable
  <2>3. Distinct(arc.print.has)' /\ \A k \in 1 .. Len(arc'.print.has) : E(k)'.label \in Labels
    BY <2>2, <1>8 DEF Distinct, E
  <2> QED BY <2>3, <1>8 DEF UnpackFits, Loading
<1>14. FirstFits'
  <2>1. arc'.jobs # 0 /\ (arc'.jobs = 1 => arc.jobs = 0)
    BY <1>8, <1>4
  <2>2. FirstFits
    BY DEF ArcInv
  <2>3. ASSUME arc'.jobs = 1
        PROVE  /\ marks'.overruled = {} /\ (\A s \in OutSpots : OwnName(s)')
               /\ \A f \in Held(Pack)' \cup marks'.swapped : f.name \notin OutSpots
    BY <2>1, <2>2, <2>3, <1>1, QuietStep DEF FirstFits
  <2>4. arc'.pc = "open"
    BY <1>8
  <2> QED BY <2>1, <2>3, <2>4 DEF FirstFits, OverwriteFits, Loading
<1> QED BY <1>9, <1>10, <1>12, <1>13, <1>14 DEF ArcInv

LEMMA UnpackOpenKeeps == ASSUME ArcInv, UnpackOpen, arc.act = "unpack" PROVE ArcInv'
<1>1. arc.pc = "open" /\ arc.pc \in Unpacking /\ UNCHANGED <<shelf, marks>> /\ ArcTypes
  BY DEF UnpackOpen, Unpacking, ArcInv
<1>2. shelf \in [Spots -> Depth2] /\ ~Is(Staging) /\ ~Is(Backup) /\ arc.kept = {}
  BY <1>1 DEF ArcTypes, HiddenFits, ArcInv
<1>3. CASE arc' = [arc EXCEPT !.pc = "error"]
  <2>1. Ends("error")
    BY <1>3 DEF Ends
  <2> QED BY <2>1, <1>1, <1>2, UnpackEnds
<1>4. CASE shelf[Pack] = arc.print /\ arc' = [arc EXCEPT !.pc = "entry", !.todo = arc.print.has]
  <2>1. arc' \in ArcRecords(arc'.todo) /\ arc'.pc = "entry" /\ arc'.todo = arc.print.has /\ arc'.act = "unpack"
        /\ arc'.jobs = arc.jobs /\ arc'.rule = arc.rule /\ arc'.print = arc.print /\ arc'.kept = {}
    BY <1>4, <1>1, <1>2, UnpackPcs DEF ArcTypes, ArcRecords
  <2>2. shelf' = shelf /\ marks' = marks
    BY <1>1
  <2>3. /\ ArcTypes' /\ ForeignIsNew' /\ PackFits' /\ (OverwriteFits' => FirstFits') /\ (\A k : E(k)' = E(k))
        /\ Distinct(arc.print.has)' /\ \A k \in 1 .. Len(arc'.print.has) : E(k)'.label \in Labels
    <3>1. ArcInv /\ arc.act = "unpack"
      OBVIOUS
    <3> QED BY <3>1, <1>1, <2>1, <2>2, LoadFrame DEF ArcTypes
  <2>4. NoneMissing' /\ OnlyCrowded'
    BY <1>1, QuietStep
  <2>5. HiddenFits' /\ ArchivesTrue'
    BY <2>1, <2>2, <1>2 DEF HiddenFits, ArchivesTrue, Is, Unpacking, Loading
  <2>6. arc.print.has \in Seq(Entry1) /\ RestOf(arc.print.has, arc.print.has) /\ Past(arc.print.has, arc.print.has) = 0
        /\ Len(arc.print.has) \in Nat /\ \A k \in 1 .. Len(arc.print.has) : Goal(E(k)) \in OutSpots
    BY <1>1, EntryFacts, RestAll
  <2>7. Past(arc.print.has, arc.todo)' = 0 /\ RestOf(arc.print.has, arc.todo)'
    BY <2>1, <2>6
  <2>8. UnpackFits'
    BY <2>1, <2>2, <2>3, <2>6, <2>7, <1>4 DEF UnpackFits
  <2>9. OverwriteFits'
    <3> SUFFICES ASSUME arc.jobs = 1, arc.rule = "overwrite" PROVE OverwriteFits'
      BY <2>1 DEF OverwriteFits
    <3>1. marks.overruled = {} /\ \A s \in OutSpots : OwnName(s)
      BY <1>1 DEF ArcInv, FirstFits, OverwriteFits
    <3>2. \A k \in 1 .. Len(arc.print.has) : OwnName(Goal(E(k)))'
      BY <3>1, <2>2, <2>3, <2>6 DEF OwnName, Goal
    <3> QED BY <3>1, <3>2, <2>1, <2>2, <2>6, <2>7 DEF OverwriteFits
  <2> QED BY <2>3, <2>4, <2>5, <2>8, <2>9 DEF ArcInv
<1> QED BY <1>3, <1>4 DEF UnpackOpen

\* A step that changes nothing but the operation, and goes on with the entries.
LEMMA LoadQuiet ==
    ASSUME ArcInv, arc.act = "unpack", arc.pc \in Loading, UNCHANGED <<shelf, marks>>,
           arc' \in ArcRecords(arc'.todo), arc'.act = "unpack",
           arc'.jobs = arc.jobs, arc'.rule = arc.rule, arc'.print = arc.print
    PROVE  /\ ArcTypes' /\ ForeignIsNew' /\ PackFits' /\ NoneMissing' /\ OnlyCrowded'
           /\ (OverwriteFits' => FirstFits') /\ \A k : E(k)' = E(k)
           /\ Distinct(arc.print.has)' /\ \A k \in 1 .. Len(arc'.print.has) : E(k)'.label \in Labels
           /\ shelf'[Pack] = arc'.print \/ \A k \in 1 .. Len(arc'.print.has) : E(k)'.file \in marks'.swapped
<1>1. arc.pc \in Unpacking
  BY DEF Unpacking
<1>2. NoneMissing' /\ OnlyCrowded'
  BY QuietStep
<1>3. ArcTypes /\ shelf' = shelf /\ marks' = marks
  BY DEF ArcInv
<1>4. /\ shelf' \in [Spots -> Depth2] /\ shelf'[Pack] = shelf[Pack] /\ \A s \in Spots \ {Pack, Spare} : shelf'[s] \in Bare
      /\ marks' \in [begun : SUBSET Depth2, overruled : SUBSET Depth2, emptied : SUBSET Depth2,
                       swapped : SUBSET Depth2, meddled : BOOLEAN, crowded : BOOLEAN]
      /\ marks'.begun = marks.begun /\ marks'.swapped = marks.swapped /\ marks'.meddled = marks.meddled
      /\ (arc.rule # "overwrite" => marks'.overruled = marks.overruled)
  BY <1>3 DEF ArcTypes
<1>5. /\ ArcTypes' /\ ForeignIsNew' /\ PackFits' /\ (OverwriteFits' => FirstFits')
      /\ (\A k : E(k)' = E(k))
  BY <1>1, <1>4, LoadFrame
<1>6. /\ Distinct(arc.print.has)' /\ \A k \in 1 .. Len(arc'.print.has) : E(k)'.label \in Labels
      /\ arc.pc \in Loading => shelf'[Pack] = arc'.print \/ \A k \in 1 .. Len(arc'.print.has) : E(k)'.file \in marks'.swapped
  BY <1>1, <1>4, LoadFrame
<1> QED BY <1>2, <1>5, <1>6

LEMMA UnpackEntryKeeps == ASSUME ArcInv, UnpackEntry, arc.act = "unpack" PROVE ArcInv'
<1> DEFINE n == Past(arc.print.has, arc.todo)
           s == Goal(InHand)
<1>1. arc.pc = "entry" /\ arc.pc \in Unpacking /\ arc.pc \in Loading /\ UNCHANGED <<shelf, marks>> /\ ArcTypes
      /\ arc \in ArcRecords(arc.todo)
  BY DEF UnpackEntry, Unpacking, Loading, ArcInv, ArcTypes
<1>2. ~Is(Staging) /\ ~Is(Backup) /\ arc.kept = {} /\ shelf \in [Spots -> Depth2]
  BY <1>1 DEF ArcInv, HiddenFits, ArcTypes
<1>3. /\ n \in 0 .. Len(arc.print.has) /\ arc.todo \in Seq(Entry1) /\ RestOf(arc.print.has, arc.todo)
      /\ arc.todo # <<>> =>
           /\ n + 1 \in 1 .. Len(arc.print.has) /\ InHand = E(n + 1)
           /\ RestOf(arc.print.has, Tail(arc.todo)) /\ Past(arc.print.has, Tail(arc.todo)) = n + 1
           /\ Tail(arc.todo) \in Seq(Entry1)
      /\ arc.todo = <<>> => n = Len(arc.print.has)
  BY <1>1, InHandFacts
<1>4. \A k \in 1 .. n : Placed_(k)
  BY <1>1 DEF ArcInv, UnpackFits
<1>5. /\ Len(arc.print.has) \in Nat /\ DOMAIN arc.print.has = 1 .. Len(arc.print.has)
      /\ \A k \in 1 .. Len(arc.print.has) : Goal(E(k)) \in Spots /\ FreeName(Goal(E(k))) \in Spots
  BY <1>1, EntryFacts, SpotFacts
<1> HIDE DEF n
<1>6. CASE Ends("error") \/ Ends("cancelled")
  <2>1. PICK p \in {"error", "cancelled"} : Ends(p)
    BY <1>6
  <2> QED BY <2>1, <1>1, <1>2, UnpackEnds
<1>7. CASE arc.todo = <<>> /\ Ends("ok")
  <2>1. arc' \in ArcRecords(arc'.todo) /\ arc'.pc = "ok" /\ arc'.act = "unpack" /\ arc'.jobs = arc.jobs
        /\ arc'.rule = arc.rule /\ arc'.print = arc.print /\ arc'.kept = arc.kept /\ arc'.todo = arc.todo
        /\ arc'.skipped = arc.skipped
    BY <1>7, <1>1, UnpackPcs, EndsFacts
  <2>2. /\ ArcTypes' /\ ForeignIsNew' /\ PackFits' /\ NoneMissing' /\ OnlyCrowded'
        /\ (OverwriteFits' => FirstFits') /\ \A k : E(k)' = E(k)
    BY <2>1, <1>1, LoadQuiet
  <2>3. UnpackFits' /\ HiddenFits'
    BY <2>1, <1>1, <1>2 DEF UnpackFits, HiddenFits, Is, Unpacking, Loading, Ended
  <2>4. OverwriteFits'
    <3>1. ArcInv /\ arc.act = "unpack" /\ arc.pc \in {"entry", "stage", "settle"}
          /\ arc'.pc \in {"ok", "entry", "stage", "settle", "commit"} /\ arc'.pc # "commit"
      BY <1>1, <2>1
    <3> QED BY <3>1, <2>1, <1>1, NothingOverruled
  <2>5. ArchivesTrue'
    <3>1. \A k \in DOMAIN arc.print.has : Placed_(k) /\ E(k) = arc.print.has[k]
      BY <1>3, <1>4, <1>5, <1>7 DEF E
    <3>2. ASSUME NEW k \in DOMAIN arc.print.has
          PROVE  \/ shelf[Goal(arc.print.has[k])] = arc.print.has[k].file
                 \/ arc.rule = "renameNew" /\ shelf[FreeName(Goal(arc.print.has[k]))] = arc.print.has[k].file
                 \/ Goal(arc.print.has[k]) \in arc.skipped /\ arc.rule = "skip"
      <4>1. PICK e : e = arc.print.has[k]
        OBVIOUS
      <4>2. Placed_(k) /\ E(k) = e
        BY <3>1, <4>1
      <4>3. \/ shelf[Goal(e)] = e.file
            \/ arc.rule = "renameNew" /\ shelf[FreeName(Goal(e))] = e.file
            \/ Goal(e) \in arc.skipped /\ arc.rule = "skip"
        BY <4>2 DEF Placed_
      <4> QED BY <4>1, <4>3
    <3> QED BY <3>2, <2>1, <1>1 DEF ArchivesTrue
  <2> QED BY <2>2, <2>3, <2>4, <2>5 DEF ArcInv
<1>8. CASE arc.todo # <<>> /\ arc.rule = "skip" /\ arc' = [arc EXCEPT !.todo = Tail(@), !.skipped = @ \cup {s}]
  <2>1. s \in Spots /\ s = Goal(E(n + 1))
    BY <1>8, <1>3, <1>5
  <2>2. arc.skipped \cup {s} \in SUBSET Spots
    BY <2>1, <1>1 DEF ArcRecords
  <2>3. PICK S \in SUBSET Spots : S = arc.skipped \cup {s}
    BY <2>2
  <2>4. arc' = [arc EXCEPT !.todo = Tail(arc.todo), !.skipped = S]
    BY <1>8, <2>3
  <2>5. arc' \in ArcRecords(arc'.todo) /\ arc'.pc = "entry" /\ arc'.act = "unpack" /\ arc'.jobs = arc.jobs
        /\ arc'.rule = arc.rule /\ arc'.print = arc.print /\ arc'.kept = arc.kept /\ arc'.todo = Tail(arc.todo)
        /\ arc'.skipped = S
    BY <2>4, <1>1 DEF ArcRecords
  <2>6. /\ ArcTypes' /\ ForeignIsNew' /\ PackFits' /\ NoneMissing' /\ OnlyCrowded'
        /\ (OverwriteFits' => FirstFits') /\ (\A k : E(k)' = E(k))
    BY <2>5, <1>1, LoadQuiet
  <2>a. /\ Distinct(arc.print.has)' /\ \A k \in 1 .. Len(arc'.print.has) : E(k)'.label \in Labels
        /\ shelf'[Pack] = arc'.print \/ \A k \in 1 .. Len(arc'.print.has) : E(k)'.file \in marks'.swapped
    BY <2>5, <1>1, LoadQuiet
  <2>7. HiddenFits' /\ ArchivesTrue'
    BY <2>5, <1>1, <1>2 DEF HiddenFits, Is, Unpacking, Loading, Ended, ArchivesTrue
  <2>8. OverwriteFits'
    BY <2>5, <1>8 DEF OverwriteFits
  <2>9. \A k \in 1 .. n + 1 : Placed_(k)'
    <3> SUFFICES ASSUME NEW k \in 1 .. n + 1 PROVE Placed_(k)'
      OBVIOUS
    <3>1. CASE k \in 1 .. n
      <4>1. Placed_(k)
        BY <3>1, <1>4
      <4> QED BY <4>1, <2>3, <2>5, <2>6, <1>1 DEF Placed_, Goal, FreeName
    <3>2. CASE k = n + 1
      BY <3>2, <2>1, <2>3, <2>5, <2>6, <1>8 DEF Placed_, Goal
    <3> QED BY <3>1, <3>2, <1>3, <1>5
  <2>10. UnpackFits'
    <3>1. Past(arc.print.has, arc.todo)' = n + 1 /\ RestOf(arc.print.has, arc.todo)' /\ arc'.todo \in Seq(Entry1)
      BY <2>5, <1>3, <1>8
    <3> QED BY <3>1, <2>a, <2>5, <2>9 DEF UnpackFits
  <2> QED BY <2>6, <2>7, <2>8, <2>10 DEF ArcInv
<1>9. ASSUME arc.todo # <<>>, NEW t, arc' = [arc EXCEPT !.pc = "stage", !.target = t],
             t = s \/ (arc.rule = "renameNew" /\ t = FreeName(s))
      PROVE  ArcInv'
  <2>1. t \in Spots /\ s = Goal(E(n + 1))
    BY <1>9, <1>3, <1>5
  <2>2. arc' \in ArcRecords(arc'.todo) /\ arc'.pc = "stage" /\ arc'.act = "unpack" /\ arc'.jobs = arc.jobs
        /\ arc'.rule = arc.rule /\ arc'.print = arc.print /\ arc'.kept = arc.kept /\ arc'.todo = arc.todo
        /\ arc'.skipped = arc.skipped /\ arc'.target = t
    BY <1>9, <2>1, <1>1, UnpackPcs DEF ArcRecords
  <2>3. /\ ArcTypes' /\ ForeignIsNew' /\ PackFits' /\ NoneMissing' /\ OnlyCrowded'
        /\ (OverwriteFits' => FirstFits') /\ (\A k : E(k)' = E(k))
    BY <2>2, <1>1, LoadQuiet
  <2>a. /\ Distinct(arc.print.has)' /\ \A k \in 1 .. Len(arc'.print.has) : E(k)'.label \in Labels
        /\ shelf'[Pack] = arc'.print \/ \A k \in 1 .. Len(arc'.print.has) : E(k)'.file \in marks'.swapped
    BY <2>2, <1>1, LoadQuiet
  <2>4. HiddenFits' /\ ArchivesTrue'
    BY <2>2, <1>1, <1>2 DEF HiddenFits, Is, Unpacking, Loading, Ended, ArchivesTrue
  <2>5. OverwriteFits'
    <3>1. ArcInv /\ arc.act = "unpack" /\ arc.pc \in {"entry", "stage", "settle"}
          /\ arc'.pc \in {"ok", "entry", "stage", "settle", "commit"} /\ arc'.pc # "commit"
      BY <1>1, <2>2
    <3> QED BY <3>1, <2>2, <1>1, NothingOverruled
  <2>6. \A k \in 1 .. n : Placed_(k)'
    <3> SUFFICES ASSUME NEW k \in 1 .. n PROVE Placed_(k)'
      OBVIOUS
    <3>1. Placed_(k)
      BY <1>4
    <3> QED BY <3>1, <2>2, <2>3, <1>1 DEF Placed_, Goal, FreeName
  <2>7. UnpackFits'
    <3>1. Past(arc.print.has, arc.todo)' = n /\ RestOf(arc.print.has, arc.todo)' /\ arc'.todo \in Seq(Entry1)
      BY <2>2, <1>3 DEF n
    <3>2. InHand' = InHand
      BY <2>2 DEF InHand
    <3>3. arc'.target = Goal(InHand)' \/ (arc'.rule = "renameNew" /\ arc'.target = FreeName(Goal(InHand))')
      BY <3>2, <2>2, <1>9 DEF Goal, FreeName
    <3> QED BY <3>1, <3>3, <2>a, <2>2, <2>6, <1>9 DEF UnpackFits
  <2> QED BY <2>3, <2>4, <2>5, <2>7 DEF ArcInv
<1>10. CASE arc.todo = <<>>
  BY <1>10, <1>1, <1>7 DEF UnpackEntry
<1>11. CASE arc.todo # <<>>
  <2> HIDE DEF s
  <2>1. \/ Ends("error") \/ Ends("cancelled")
        \/ arc.rule = "skip" /\ arc' = [arc EXCEPT !.todo = Tail(@), !.skipped = @ \cup {s}]
        \/ arc.rule = "renameNew" /\ arc' = [arc EXCEPT !.pc = "stage", !.target = FreeName(s)]
        \/ arc' = [arc EXCEPT !.pc = "stage", !.target = s]
    BY <1>11 DEF UnpackEntry, s, InHand
  <2> QED BY <2>1, <1>6, <1>8, <1>9, <1>11
<1> QED BY <1>10, <1>11

\* What the points after the staging file have in common.
LEMMA TargetFacts ==
    ASSUME ArcInv, arc.act = "unpack", arc.pc \in Loading \ {"entry"}
    PROVE  /\ arc.todo # <<>> /\ arc.target \in OutSpots /\ Goal(InHand) \in OutSpots
           /\ FreeName(Goal(InHand)) \in OutSpots /\ InHand.file \in Bare /\ InHand.file # NoFile
           /\ arc.target = Goal(InHand) \/ (arc.rule = "renameNew" /\ arc.target = FreeName(Goal(InHand)))
<1>1. arc.pc \in Loading /\ arc.pc \in Unpacking
  BY DEF Unpacking
<1>2. arc.todo # <<>> /\ (arc.target = Goal(InHand) \/ (arc.rule = "renameNew" /\ arc.target = FreeName(Goal(InHand))))
  BY <1>1 DEF ArcInv, UnpackFits
<1>3. Past(arc.print.has, arc.todo) + 1 \in 1 .. Len(arc.print.has) /\ InHand = E(Past(arc.print.has, arc.todo) + 1)
  BY <1>1, <1>2, InHandFacts
<1>4. Goal(InHand) \in OutSpots /\ FreeName(Goal(InHand)) \in OutSpots /\ InHand.file \in Bare /\ InHand.file # NoFile
  BY <1>1, <1>3, EntryFacts
<1> QED BY <1>2, <1>4

LEMMA UnpackStageKeeps == ASSUME ArcInv, UnpackStage, arc.act = "unpack" PROVE ArcInv'
<1> DEFINE n == Past(arc.print.has, arc.todo)
<1>1. arc.pc = "stage" /\ arc.pc \in Unpacking /\ arc.pc \in Loading /\ UNCHANGED marks /\ ArcTypes
      /\ arc \in ArcRecords(arc.todo) /\ arc.pc \in Loading \ {"entry"}
  BY DEF UnpackStage, Unpacking, Loading, ArcInv, ArcTypes
<1>2. ~Is(Staging) /\ ~Is(Backup) /\ arc.kept = {} /\ shelf \in [Spots -> Depth2]
  BY <1>1 DEF ArcInv, HiddenFits, ArcTypes
<1>3. CASE (Ends("error") \/ Ends("cancelled")) /\ UNCHANGED shelf
  <2>1. PICK p \in {"error", "cancelled"} : Ends(p)
    BY <1>3
  <2> QED BY <2>1, <1>1, <1>2, <1>3, UnpackEnds
<1>4. CASE Ends("settle") /\ shelf' = [shelf EXCEPT ![Staging] = InHand.file]
  <2>1. /\ arc.todo # <<>> /\ InHand.file \in Bare /\ InHand.file \in Depth2
        /\ arc.target = Goal(InHand) \/ (arc.rule = "renameNew" /\ arc.target = FreeName(Goal(InHand)))
    BY <1>1, TargetFacts, BareFacts
  <2>2. arc' \in ArcRecords(arc'.todo) /\ arc'.pc = "settle" /\ arc'.act = "unpack" /\ arc'.jobs = arc.jobs
        /\ arc'.rule = arc.rule /\ arc'.print = arc.print /\ arc'.kept = arc.kept /\ arc'.todo = arc.todo
        /\ arc'.skipped = arc.skipped /\ arc'.target = arc.target
    BY <1>4, <1>1, UnpackPcs, EndsFacts
  <2>3. /\ shelf' \in [Spots -> Depth2] /\ shelf'[Staging] = InHand.file
        /\ \A s \in Spots \ {Staging} : shelf'[s] = shelf[s]
    BY <1>4, <1>2, <2>1, SpotFacts
  <2>4. /\ shelf'[Pack] = shelf[Pack] /\ (\A s \in Spots \ {Pack, Spare} : shelf'[s] \in Bare)
        /\ shelf'[Backup] = shelf[Backup] /\ (\A s \in OutSpots : shelf'[s] = shelf[s]) /\ Staging \in Spots
    BY <2>3, <2>1, <1>1, SpotFacts DEF ArcTypes
  <2>5. /\ marks' \in [begun : SUBSET Depth2, overruled : SUBSET Depth2, emptied : SUBSET Depth2,
                       swapped : SUBSET Depth2, meddled : BOOLEAN, crowded : BOOLEAN]
        /\ marks' = marks
    BY <1>1 DEF ArcTypes
  <2>6. /\ ArcTypes' /\ ForeignIsNew' /\ PackFits'
        /\ (OverwriteFits' => FirstFits') /\ (\A k : E(k)' = E(k))
    BY <2>2, <2>3, <2>4, <2>5, <1>1, LoadFrame
  <2>7. /\ Distinct(arc.print.has)' /\ \A k \in 1 .. Len(arc'.print.has) : E(k)'.label \in Labels
        /\ shelf'[Pack] = arc'.print \/ \A k \in 1 .. Len(arc'.print.has) : E(k)'.file \in marks'.swapped
    BY <2>2, <2>3, <2>4, <2>5, <1>1, LoadFrame
  <2>8. HiddenFits' /\ ArchivesTrue'
    BY <2>2, <2>4, <1>1, <1>2 DEF HiddenFits, Is, Unpacking, Loading, Ended, ArchivesTrue
  <2>9. OverwriteFits'
    <3>1. ArcInv /\ arc.act = "unpack" /\ arc.pc \in {"entry", "stage", "settle"}
          /\ arc'.pc \in {"ok", "entry", "stage", "settle", "commit"} /\ arc'.pc # "commit"
      BY <1>1, <2>2
    <3> QED BY <3>1, <2>2, <2>4, <2>5, NothingOverruled
  <2>10. NoneMissing'
    <3>1. \A s \in Spots \ {Staging} : Held(s) \subseteq OnShelf'
      BY <2>3, HeldStays
    <3>2. \A f \in Held(Staging) : f.kind # "file"
      <4>1. Held(Staging) = {NoFile}
        BY <1>2, BareHeld, Bares DEF Is
      <4> QED BY <4>1, Bares
    <3>3. NoneMissing
      BY DEF ArcInv
    <3> QED BY <3>1, <3>2, <3>3, <2>5, StillThere
  <2>11. OnlyCrowded'
    BY <2>5 DEF OnlyCrowded, ArcInv
  <2>12. UnpackFits'
    <3>1. arc.todo \in Seq(Entry1) /\ RestOf(arc.print.has, arc.todo) /\ n \in 0 .. Len(arc.print.has)
          /\ Len(arc.print.has) \in Nat
      BY <1>1, InHandFacts, EntryFacts
    <3>2. \A k \in 1 .. n : Placed_(k)'
      <4> SUFFICES ASSUME NEW k \in 1 .. n PROVE Placed_(k)'
        OBVIOUS
      <4>1. Placed_(k)
        BY <1>1 DEF ArcInv, UnpackFits
      <4>2. k \in 1 .. Len(arc.print.has)
        BY <3>1
      <4>3. Goal(E(k)) \in OutSpots /\ FreeName(Goal(E(k))) \in OutSpots
        BY <4>2, <1>1, EntryFacts
      <4>4. shelf'[Goal(E(k))] = shelf[Goal(E(k))] /\ shelf'[FreeName(Goal(E(k)))] = shelf[FreeName(Goal(E(k)))]
        BY <4>3, <2>4
      <4> QED BY <4>1, <4>4, <2>2, <2>6 DEF Placed_, Goal, FreeName
    <3>3. Past(arc.print.has, arc.todo)' = n
      BY <2>2
    <3>4. InHand' = InHand
      BY <2>2 DEF InHand
    <3>5. arc'.target = Goal(InHand)' \/ (arc'.rule = "renameNew" /\ arc'.target = FreeName(Goal(InHand))')
      BY <3>4, <2>2, <2>1 DEF Goal, FreeName
    <3> QED BY <3>1, <3>2, <3>3, <3>4, <3>5, <2>1, <2>2, <2>3, <2>7 DEF UnpackFits
  <2> QED BY <2>6, <2>8, <2>9, <2>10, <2>11, <2>12 DEF ArcInv
<1> QED BY <1>3, <1>4 DEF UnpackStage, InHand

\* The target is free: what is staged may take its place.
LEMMA SettleFree ==
    ASSUME ArcInv, arc.act = "unpack", arc.pc = "settle", UNCHANGED <<shelf, marks>>, NEW t,
           arc' = [arc EXCEPT !.pc = "commit", !.target = t], ~Is(t),
           t = Goal(InHand) \/ (arc.rule = "renameNew" /\ t = FreeName(Goal(InHand)))
    PROVE  ArcInv'
<1> DEFINE n == Past(arc.print.has, arc.todo)
<1>1. arc.pc \in Unpacking /\ arc.pc \in Loading /\ ArcTypes
      /\ arc \in ArcRecords(arc.todo) /\ arc.pc \in Loading \ {"entry"} /\ shelf' = shelf /\ marks' = marks
  BY DEF Unpacking, Loading, ArcInv, ArcTypes
<1>2. ~Is(Backup) /\ arc.kept = {}
  BY DEF ArcInv, HiddenFits
<1>3. arc.todo # <<>> /\ t \in Spots
  BY <1>1, TargetFacts, SpotFacts
<1>4. arc' \in ArcRecords(arc'.todo) /\ arc'.pc = "commit" /\ arc'.act = "unpack" /\ arc'.jobs = arc.jobs
      /\ arc'.rule = arc.rule /\ arc'.print = arc.print /\ arc'.kept = {} /\ arc'.todo = arc.todo
      /\ arc'.skipped = arc.skipped /\ arc'.target = t
  BY <1>1, <1>2, <1>3, UnpackPcs DEF ArcRecords
<1>5. /\ ArcTypes' /\ ForeignIsNew' /\ PackFits' /\ NoneMissing' /\ OnlyCrowded'
      /\ (OverwriteFits' => FirstFits') /\ (\A k : E(k)' = E(k))
  BY <1>4, <1>1, LoadQuiet
<1>6. /\ Distinct(arc.print.has)' /\ \A k \in 1 .. Len(arc'.print.has) : E(k)'.label \in Labels
      /\ shelf'[Pack] = arc'.print \/ \A k \in 1 .. Len(arc'.print.has) : E(k)'.file \in marks'.swapped
  BY <1>4, <1>1, LoadQuiet
<1>7. HiddenFits' /\ ArchivesTrue'
  BY <1>4, <1>1, <1>2 DEF HiddenFits, Is, Unpacking, Loading, Ended, ArchivesTrue
<1>8. OverwriteFits'
  <2>1. ArcInv /\ arc.act = "unpack" /\ arc.pc \in {"entry", "stage", "settle"}
        /\ arc'.pc \in {"ok", "entry", "stage", "settle", "commit"}
    BY <1>4
  <2> QED BY <2>1, <1>1, <1>4, NothingOverruled
<1>9. UnpackFits'
  <2>1. arc.todo \in Seq(Entry1) /\ RestOf(arc.print.has, arc.todo) /\ n \in 0 .. Len(arc.print.has)
        /\ Len(arc.print.has) \in Nat
    BY <1>1, InHandFacts, EntryFacts
  <2>2. \A k \in 1 .. n : Placed_(k)' /\ PlacedOff(k, t)'
    <3> SUFFICES ASSUME NEW k \in 1 .. n PROVE Placed_(k)' /\ PlacedOff(k, t)'
      OBVIOUS
    <3>1. Placed_(k)
      BY <1>1 DEF ArcInv, UnpackFits
    <3>2. k \in 1 .. Len(arc.print.has)
      BY <2>1
    <3>3. shelf[t] # E(k).file
      BY <3>2, <1>1, EntryFacts DEF Is
    <3>4. Placed_(k)'
      BY <3>1, <1>1, <1>4, <1>5 DEF Placed_, Goal, FreeName
    <3>5. PlacedOff(k, t)'
      BY <3>1, <3>3, <1>1, <1>4, <1>5 DEF Placed_, PlacedOff, Goal, FreeName
    <3> QED BY <3>4, <3>5
  <2>3. Past(arc.print.has, arc.todo)' = n
    BY <1>4
  <2>4. InHand' = InHand
    BY <1>4 DEF InHand
  <2>5. arc'.target = Goal(InHand)' \/ (arc'.rule = "renameNew" /\ arc'.target = FreeName(Goal(InHand))')
    BY <2>4, <1>4 DEF Goal, FreeName
  <2>6. shelf'[Staging] = InHand'.file
    BY <2>4, <1>1 DEF ArcInv, UnpackFits
  <2>7. shelf'[arc'.target] = NoFile
    BY <1>1, <1>4 DEF Is
  <2>8. \A k \in 1 .. n : PlacedOff(k, arc.target)'
    BY <2>2, <1>4 DEF PlacedOff
  <2> QED BY <2>1, <2>2, <2>3, <2>4, <2>5, <2>6, <2>7, <2>8, <1>3, <1>4, <1>6 DEF UnpackFits, FreeOrForeign
<1> QED BY <1>5, <1>7, <1>8, <1>9 DEF ArcInv

\* What is at the target is put aside first.
LEMMA SettleAside ==
    ASSUME ArcInv, arc.act = "unpack", arc.pc = "settle", UNCHANGED marks, NEW b,
           LET s == Goal(InHand) IN
           /\ arc.target = s /\ Is(s) /\ shelf[s].kind # "dir"
           /\ arc' = [arc EXCEPT !.pc = "commit", !.kept = {b}]
           /\ shelf' = [shelf EXCEPT ![b] = shelf[s], ![s] = NoFile]
           /\ \/ arc.rule = "overwrite" /\ b = Backup
              \/ arc.rule = "renameExisting" /\ b = FreeName(s) /\ ~Is(b)
    PROVE  ArcInv'
<1> DEFINE n == Past(arc.print.has, arc.todo)
           s == Goal(InHand)
<1>1. arc.pc \in Unpacking /\ arc.pc \in Loading /\ ArcTypes
      /\ arc \in ArcRecords(arc.todo) /\ arc.pc \in Loading \ {"entry"} /\ marks' = marks
  BY DEF Unpacking, Loading, ArcInv, ArcTypes
<1>2. ~Is(Backup) /\ arc.kept = {}
  BY DEF ArcInv, HiddenFits
<1>3. arc.todo # <<>> /\ s \in OutSpots /\ FreeName(s) \in OutSpots
  BY <1>1, TargetFacts
<1>4. s \in Spots /\ b \in Spots /\ b # s /\ b \notin {Pack, Spare, Staging} /\ s \notin {Pack, Spare, Staging, Backup}
      /\ ~Is(b) /\ Is(s)
  BY <1>2, <1>3, SpotFacts
<1>5. arc' \in ArcRecords(arc'.todo) /\ arc'.pc = "commit" /\ arc'.act = "unpack" /\ arc'.jobs = arc.jobs
      /\ arc'.rule = arc.rule /\ arc'.print = arc.print /\ arc'.kept = {b} /\ arc'.todo = arc.todo
      /\ arc'.skipped = arc.skipped /\ arc'.target = s /\ arc.target = s
  <2>1. {b} \in SUBSET Spots
    BY <1>4
  <2>2. PICK K \in SUBSET Spots : K = {b}
    BY <2>1
  <2>3. arc' = [arc EXCEPT !.pc = "commit", !.kept = K]
    BY <2>2
  <2> HIDE DEF s
  <2>4. arc.target = s
    BY DEF s
  <2> QED BY <2>2, <2>3, <2>4, <1>1, UnpackPcs DEF ArcRecords
<1>6. /\ shelf' \in [Spots -> Depth2] /\ shelf'[b] = shelf[s] /\ shelf'[s] = NoFile
      /\ \A r \in Spots \ {b, s} : shelf'[r] = shelf[r]
  <2>1. shelf \in [Spots -> Depth2] /\ NoFile \in Depth2
    BY <1>1, Bares, BareFacts DEF ArcTypes
  <2>2. shelf' = [shelf EXCEPT ![b] = shelf[s], ![s] = NoFile]
    OBVIOUS
  <2> HIDE DEF s
  <2> QED BY <2>1, <2>2, <1>4
<1> HIDE DEF s
<1>7. /\ shelf'[Pack] = shelf[Pack] /\ (\A r \in Spots \ {Pack, Spare} : shelf'[r] \in Bare)
      /\ shelf'[Staging] = shelf[Staging] /\ shelf[s] \in Bare
  BY <1>6, <1>4, <1>1, SpotFacts, Bares DEF ArcTypes
<1>8. marks' \in [begun : SUBSET Depth2, overruled : SUBSET Depth2, emptied : SUBSET Depth2,
                  swapped : SUBSET Depth2, meddled : BOOLEAN, crowded : BOOLEAN]
  BY <1>1 DEF ArcTypes
<1>9. /\ ArcTypes' /\ ForeignIsNew' /\ PackFits'
      /\ (OverwriteFits' => FirstFits') /\ (\A k : E(k)' = E(k))
  BY <1>5, <1>6, <1>7, <1>8, <1>1, LoadFrame
<1>10. /\ Distinct(arc.print.has)' /\ \A k \in 1 .. Len(arc'.print.has) : E(k)'.label \in Labels
       /\ shelf'[Pack] = arc'.print \/ \A k \in 1 .. Len(arc'.print.has) : E(k)'.file \in marks'.swapped
  BY <1>5, <1>6, <1>7, <1>8, <1>1, LoadFrame
<1>11. (b = Backup /\ arc.rule = "overwrite") \/ (b = FreeName(s) /\ arc.rule = "renameExisting")
  BY DEF s
<1>12. Is(Backup)' => b = Backup
  BY <1>2, <1>4, <1>6, SpotFacts DEF Is
<1>13. HiddenFits' /\ ArchivesTrue'
  BY <1>5, <1>12 DEF HiddenFits, Unpacking, Loading, Ended, ArchivesTrue
<1>14. NoneMissing'
  <2>1. \A r \in Spots \ {b, s} : Held(r) \subseteq OnShelf'
    BY <1>6, HeldStays
  <2>2. Held(s) \subseteq OnShelf'
    BY <1>4, <1>6, HeldStays
  <2>3. \A f \in Held(b) : f.kind # "file"
    <3>1. Held(b) = {NoFile}
      BY <1>4, BareHeld, Bares DEF Is
    <3> QED BY <3>1, Bares
  <2>4. NoneMissing
    BY DEF ArcInv
  <2> QED BY <2>1, <2>2, <2>3, <2>4, <1>1, StillThere
<1>15. OnlyCrowded'
  BY <1>1 DEF OnlyCrowded, ArcInv
<1>16. arc.todo \in Seq(Entry1) /\ RestOf(arc.print.has, arc.todo) /\ n \in 0 .. Len(arc.print.has)
       /\ Len(arc.print.has) \in Nat /\ n + 1 \in 1 .. Len(arc.print.has) /\ InHand = E(n + 1)
  BY <1>1, <1>3, InHandFacts, EntryFacts
<1>17. \A k \in 1 .. Len(arc.print.has) : Goal(E(k)) \in OutSpots /\ (Goal(E(k)) = s => k = n + 1)
  BY <1>16, <1>1, EntryFacts DEF s
<1>18. UnpackFits'
  <2>1. \A k \in 1 .. n : Placed_(k)' /\ PlacedOff(k, arc.target)'
    <3> SUFFICES ASSUME NEW k \in 1 .. n PROVE Placed_(k)' /\ PlacedOff(k, arc.target)'
      OBVIOUS
    <3>1. Placed_(k)
      BY <1>1 DEF ArcInv, UnpackFits
    <3>2. k \in 1 .. Len(arc.print.has) /\ k # n + 1
      BY <1>16
    <3>3. E(k).file # NoFile /\ Goal(E(k)) \in Spots /\ Goal(E(k)) # s
      BY <3>2, <1>1, <1>17, EntryFacts, SpotFacts
    <3>4. shelf[Goal(E(k))] = E(k).file => Goal(E(k)) # b
      BY <3>3, <1>4 DEF Is
    <3>5. arc.rule # "renameNew" /\ Goal(E(k)) # s
      BY <1>11, <3>3
    <3>6. shelf[Goal(E(k))] = E(k).file => shelf'[Goal(E(k))] = E(k).file
      BY <3>3, <3>4, <1>6
    <3>7. Placed_(k)'
      BY <3>1, <3>5, <3>6, <1>5, <1>9 DEF Placed_, Goal
    <3>8. PlacedOff(k, arc.target)'
      BY <3>1, <3>5, <3>6, <1>5, <1>9 DEF Placed_, PlacedOff, Goal
    <3> QED BY <3>7, <3>8
  <2>2. Past(arc.print.has, arc.todo)' = n
    BY <1>5
  <2>3. InHand' = InHand
    BY <1>5 DEF InHand
  <2>4. arc'.target = Goal(InHand)'
    BY <2>3, <1>5 DEF Goal, s
  <2>5. shelf'[Staging] = InHand'.file
    BY <2>3, <1>1, <1>7 DEF ArcInv, UnpackFits
  <2>7. Is(b)' /\ FreeName(arc.target)' = FreeName(s)
    BY <1>4, <1>5, <1>6 DEF Is, FreeName
  <2>8. \/ arc'.kept = {Backup} /\ arc'.rule = "overwrite" /\ Is(Backup)'
        \/ /\ arc'.kept = {FreeName(arc.target)'} /\ arc'.rule = "renameExisting"
           /\ FreeName(arc.target)' # arc'.target /\ Is(FreeName(arc.target))'
    BY <2>7, <1>11, <1>5, <1>4 DEF Is
  <2> QED BY <1>16, <2>1, <2>2, <2>3, <2>4, <2>5, <2>8, <1>3, <1>5, <1>6, <1>10 DEF UnpackFits, FreeOrForeign
<1>19. OverwriteFits'
  <2> SUFFICES ASSUME arc.jobs = 1, arc.rule = "overwrite" PROVE OverwriteFits'
    BY <1>5 DEF OverwriteFits
  <2>1. b = Backup /\ b \notin OutSpots
    BY <1>11, SpotFacts
  <2>2. OverwriteFits
    BY DEF ArcInv, FirstFits
  <2>3. ASSUME NEW f \in marks.overruled, f.name \in OutSpots
        PROVE  \E k \in 1 .. Len(arc.print.has) : k <= n /\ f = Plain(Goal(E(k))) /\ shelf'[Goal(E(k))] = E(k).file
    <3>1. PICK k \in 1 .. Len(arc.print.has) : k <= n /\ f = Plain(Goal(E(k))) /\ shelf[Goal(E(k))] = E(k).file
      BY <2>2, <2>3 DEF OverwriteFits
    <3>2. k \in 1 .. Len(arc.print.has) /\ k # n + 1
      BY <3>1, <1>16
    <3>3. Goal(E(k)) \in Spots /\ Goal(E(k)) # s /\ Goal(E(k)) # b
      BY <3>2, <1>17, <2>1, SpotFacts
    <3> QED BY <3>1, <3>3, <1>6
  <2>4. ASSUME NEW k \in n + 1 .. Len(arc.print.has) PROVE OwnName(Goal(E(k)))'
    <3>1. OwnName(Goal(E(k))) /\ k \in 1 .. Len(arc.print.has)
      BY <1>1, <2>2, <1>16 DEF OverwriteFits
    <3>2. Goal(E(k)) \in Spots /\ Goal(E(k)) # b
      BY <3>1, <1>17, <2>1, SpotFacts
    <3>3. shelf'[Goal(E(k))] \in {shelf[Goal(E(k))], NoFile}
      BY <3>2, <1>6
    <3> QED BY <3>1, <3>3, <1>9 DEF OwnName, Goal
  <2>5. shelf[s] \in {Plain(s), Plain(Foreign)}
    <3>1. OwnName(Goal(E(n + 1)))
      BY <1>1, <2>2, <1>16 DEF OverwriteFits
    <3>2. shelf[s].kind # "dir" /\ Is(s)
      BY DEF s
    <3> QED BY <3>1, <3>2, <1>16 DEF OwnName, s, Folder_, Is
  <2>6. Past(arc'.print.has, arc'.todo) = n
    BY <1>5
  <2>7. \A k \in n + 1 .. Len(arc'.print.has) : OwnName(Goal(E(k)))'
    BY <2>4, <1>5
  <2>8. \A f \in marks'.overruled : f.name \in OutSpots =>
          \E k \in 1 .. Len(arc.print.has) : k <= n /\ f = Plain(Goal(E(k)')) /\ shelf'[Goal(E(k)')] = E(k)'.file
    BY <2>3, <1>9, <1>1
  <2>9. shelf'[Backup] \in {Plain(arc'.target), Plain(Foreign)}
    BY <2>1, <2>5, <1>5, <1>6
  <2> HIDE DEF n
  <2> QED BY <2>6, <2>7, <2>8, <2>9, <1>5 DEF OverwriteFits, Goal
<1> QED BY <1>9, <1>13, <1>14, <1>15, <1>18, <1>19 DEF ArcInv

LEMMA UnpackSettleKeeps == ASSUME ArcInv, UnpackSettle, arc.act = "unpack" PROVE ArcInv'
<1> DEFINE n == Past(arc.print.has, arc.todo)
           s == arc.target
<1>1. arc.pc = "settle" /\ arc.pc \in Unpacking /\ arc.pc \in Loading /\ UNCHANGED marks /\ ArcTypes
      /\ arc \in ArcRecords(arc.todo) /\ arc.pc \in Loading \ {"entry"} /\ marks' = marks
  BY DEF UnpackSettle, Unpacking, Loading, ArcInv, ArcTypes
<1>2. ~Is(Backup) /\ arc.kept = {} /\ shelf \in [Spots -> Depth2]
  BY <1>1 DEF ArcInv, HiddenFits, ArcTypes
<1>3. arc.todo # <<>> /\ Goal(InHand) \in Spots
      /\ (arc.target = Goal(InHand) \/ (arc.rule = "renameNew" /\ arc.target = FreeName(Goal(InHand))))
  BY <1>1, TargetFacts, SpotFacts
<1>4. ASSUME Unstage
      PROVE  /\ shelf' \in [Spots -> Depth2] /\ shelf'[Staging] = NoFile
             /\ \A r \in Spots \ {Staging} : shelf'[r] = shelf[r]
  BY <1>2, <1>4, SpotFacts, Bares, BareFacts DEF Unstage
<1>5. CASE Ends("error") /\ Unstage
  BY <1>5, <1>4, <1>1, <1>2, UnpackEnds
<1>6. CASE /\ arc.rule = "skip" /\ Unstage
           /\ arc' = [arc EXCEPT !.pc = "entry", !.todo = Tail(@), !.skipped = @ \cup {s}]
  <2>1. s = Goal(InHand)
    BY <1>3, <1>6
  <2>2. PICK S \in SUBSET Spots : S = arc.skipped \cup {s}
    BY <2>1, <1>1, <1>3 DEF ArcRecords
  <2>3. arc' = [arc EXCEPT !.pc = "entry", !.todo = Tail(arc.todo), !.skipped = S]
    BY <1>6, <2>2
  <2>4. arc' \in ArcRecords(arc'.todo) /\ arc'.pc = "entry" /\ arc'.act = "unpack" /\ arc'.jobs = arc.jobs
        /\ arc'.rule = arc.rule /\ arc'.print = arc.print /\ arc'.kept = {} /\ arc'.todo = Tail(arc.todo)
        /\ arc'.skipped = S
    BY <2>3, <1>1, <1>2, UnpackPcs DEF ArcRecords
  <2>5. /\ shelf' \in [Spots -> Depth2] /\ shelf'[Staging] = NoFile
        /\ \A r \in Spots \ {Staging} : shelf'[r] = shelf[r]
    BY <1>4, <1>6
  <2>6. /\ shelf'[Pack] = shelf[Pack] /\ (\A r \in Spots \ {Pack, Spare} : shelf'[r] \in Bare)
        /\ shelf'[Backup] = shelf[Backup] /\ (\A r \in OutSpots : shelf'[r] = shelf[r]) /\ Staging \in Spots
    BY <2>5, <1>1, SpotFacts, Bares DEF ArcTypes
  <2>7. marks' \in [begun : SUBSET Depth2, overruled : SUBSET Depth2, emptied : SUBSET Depth2,
                    swapped : SUBSET Depth2, meddled : BOOLEAN, crowded : BOOLEAN]
    BY <1>1 DEF ArcTypes
  <2>8. /\ ArcTypes' /\ ForeignIsNew' /\ PackFits'
        /\ (OverwriteFits' => FirstFits') /\ (\A k : E(k)' = E(k))
    BY <2>4, <2>5, <2>6, <2>7, <1>1, LoadFrame
  <2>9. /\ Distinct(arc.print.has)' /\ \A k \in 1 .. Len(arc'.print.has) : E(k)'.label \in Labels
        /\ shelf'[Pack] = arc'.print \/ \A k \in 1 .. Len(arc'.print.has) : E(k)'.file \in marks'.swapped
    BY <2>4, <2>5, <2>6, <2>7, <1>1, LoadFrame
  <2>10. HiddenFits' /\ ArchivesTrue' /\ OverwriteFits'
    BY <2>4, <2>5, <2>6, <1>2, <1>6 DEF HiddenFits, Is, Unpacking, Loading, Ended, ArchivesTrue, OverwriteFits
  <2>11. OnlyCrowded'
    BY <1>1 DEF OnlyCrowded, ArcInv
  <2>12. /\ n \in 0 .. Len(arc.print.has) /\ n + 1 \in 1 .. Len(arc.print.has) /\ InHand = E(n + 1)
         /\ RestOf(arc.print.has, Tail(arc.todo)) /\ Past(arc.print.has, Tail(arc.todo)) = n + 1
         /\ Tail(arc.todo) \in Seq(Entry1) /\ Len(arc.print.has) \in Nat
    BY <1>1, <1>3, InHandFacts, EntryFacts
  <2>13. NoneMissing'
    <3>1. \A r \in Spots \ {Staging} : Held(r) \subseteq OnShelf'
      BY <2>5, HeldStays
    <3>2. \A f \in Held(Staging) : f \in OnShelf' \/ f \in marks'.swapped
      <4>1. shelf[Staging] \in Bare /\ shelf[Staging] = E(n + 1).file
        BY <1>1, <2>12, SpotFacts DEF ArcInv, ArcTypes, UnpackFits
      <4>2. Held(Staging) = {E(n + 1).file}
        BY <4>1, BareHeld
      <4>3. E(n + 1).file \in Held(Pack) \/ E(n + 1).file \in marks.swapped
        BY <1>1, <2>12, StagedIsPacked
      <4> QED BY <4>2, <4>3, <3>1, <1>1, SpotFacts
    <3>3. NoneMissing
      BY DEF ArcInv
    <3> QED BY <3>1, <3>2, <3>3, <1>1, StillThere
  <2>14. \A k \in 1 .. n + 1 : Placed_(k)'
    <3> SUFFICES ASSUME NEW k \in 1 .. n + 1 PROVE Placed_(k)'
      OBVIOUS
    <3>1. CASE k \in 1 .. n
      <4>1. Placed_(k)
        BY <3>1, <1>1 DEF ArcInv, UnpackFits
      <4>2. k \in 1 .. Len(arc.print.has)
        BY <3>1, <2>12
      <4>3. Goal(E(k)) \in OutSpots
        BY <4>2, <1>1, EntryFacts
      <4>4. shelf'[Goal(E(k))] = shelf[Goal(E(k))] /\ (Goal(E(k)) \in arc.skipped => Goal(E(k)) \in S)
        BY <4>3, <2>6, <2>2
      <4> QED BY <4>1, <4>4, <2>4, <2>8, <1>6 DEF Placed_, Goal
    <3>2. CASE k = n + 1
      <4>1. Goal(E(k)) \in S
        BY <3>2, <2>1, <2>2, <2>12
      <4> QED BY <4>1, <2>4, <2>8, <1>6 DEF Placed_, Goal
    <3> QED BY <3>1, <3>2, <2>12
  <2>15. UnpackFits'
    <3>1. Past(arc.print.has, arc.todo)' = n + 1 /\ RestOf(arc.print.has, arc.todo)' /\ arc'.todo \in Seq(Entry1)
      BY <2>4, <2>12
    <3> QED BY <3>1, <2>4, <2>9, <2>14 DEF UnpackFits
  <2> QED BY <2>8, <2>10, <2>11, <2>13, <2>15 DEF ArcInv
<1>7. CASE ~Is(s)
  <2>1. arc' = [arc EXCEPT !.pc = "commit"] /\ UNCHANGED <<shelf, marks>>
    BY <1>7, <1>1 DEF UnpackSettle, Ends
  <2>2. arc' = [arc EXCEPT !.pc = "commit", !.target = arc.target]
    BY <2>1, <1>1 DEF ArcRecords
  <2> QED BY <2>1, <2>2, <1>1, <1>3, <1>7, SettleFree
<1>8. CASE Is(s) /\ (shelf[s].kind = "dir" \/ arc.rule = "fail")
  BY <1>8, <1>5 DEF UnpackSettle
<1>9. CASE Is(s) /\ ~(shelf[s].kind = "dir" \/ arc.rule = "fail") /\ arc.rule = "skip"
  BY <1>9, <1>6 DEF UnpackSettle
<1>10. CASE Is(s) /\ ~(shelf[s].kind = "dir" \/ arc.rule = "fail") /\ arc.rule = "overwrite"
  <2>1. CASE /\ arc' = [arc EXCEPT !.pc = "commit", !.kept = {Backup}]
             /\ shelf' = [shelf EXCEPT ![Backup] = shelf[s], ![s] = NoFile]
    <3>1. s = Goal(InHand)
      BY <1>3, <1>10
    <3> QED BY <2>1, <3>1, <1>1, <1>10, SettleAside
  <2>2. CASE Ends("error") /\ Unstage
    BY <2>2, <1>5
  <2> QED BY <2>1, <2>2, <1>10 DEF UnpackSettle
<1>11. CASE /\ Is(s) /\ ~(shelf[s].kind = "dir" \/ arc.rule = "fail") /\ arc.rule \notin {"skip", "overwrite"}
            /\ NoFreeName(Goal(Head(arc.todo)))
  BY <1>11, <1>5 DEF UnpackSettle
<1>12. CASE /\ Is(s) /\ ~(shelf[s].kind = "dir" \/ arc.rule = "fail") /\ arc.rule = "renameNew"
            /\ ~NoFreeName(Goal(Head(arc.todo)))
  <2>1. /\ arc' = [arc EXCEPT !.pc = "commit", !.target = FreeName(Goal(InHand))] /\ UNCHANGED <<shelf, marks>>
        /\ ~Is(FreeName(Goal(InHand)))
    BY <1>12, <1>1 DEF UnpackSettle, InHand, NoFreeName
  <2>2. PICK t : t = FreeName(Goal(InHand))
    OBVIOUS
  <2>3. arc' = [arc EXCEPT !.pc = "commit", !.target = t] /\ ~Is(t) /\ arc.rule = "renameNew"
    BY <2>1, <2>2, <1>12
  <2> QED BY <2>1, <2>2, <2>3, <1>1, SettleFree
<1>13. CASE /\ Is(s) /\ ~(shelf[s].kind = "dir" \/ arc.rule = "fail")
            /\ arc.rule \notin {"skip", "overwrite", "renameNew"} /\ ~NoFreeName(Goal(Head(arc.todo)))
  <2>1. s = Goal(InHand)
    BY <1>3, <1>13
  <2>2. /\ arc' = [arc EXCEPT !.pc = "commit", !.kept = {FreeName(s)}]
        /\ shelf' = [shelf EXCEPT ![FreeName(s)] = shelf[s], ![s] = NoFile]
        /\ ~Is(FreeName(s))
    BY <1>13, <2>1 DEF UnpackSettle, InHand, NoFreeName
  <2>3. arc.rule = "renameExisting"
    BY <1>13, <1>1 DEF ArcRecords, ArcPolicy
  <2>4. PICK b : b = FreeName(s)
    OBVIOUS
  <2>5. /\ arc' = [arc EXCEPT !.pc = "commit", !.kept = {b}]
        /\ shelf' = [shelf EXCEPT ![b] = shelf[Goal(InHand)], ![Goal(InHand)] = NoFile]
        /\ b = FreeName(Goal(InHand)) /\ ~Is(b) /\ arc.target = Goal(InHand)
        /\ Is(Goal(InHand)) /\ shelf[Goal(InHand)].kind # "dir"
    BY <2>1, <2>2, <2>4, <1>13
  <2> QED BY <2>3, <2>5, <1>1, SettleAside
<1> QED BY <1>7, <1>8, <1>9, <1>10, <1>11, <1>12, <1>13

\* What is staged takes the place of its target.
LEMMA CommitMoves ==
    ASSUME ArcInv, arc.act = "unpack", arc.pc = "commit",
           shelf' = [shelf EXCEPT ![arc.target] = shelf[Staging], ![Staging] = NoFile],
           marks' = [marks EXCEPT !.emptied = @ \cup (Held(arc.target) \ {NoFile})],
           arc' = IF arc.kept = {Backup} THEN [arc EXCEPT !.pc = "drop"]
                  ELSE [arc EXCEPT !.pc = "entry", !.todo = Tail(@), !.kept = {}]
    PROVE  ArcInv'
<1> DEFINE n == Past(arc.print.has, arc.todo)
<1>1. arc.pc \in Unpacking /\ arc.pc \in Loading /\ ArcTypes
      /\ arc \in ArcRecords(arc.todo) /\ arc.pc \in Loading \ {"entry"}
  BY DEF Unpacking, Loading, ArcInv, ArcTypes
<1>2. /\ arc.todo # <<>> /\ arc.target \in OutSpots /\ FreeName(Goal(InHand)) \in OutSpots /\ Goal(InHand) \in OutSpots
      /\ arc.target = Goal(InHand) \/ (arc.rule = "renameNew" /\ arc.target = FreeName(Goal(InHand)))
      /\ InHand.file \in Bare /\ InHand.file # NoFile
  BY <1>1, TargetFacts
<1>3. /\ shelf[Staging] = InHand.file /\ FreeOrForeign(arc.target)
      /\ \A k \in 1 .. n : PlacedOff(k, arc.target)
      /\ \/ arc.kept = {}
         \/ arc.kept = {Backup} /\ arc.rule = "overwrite" /\ Is(Backup)
         \/ arc.kept = {FreeName(arc.target)} /\ arc.rule = "renameExisting"
  BY <1>1 DEF ArcInv, UnpackFits
<1>4. PICK t \in OutSpots : t = arc.target
  BY <1>2
<1>5. t \in Spots /\ t \notin {Pack, Spare, Staging, Backup} /\ Staging \notin {Pack, Spare, Backup} /\ Staging \in Spots
      /\ Pack \in Spots /\ Backup \in Spots /\ Staging \notin OutSpots /\ \A r \in OutSpots : r \in Spots
  BY SpotFacts
<1>6. /\ shelf' \in [Spots -> Depth2] /\ shelf'[t] = InHand.file /\ shelf'[Staging] = NoFile
      /\ \A r \in Spots \ {t, Staging} : shelf'[r] = shelf[r]
  <2>1. shelf \in [Spots -> Depth2] /\ NoFile \in Depth2
    BY <1>1, Bares, BareFacts DEF ArcTypes
  <2> QED BY <2>1, <1>3, <1>4, <1>5
<1>7. /\ shelf'[Pack] = shelf[Pack] /\ (\A r \in Spots \ {Pack, Spare} : shelf'[r] \in Bare)
      /\ shelf'[Backup] = shelf[Backup]
  BY <1>1, <1>2, <1>5, <1>6, Bares DEF ArcTypes
<1>8. Held(t) \subseteq Depth2 /\ FreeOrForeign(t)
  BY <1>1, <1>3, <1>4, <1>5, HeldIn
<1>9. PICK e : e = marks.emptied \cup (Held(t) \ {NoFile})
  OBVIOUS
<1>10. /\ marks' \in [begun : SUBSET Depth2, overruled : SUBSET Depth2, emptied : SUBSET Depth2,
                      swapped : SUBSET Depth2, meddled : BOOLEAN, crowded : BOOLEAN]
       /\ marks'.begun = marks.begun /\ marks'.overruled = marks.overruled /\ marks'.swapped = marks.swapped
       /\ marks'.meddled = marks.meddled /\ marks'.emptied = e
  <2>1. marks' = [marks EXCEPT !.emptied = e]
    BY <1>4, <1>9
  <2>2. e \subseteq Depth2
    BY <1>1, <1>8, <1>9 DEF ArcTypes
  <2> QED BY <2>1, <2>2, <1>1 DEF ArcTypes
<1>11. /\ n \in 0 .. Len(arc.print.has) /\ n + 1 \in 1 .. Len(arc.print.has) /\ InHand = E(n + 1)
       /\ RestOf(arc.print.has, Tail(arc.todo)) /\ Past(arc.print.has, Tail(arc.todo)) = n + 1
       /\ Tail(arc.todo) \in Seq(Entry1) /\ Len(arc.print.has) \in Nat
       /\ arc.todo \in Seq(Entry1) /\ RestOf(arc.print.has, arc.todo)
  BY <1>1, <1>2, InHandFacts, EntryFacts
<1>12. \A k \in 1 .. Len(arc.print.has) : /\ Goal(E(k)) \in OutSpots /\ FreeName(Goal(E(k))) \in OutSpots
                                          /\ E(k).file # NoFile /\ (Goal(E(k)) = Goal(InHand) => k = n + 1)
  BY <1>11, <1>1, EntryFacts
<1>13. NoneMissing'
  <2>1. \A r \in Spots \ {t, Staging} : Held(r) \subseteq OnShelf'
    BY <1>6, HeldStays
  <2>2. Held(Staging) \subseteq OnShelf'
    BY <1>3, <1>5, <1>6, HeldStays
  <2>3. \A f \in Held(t) : f.kind = "file" => f \in marks'.emptied
    BY <1>9, <1>10, Bares
  <2>4. NoneMissing /\ marks.emptied \subseteq marks'.emptied
    BY <1>9, <1>10 DEF ArcInv
  <2> QED BY <2>1, <2>2, <2>3, <2>4, <1>10, StillThere
<1>14. OnlyCrowded'
  BY <1>1, <1>4, <1>5, <1>8, OnlyForeignEmptied DEF ArcInv
<1>15. ASSUME arc'.act = "unpack", arc'.rule = arc.rule, arc'.print = arc.print, arc'.skipped = arc.skipped
       PROVE  \A k \in 1 .. n : Placed_(k)'
  <2> SUFFICES ASSUME NEW k \in 1 .. n PROVE Placed_(k)'
    OBVIOUS
  <2>1. PlacedOff(k, t) /\ k \in 1 .. Len(arc.print.has)
    BY <1>3, <1>4, <1>11
  <2>2. \A r \in OutSpots : r # t => shelf'[r] = shelf[r]
    BY <1>5, <1>6
  <2>3. Goal(E(k)) \in OutSpots /\ FreeName(Goal(E(k))) \in OutSpots
    BY <2>1, <1>12
  <2>4. E(k)' = E(k)
    BY <1>15 DEF E
  <2> QED BY <2>1, <2>2, <2>3, <2>4, <1>15 DEF Placed_, PlacedOff, Goal, FreeName
\* What the policy to overwrite has removed before.
<1>16. ASSUME arc.jobs = 1, arc.rule = "overwrite", NEW f \in marks'.overruled, f.name \in OutSpots
       PROVE  \E k \in 1 .. Len(arc.print.has) : k <= n /\ f = Plain(Goal(E(k))) /\ shelf'[Goal(E(k))] = E(k).file
  <2>1. OverwriteFits
    BY DEF ArcInv, FirstFits
  <2>2. PICK k \in 1 .. Len(arc.print.has) : k <= n /\ f = Plain(Goal(E(k))) /\ shelf[Goal(E(k))] = E(k).file
    BY <2>1, <1>16, <1>10 DEF OverwriteFits
  <2>3. k \in 1 .. Len(arc.print.has) /\ k # n + 1
    BY <2>2, <1>11
  <2>4. Goal(E(k)) \in Spots /\ Goal(E(k)) # t /\ Goal(E(k)) # Staging
    BY <2>3, <1>2, <1>4, <1>5, <1>12, <1>16
  <2> QED BY <2>2, <2>4, <1>6
<1>17. ASSUME arc.jobs = 1, arc.rule = "overwrite", arc'.print = arc.print,
              NEW k \in n + 2 .. Len(arc.print.has)
       PROVE  OwnName(Goal(E(k)))'
  <2>1. OverwriteFits
    BY DEF ArcInv, FirstFits
  <2>2. k \in n + 1 .. Len(arc.print.has) /\ k \in 1 .. Len(arc.print.has) /\ k # n + 1
    BY <1>11
  <2>3. OwnName(Goal(E(k)))
    BY <1>1, <2>1, <2>2, <1>17 DEF OverwriteFits
  <2>4. Goal(E(k)) \in Spots /\ Goal(E(k)) # t /\ Goal(E(k)) # Staging
    BY <2>2, <1>2, <1>4, <1>5, <1>12, <1>17
  <2>5. shelf'[Goal(E(k))] = shelf[Goal(E(k))] /\ E(k)' = E(k)
    BY <2>4, <1>6, <1>17 DEF E
  <2> QED BY <2>3, <2>5 DEF OwnName, Goal
<1> HIDE DEF n
<1>18. CASE arc.kept = {Backup}
  <2>1. arc' = [arc EXCEPT !.pc = "drop"] /\ arc.rule = "overwrite" /\ Is(Backup) /\ arc.target = Goal(InHand)
    <3>1. arc.rule = "overwrite" /\ Is(Backup)
      <4>1. arc.kept = {FreeName(arc.target)} /\ arc.rule = "renameExisting" => FreeName(Goal(InHand)) = Backup
        BY <1>2, <1>18
      <4>2. FreeName(Goal(InHand)) # Backup
        BY <1>2, SpotFacts
      <4> QED BY <4>1, <4>2, <1>3, <1>18
    <3> QED BY <3>1, <1>2, <1>18
  <2>2. arc' \in ArcRecords(arc'.todo) /\ arc'.pc = "drop" /\ arc'.act = "unpack" /\ arc'.jobs = arc.jobs
        /\ arc'.rule = arc.rule /\ arc'.print = arc.print /\ arc'.kept = {Backup} /\ arc'.todo = arc.todo
        /\ arc'.skipped = arc.skipped /\ arc'.target = t
    BY <2>1, <1>1, <1>4, <1>18, UnpackPcs DEF ArcRecords
  <2>3. /\ ArcTypes' /\ ForeignIsNew' /\ PackFits'
        /\ (OverwriteFits' => FirstFits') /\ (\A k : E(k)' = E(k))
    BY <2>2, <1>6, <1>7, <1>10, <1>1, LoadFrame
  <2>4. /\ Distinct(arc.print.has)' /\ \A k \in 1 .. Len(arc'.print.has) : E(k)'.label \in Labels
        /\ shelf'[Pack] = arc'.print \/ \A k \in 1 .. Len(arc'.print.has) : E(k)'.file \in marks'.swapped
    BY <2>2, <1>6, <1>7, <1>10, <1>1, LoadFrame
  <2>5. HiddenFits' /\ ArchivesTrue'
    BY <2>2, <1>6, <1>7 DEF HiddenFits, Is, Unpacking, Loading, Ended, ArchivesTrue
  <2>6. Past(arc.print.has, arc.todo)' = n
    BY <2>2 DEF n
  <2>7. UnpackFits'
    <3>1. InHand' = InHand
      BY <2>2 DEF InHand
    <3>2. arc'.target = Goal(InHand)'
      BY <3>1, <2>1, <2>2 DEF Goal
    <3>3. Is(Backup)'
      BY <2>1, <1>7 DEF Is
    <3>4. \A k \in 1 .. n : Placed_(k)'
      BY <2>2, <1>15
    <3>5. shelf'[arc'.target] = InHand'.file
      BY <3>1, <2>2, <1>6
    <3>6. arc'.todo \in Seq(Entry1) /\ RestOf(arc.print.has, arc.todo)' /\ arc'.todo # <<>>
      BY <2>2, <1>11, <1>2
    <3> QED BY <2>1, <2>2, <2>4, <2>6, <3>2, <3>3, <3>4, <3>5, <3>6 DEF UnpackFits
  <2>8. OverwriteFits'
    <3> SUFFICES ASSUME arc.jobs = 1, arc.rule = "overwrite" PROVE OverwriteFits'
      BY <2>2 DEF OverwriteFits
    <3>1. \A f \in marks'.overruled : f.name \in OutSpots =>
            \E k \in 1 .. Len(arc.print.has) : k <= n /\ f = Plain(Goal(E(k)')) /\ shelf'[Goal(E(k)')] = E(k)'.file
      BY <1>16, <2>3
    <3>2. \A k \in n + 1 .. Len(arc.print.has) : OwnName(Goal(E(k)))' \/ k = n + 1
      <4> SUFFICES ASSUME NEW k \in n + 1 .. Len(arc.print.has), k # n + 1 PROVE OwnName(Goal(E(k)))'
        OBVIOUS
      <4>1. k \in n + 2 .. Len(arc.print.has)
        BY <1>11
      <4> QED BY <4>1, <2>2, <1>17
    <3>3. shelf'[Backup] \in {Plain(arc'.target), Plain(Foreign)}
      <4>1. OverwriteFits
        BY DEF ArcInv, FirstFits
      <4>2. shelf[Backup] \in {Plain(arc.target), Plain(Foreign)}
        BY <4>1, <1>18 DEF OverwriteFits
      <4> QED BY <4>2, <2>2, <1>4, <1>7
    <3> QED BY <3>1, <3>2, <3>3, <2>2, <2>6 DEF OverwriteFits, Goal
  <2> QED BY <2>3, <2>5, <2>7, <2>8, <1>13, <1>14 DEF ArcInv
<1>19. CASE arc.kept # {Backup}
  <2>1. arc' = [arc EXCEPT !.pc = "entry", !.todo = Tail(arc.todo), !.kept = {}]
    BY <1>19
  <2>2. arc' \in ArcRecords(arc'.todo) /\ arc'.pc = "entry" /\ arc'.act = "unpack" /\ arc'.jobs = arc.jobs
        /\ arc'.rule = arc.rule /\ arc'.print = arc.print /\ arc'.kept = {} /\ arc'.todo = Tail(arc.todo)
        /\ arc'.skipped = arc.skipped
    BY <2>1, <1>1, UnpackPcs DEF ArcRecords
  <2>3. /\ ArcTypes' /\ ForeignIsNew' /\ PackFits'
        /\ (OverwriteFits' => FirstFits') /\ (\A k : E(k)' = E(k))
    BY <2>2, <1>6, <1>7, <1>10, <1>1, LoadFrame
  <2>4. /\ Distinct(arc.print.has)' /\ \A k \in 1 .. Len(arc'.print.has) : E(k)'.label \in Labels
        /\ shelf'[Pack] = arc'.print \/ \A k \in 1 .. Len(arc'.print.has) : E(k)'.file \in marks'.swapped
    BY <2>2, <1>6, <1>7, <1>10, <1>1, LoadFrame
  <2>5. HiddenFits' /\ ArchivesTrue'
    <3>1. ~Is(Backup)
      BY <1>19 DEF ArcInv, HiddenFits
    <3> QED BY <3>1, <2>2, <1>6, <1>7 DEF HiddenFits, Is, Unpacking, Loading, Ended, ArchivesTrue
  <2>6. Past(arc.print.has, arc.todo)' = n + 1
    BY <2>2, <1>11 DEF n
  <2>7. UnpackFits'
    <3>1. \A k \in 1 .. n + 1 : Placed_(k)'
      <4>1. \A k \in 1 .. n : Placed_(k)'
        BY <2>2, <1>15
      <4>2. ASSUME NEW k \in 1 .. n + 1, k = n + 1 PROVE Placed_(k)'
        <5>1. \/ shelf'[Goal(E(k))] = E(k).file
              \/ arc.rule = "renameNew" /\ shelf'[FreeName(Goal(E(k)))] = E(k).file
          BY <4>2, <1>2, <1>4, <1>6, <1>11
        <5> QED BY <5>1, <2>2, <2>3 DEF Placed_, Goal, FreeName
      <4>3. \A k \in 1 .. n + 1 : k \in 1 .. n \/ k = n + 1
        BY <1>11
      <4> QED BY <4>1, <4>2, <4>3
    <3>2. arc'.todo \in Seq(Entry1) /\ RestOf(arc.print.has, arc.todo)'
      BY <2>2, <1>11
    <3> QED BY <2>2, <2>4, <2>6, <3>1, <3>2 DEF UnpackFits
  <2>8. OverwriteFits'
    <3> SUFFICES ASSUME arc.jobs = 1, arc.rule = "overwrite" PROVE OverwriteFits'
      BY <2>2 DEF OverwriteFits
    <3>1. \A f \in marks'.overruled : f.name \in OutSpots =>
            \E k \in 1 .. Len(arc.print.has) : k <= n + 1 /\ f = Plain(Goal(E(k)')) /\ shelf'[Goal(E(k)')] = E(k)'.file
      <4> SUFFICES ASSUME NEW f \in marks'.overruled, f.name \in OutSpots
                   PROVE  \E k \in 1 .. Len(arc.print.has) : k <= n + 1 /\ f = Plain(Goal(E(k)')) /\ shelf'[Goal(E(k)')] = E(k)'.file
        OBVIOUS
      <4>1. PICK k \in 1 .. Len(arc.print.has) : k <= n /\ f = Plain(Goal(E(k))) /\ shelf'[Goal(E(k))] = E(k).file
        BY <1>16
      <4>2. k <= n + 1
        BY <4>1, <1>11
      <4> QED BY <4>1, <4>2, <2>3
    <3>2. \A k \in (n + 1) + 1 .. Len(arc.print.has) : OwnName(Goal(E(k)))'
      <4> SUFFICES ASSUME NEW k \in (n + 1) + 1 .. Len(arc.print.has) PROVE OwnName(Goal(E(k)))'
        OBVIOUS
      <4>1. k \in n + 2 .. Len(arc.print.has)
        BY <1>11
      <4> QED BY <4>1, <2>2, <1>17
    <3> QED BY <3>1, <3>2, <2>2, <2>6 DEF OverwriteFits, Goal
  <2> QED BY <2>3, <2>5, <2>7, <2>8, <1>13, <1>14 DEF ArcInv
<1> QED BY <1>18, <1>19

\* The staging file cannot be moved, and what was put aside goes back.
LEMMA CommitRestores ==
    ASSUME ArcInv, arc.act = "unpack", arc.pc = "commit", NEW s \in arc.kept,
           shelf' = [shelf EXCEPT ![arc.target] = shelf[s], ![s] = NoFile, ![Staging] = NoFile],
           marks' = [marks EXCEPT !.emptied = @ \cup (Held(arc.target) \ {NoFile})],
           arc' = [arc EXCEPT !.pc = "error", !.kept = {}]
    PROVE  ArcInv'
<1> DEFINE n == Past(arc.print.has, arc.todo)
<1>1. arc.pc \in Unpacking /\ arc.pc \in Loading /\ ArcTypes
      /\ arc \in ArcRecords(arc.todo) /\ arc.pc \in Loading \ {"entry"}
  BY DEF Unpacking, Loading, ArcInv, ArcTypes
<1>2. /\ arc.todo # <<>> /\ arc.target \in OutSpots /\ FreeName(Goal(InHand)) \in OutSpots /\ Goal(InHand) \in OutSpots
      /\ arc.target = Goal(InHand) \/ (arc.rule = "renameNew" /\ arc.target = FreeName(Goal(InHand)))
  BY <1>1, TargetFacts
<1>3. /\ shelf[Staging] = InHand.file /\ FreeOrForeign(arc.target)
      /\ \/ s = Backup /\ arc.rule = "overwrite"
         \/ s = FreeName(arc.target) /\ arc.rule = "renameExisting" /\ FreeName(arc.target) # arc.target
  BY <1>1 DEF ArcInv, UnpackFits
<1>4. PICK t \in OutSpots : t = arc.target
  BY <1>2
<1>5. t \in Spots /\ t \notin {Pack, Spare, Staging, Backup} /\ Staging \notin {Pack, Spare, Backup} /\ Staging \in Spots
      /\ Pack \in Spots /\ Backup \in Spots /\ Staging \notin OutSpots /\ Backup \notin OutSpots
      /\ (\A r \in OutSpots : r \in Spots) /\ Pack # Backup
  BY SpotFacts
<1>6. s \in Spots /\ s # t /\ s # Staging /\ s # Pack /\ (s = Backup \/ arc.rule = "renameExisting")
  <2>1. s = Backup \/ s \in OutSpots
    BY <1>2, <1>3
  <2>2. \A r \in OutSpots : r # Pack /\ r # Staging
    BY SpotFacts
  <2> QED BY <2>1, <2>2, <1>3, <1>4, <1>5
<1>7. /\ shelf' \in [Spots -> Depth2] /\ shelf'[t] = shelf[s] /\ shelf'[Staging] = NoFile /\ shelf'[s] = NoFile
      /\ \A r \in Spots \ {t, s, Staging} : shelf'[r] = shelf[r]
  <2>1. shelf \in [Spots -> Depth2] /\ NoFile \in Depth2
    BY <1>1, Bares, BareFacts DEF ArcTypes
  <2> QED BY <2>1, <1>4, <1>5, <1>6
<1>8. shelf[s] \in Bare
  <2>1. s # Spare
    BY <1>2, <1>3, SpotFacts
  <2> QED BY <2>1, <1>1, <1>6 DEF ArcTypes
<1>9. shelf'[Pack] = shelf[Pack] /\ \A r \in Spots \ {Pack, Spare} : shelf'[r] \in Bare
  BY <1>1, <1>5, <1>6, <1>7, <1>8, Bares DEF ArcTypes
<1>10. Held(t) \subseteq Depth2 /\ FreeOrForeign(t)
  BY <1>1, <1>3, <1>4, <1>5, HeldIn
<1>11. PICK e : e = marks.emptied \cup (Held(t) \ {NoFile})
  OBVIOUS
<1>12. /\ marks' \in [begun : SUBSET Depth2, overruled : SUBSET Depth2, emptied : SUBSET Depth2,
                      swapped : SUBSET Depth2, meddled : BOOLEAN, crowded : BOOLEAN]
       /\ marks'.begun = marks.begun /\ marks'.overruled = marks.overruled /\ marks'.swapped = marks.swapped
       /\ marks'.meddled = marks.meddled /\ marks'.emptied = e
  <2>1. marks' = [marks EXCEPT !.emptied = e]
    BY <1>4, <1>11
  <2>2. e \subseteq Depth2
    BY <1>1, <1>10, <1>11 DEF ArcTypes
  <2> QED BY <2>1, <2>2, <1>1 DEF ArcTypes
<1>13. arc' \in ArcRecords(arc'.todo) /\ arc'.pc = "error" /\ arc'.act = "unpack" /\ arc'.jobs = arc.jobs
       /\ arc'.rule = arc.rule /\ arc'.print = arc.print /\ arc'.kept = {} /\ arc'.todo = arc.todo
  BY <1>1, UnpackPcs DEF ArcRecords
<1>14. ArcTypes' /\ ForeignIsNew'
  BY <1>7, <1>9, <1>12, <1>13 DEF ArcInv, ArcTypes, ForeignIsNew
<1>15. PackFits' /\ UnpackFits' /\ ArchivesTrue'
  BY <1>13 DEF PackFits, UnpackFits, ArchivesTrue, Unpacking, Loading
<1>16. HiddenFits'
  BY <1>7, <1>13 DEF HiddenFits, Is, Ended
<1>17. n \in 0 .. Len(arc.print.has) /\ n + 1 \in 1 .. Len(arc.print.has) /\ InHand = E(n + 1)
       /\ Len(arc.print.has) \in Nat
  BY <1>1, <1>2, InHandFacts, EntryFacts
<1>18. NoneMissing'
  <2>1. \A r \in Spots \ {t, s, Staging} : Held(r) \subseteq OnShelf'
    BY <1>7, HeldStays
  <2>2. Held(s) \subseteq OnShelf'
    BY <1>5, <1>6, <1>7, HeldStays
  <2>3. \A f \in Held(t) : f.kind = "file" => f \in marks'.emptied
    BY <1>11, <1>12, Bares
  <2>4. \A f \in Held(Staging) : f \in OnShelf' \/ f \in marks'.swapped
    <3>1. shelf[Staging] \in Bare /\ shelf[Staging] = E(n + 1).file
      BY <1>1, <1>3, <1>17, SpotFacts DEF ArcTypes
    <3>2. Held(Staging) = {E(n + 1).file}
      BY <3>1, BareHeld
    <3>3. E(n + 1).file \in Held(Pack) \/ E(n + 1).file \in marks.swapped
      BY <1>1, <1>17, StagedIsPacked
    <3>4. Held(Pack) \subseteq OnShelf'
      BY <2>1, <1>5, <1>6
    <3> QED BY <3>2, <3>3, <3>4, <1>12
  <2>5. NoneMissing /\ marks.emptied \subseteq marks'.emptied
    BY <1>11, <1>12 DEF ArcInv
  <2> QED BY <2>1, <2>2, <2>3, <2>4, <2>5, <1>12, StillThere
<1>19. OnlyCrowded'
  BY <1>1, <1>4, <1>5, <1>10, OnlyForeignEmptied DEF ArcInv
<1>20. FirstFits'
  <2>1. FirstFits /\ arc.jobs # 0
    BY <1>1, EntryFacts DEF ArcInv
  <2>2. Held(Pack)' = Held(Pack)
    BY <1>9 DEF Held
  <2>3. \A k : E(k)' = E(k)
    BY <1>13 DEF E
  <2>4. ASSUME arc.jobs = 1, arc.rule = "overwrite" PROVE OverwriteFits'
    <3>1. ASSUME NEW f \in marks'.overruled, f.name \in OutSpots
          PROVE  \E k \in 1 .. Len(arc.print.has) : k <= n /\ f = Plain(Goal(E(k)')) /\ shelf'[Goal(E(k)')] = E(k)'.file
      <4>1. PICK k \in 1 .. Len(arc.print.has) : k <= n /\ f = Plain(Goal(E(k))) /\ shelf[Goal(E(k))] = E(k).file
        BY <2>1, <2>4, <3>1, <1>12 DEF FirstFits, OverwriteFits
      <4>2. k \in 1 .. Len(arc.print.has) /\ k # n + 1 /\ n + 1 \in 1 .. Len(arc.print.has)
        BY <4>1, <1>17
      <4>3. Goal(E(k)) \in OutSpots /\ Goal(E(k)) # Goal(InHand)
        BY <4>2, <1>1, <1>17, EntryFacts
      <4>4. arc.target = Goal(InHand) /\ s = Backup
        BY <2>4, <1>2, <1>6
      <4>5. Goal(E(k)) \in Spots \ {t, s, Staging}
        BY <4>3, <4>4, <1>4, <1>5
      <4> QED BY <4>1, <4>5, <1>7, <2>3
    <3>2. Past(arc.print.has, arc.todo)' = n
      BY <1>13
    <3> HIDE DEF n
    <3> QED BY <3>1, <3>2, <1>13 DEF OverwriteFits, Goal, Loading
  <2>5. OverwriteFits'
    BY <2>4, <1>13 DEF OverwriteFits
  <2> QED BY <2>1, <2>2, <2>5, <1>12, <1>13 DEF FirstFits
<1> QED BY <1>14, <1>15, <1>16, <1>18, <1>19, <1>20 DEF ArcInv

LEMMA UnpackCommitKeeps == ASSUME ArcInv, UnpackCommit, arc.act = "unpack" PROVE ArcInv'
<1>1. arc.pc = "commit" /\ arc.pc \in Unpacking /\ arc.pc \in Loading /\ ArcTypes
  BY DEF UnpackCommit, Unpacking, Loading, ArcInv
<1>2. ASSUME Unstage
      PROVE  /\ shelf' \in [Spots -> Depth2] /\ shelf'[Staging] = NoFile
             /\ \A r \in Spots \ {Staging} : shelf'[r] = shelf[r]
  BY <1>1, <1>2, SpotFacts, Bares, BareFacts DEF Unstage, ArcTypes
<1>3. CASE /\ shelf' = [shelf EXCEPT ![arc.target] = shelf[Staging], ![Staging] = NoFile]
           /\ marks' = [marks EXCEPT !.emptied = @ \cup (Held(arc.target) \ {NoFile})]
           /\ arc' = IF arc.kept = {Backup} THEN [arc EXCEPT !.pc = "drop"]
                     ELSE [arc EXCEPT !.pc = "entry", !.todo = Tail(@), !.kept = {}]
  BY <1>1, <1>3, CommitMoves
<1>4. CASE arc' = [arc EXCEPT !.pc = "error", !.kept = {}] /\ Unstage /\ UNCHANGED marks
  <2>1. PICK K \in {arc.kept, {}} : K = {}
    OBVIOUS
  <2>2. arc' = [arc EXCEPT !.pc = "error", !.kept = K] /\ K = {}
    BY <2>1, <1>4
  <2> QED BY <2>2, <1>1, <1>2, <1>4, UnpackStops
<1>5. CASE /\ arc' = [arc EXCEPT !.pc = "error", !.kept = {}]
           /\ \E s \in arc.kept :
                 shelf' = [shelf EXCEPT ![arc.target] = shelf[s], ![s] = NoFile, ![Staging] = NoFile]
           /\ marks' = [marks EXCEPT !.emptied = @ \cup (Held(arc.target) \ {NoFile})]
  BY <1>1, <1>5, CommitRestores
<1> QED BY <1>3, <1>4, <1>5 DEF UnpackCommit

LEMMA UnpackDropKeeps == ASSUME ArcInv, UnpackDrop, arc.act = "unpack" PROVE ArcInv'
<1> DEFINE n == Past(arc.print.has, arc.todo)
<1>1. arc.pc = "drop" /\ arc.pc \in Unpacking /\ arc.pc \in Loading /\ ArcTypes
      /\ arc \in ArcRecords(arc.todo) /\ arc.pc \in Loading \ {"entry"} /\ shelf \in [Spots -> Depth2]
  BY DEF UnpackDrop, Unpacking, Loading, ArcInv, ArcTypes
<1>2. arc.kept = {Backup} /\ arc.rule = "overwrite" /\ Is(Backup) /\ shelf[arc.target] = InHand.file /\ ~Is(Staging)
  BY <1>1 DEF ArcInv, UnpackFits, HiddenFits
<1>3. CASE Ends("error") /\ UNCHANGED <<shelf, marks>>
  BY <1>1, <1>2, <1>3, UnpackEnds
<1>4. CASE /\ shelf' = [shelf EXCEPT ![Backup] = NoFile]
           /\ marks' = [marks EXCEPT !.overruled = @ \cup Held(Backup)]
           /\ arc' = [arc EXCEPT !.pc = "entry", !.todo = Tail(@), !.kept = {}]
  <2>1. arc.todo # <<>> /\ arc.target \in OutSpots /\ arc.target = Goal(InHand)
    BY <1>1, <1>2, TargetFacts
  <2>2. /\ n \in 0 .. Len(arc.print.has) /\ n + 1 \in 1 .. Len(arc.print.has) /\ InHand = E(n + 1)
        /\ RestOf(arc.print.has, Tail(arc.todo)) /\ Past(arc.print.has, Tail(arc.todo)) = n + 1
        /\ Tail(arc.todo) \in Seq(Entry1) /\ Len(arc.print.has) \in Nat
    BY <1>1, <2>1, InHandFacts, EntryFacts
  <2>3. \A k \in 1 .. Len(arc.print.has) : Goal(E(k)) \in OutSpots /\ (Goal(E(k)) = Goal(InHand) => k = n + 1)
    BY <2>2, <1>1, EntryFacts
  <2>4. /\ Backup \in Spots /\ Backup \notin OutSpots /\ Backup \notin {Pack, Spare, Staging} /\ Pack \in Spots
        /\ Staging \in Spots /\ \A r \in OutSpots : r \in Spots
    BY SpotFacts
  <2>5. shelf' \in [Spots -> Depth2] /\ shelf'[Backup] = NoFile /\ \A r \in Spots \ {Backup} : shelf'[r] = shelf[r]
    BY <1>1, <1>4, <2>4, Bares, BareFacts
  <2>6. /\ shelf'[Pack] = shelf[Pack] /\ (\A r \in Spots \ {Pack, Spare} : shelf'[r] \in Bare)
        /\ shelf'[Staging] = shelf[Staging] /\ \A r \in OutSpots : shelf'[r] = shelf[r]
    BY <1>1, <2>4, <2>5, Bares DEF ArcTypes
  <2>7. shelf[Backup] \in Bare /\ Held(Backup) = {shelf[Backup]} /\ Held(Backup) \subseteq Depth2
    BY <1>1, <2>4, BareHeld, HeldIn DEF ArcTypes
  <2>8. PICK v : v = marks.overruled \cup Held(Backup)
    OBVIOUS
  <2>9. /\ marks' \in [begun : SUBSET Depth2, overruled : SUBSET Depth2, emptied : SUBSET Depth2,
                      swapped : SUBSET Depth2, meddled : BOOLEAN, crowded : BOOLEAN]
        /\ marks'.begun = marks.begun /\ marks'.overruled = v /\ marks'.swapped = marks.swapped
        /\ marks'.meddled = marks.meddled /\ marks'.emptied = marks.emptied /\ marks'.crowded = marks.crowded
    <3>1. marks' = [marks EXCEPT !.overruled = v]
      BY <1>4, <2>8
    <3>2. v \subseteq Depth2
      BY <1>1, <2>7, <2>8 DEF ArcTypes
    <3> QED BY <3>1, <3>2, <1>1 DEF ArcTypes
  <2>10. arc' \in ArcRecords(arc'.todo) /\ arc'.pc = "entry" /\ arc'.act = "unpack" /\ arc'.jobs = arc.jobs
         /\ arc'.rule = arc.rule /\ arc'.print = arc.print /\ arc'.kept = {} /\ arc'.todo = Tail(arc.todo)
         /\ arc'.skipped = arc.skipped
    <3>1. arc' = [arc EXCEPT !.pc = "entry", !.todo = Tail(arc.todo), !.kept = {}]
      BY <1>4
    <3> QED BY <3>1, <1>1, UnpackPcs DEF ArcRecords
  <2>11. /\ ArcTypes' /\ ForeignIsNew' /\ PackFits'
         /\ (OverwriteFits' => FirstFits') /\ (\A k : E(k)' = E(k))
    BY <2>5, <2>6, <2>9, <2>10, <1>1, <1>2, LoadFrame
  <2>12. /\ Distinct(arc.print.has)' /\ \A k \in 1 .. Len(arc'.print.has) : E(k)'.label \in Labels
         /\ shelf'[Pack] = arc'.print \/ \A k \in 1 .. Len(arc'.print.has) : E(k)'.file \in marks'.swapped
    BY <2>5, <2>6, <2>9, <2>10, <1>1, <1>2, LoadFrame
  <2>13. HiddenFits' /\ ArchivesTrue'
    BY <2>5, <2>6, <2>10, <1>2 DEF HiddenFits, Is, Unpacking, Loading, Ended, ArchivesTrue
  <2>14. NoneMissing'
    <3>1. \A r \in Spots \ {Backup} : Held(r) \subseteq OnShelf'
      BY <2>5, HeldStays
    <3>2. \A f \in Held(Backup) : f \in marks'.overruled
      BY <2>8, <2>9
    <3>3. NoneMissing /\ marks.overruled \subseteq marks'.overruled
      BY <2>8, <2>9 DEF ArcInv
    <3> QED BY <3>1, <3>2, <3>3, <2>9, StillThere
  <2>15. OnlyCrowded'
    BY <2>9 DEF ArcInv, OnlyCrowded
  <2>16. Past(arc.print.has, arc.todo)' = n + 1
    BY <2>2, <2>10
  <2>17. UnpackFits'
    <3>1. ASSUME NEW k \in 1 .. n + 1 PROVE Placed_(k)'
      <4>1. k \in 1 .. Len(arc.print.has)
        BY <2>2
      <4>2. Goal(E(k)) \in OutSpots /\ FreeName(Goal(E(k))) \in OutSpots
        BY <4>1, <1>1, EntryFacts
      <4>3. CASE k \in 1 .. n
        <5>1. Placed_(k)
          BY <4>3, <1>1 DEF ArcInv, UnpackFits
        <5> QED BY <5>1, <4>2, <2>6, <2>10, <2>11 DEF Placed_, Goal, FreeName
      <4>4. CASE k = n + 1
        <5>1. shelf'[Goal(E(k))] = E(k).file
          BY <4>4, <4>2, <1>2, <2>1, <2>2, <2>6
        <5> QED BY <5>1, <2>11 DEF Placed_, Goal
      <4> QED BY <4>3, <4>4, <2>2
    <3>2. arc'.todo \in Seq(Entry1) /\ RestOf(arc.print.has, arc.todo)'
      BY <2>2, <2>10
    <3> HIDE DEF n
    <3> QED BY <2>10, <2>12, <2>16, <3>1, <3>2 DEF UnpackFits
  <2>18. OverwriteFits'
    <3> SUFFICES ASSUME arc.jobs = 1 PROVE OverwriteFits'
      BY <2>10 DEF OverwriteFits
    <3>1. OverwriteFits
      BY DEF ArcInv, FirstFits
    <3>2. ASSUME NEW f \in marks'.overruled, f.name \in OutSpots
          PROVE  \E k \in 1 .. Len(arc.print.has) : k <= n + 1 /\ f = Plain(Goal(E(k)')) /\ shelf'[Goal(E(k)')] = E(k)'.file
      <4>1. CASE f \in marks.overruled
        <5>1. PICK k \in 1 .. Len(arc.print.has) : k <= n /\ f = Plain(Goal(E(k))) /\ shelf[Goal(E(k))] = E(k).file
          BY <3>1, <3>2, <4>1, <1>2 DEF OverwriteFits
        <5>2. Goal(E(k)) \in OutSpots /\ k \in 1 .. n + 1
          BY <5>1, <2>2, <2>3
        <5> QED BY <5>1, <5>2, <2>6, <2>11
      <4>2. CASE f = shelf[Backup]
        <5>1. f \in {Plain(arc.target), Plain(Foreign)}
          BY <4>2, <3>1, <1>1, <1>2 DEF OverwriteFits
        <5>2. f # Plain(Foreign)
          BY <3>2, ArchiveConstants, SpotFacts, Bares
        <5>3. f = Plain(Goal(E(n + 1))) /\ shelf'[Goal(E(n + 1))] = E(n + 1).file
             /\ n + 1 \in 1 .. Len(arc.print.has) /\ n + 1 <= n + 1
          BY <5>1, <5>2, <2>1, <2>2, <2>6, <1>2
        <5> QED BY <5>3, <2>11
      <4> QED BY <4>1, <4>2, <3>2, <2>7, <2>8, <2>9
    <3>3. ASSUME NEW k \in (n + 1) + 1 .. Len(arc.print.has) PROVE OwnName(Goal(E(k)))'
      <4>1. k \in n + 1 .. Len(arc.print.has) /\ k # n + 1 /\ k \in 1 .. Len(arc.print.has)
        BY <2>2
      <4>2. OwnName(Goal(E(k))) /\ Goal(E(k)) \in OutSpots
        BY <4>1, <3>1, <1>1, <1>2, <2>3 DEF OverwriteFits
      <4>3. shelf'[Goal(E(k))] = shelf[Goal(E(k))]
        BY <4>2, <2>6
      <4> QED BY <4>2, <4>3, <2>11 DEF OwnName, Goal
    <3> HIDE DEF n
    <3> QED BY <3>2, <3>3, <2>10, <2>16 DEF OverwriteFits, Goal
  <2> QED BY <2>11, <2>13, <2>14, <2>15, <2>17, <2>18 DEF ArcInv
<1> QED BY <1>3, <1>4 DEF UnpackDrop

-----------------------------------------------------------------------------
(* What happens beside an operation.                                        *)

LEMMA CancelArchiveKeeps == ASSUME ArcInv, CancelArchive PROVE ArcInv'
<1>1. arc' = [arc EXCEPT !.cancel = TRUE] /\ UNCHANGED <<shelf, marks>> /\ arc.pc \notin Ended
  BY DEF CancelArchive
<1>2. arc \in ArcRecords(arc.todo)
  BY DEF ArcInv, ArcTypes
<1>3. /\ arc' \in ArcRecords(arc'.todo)
      /\ arc'.pc = arc.pc /\ arc'.jobs = arc.jobs /\ arc'.act = arc.act /\ arc'.rule = arc.rule
      /\ arc'.format = arc.format /\ arc'.sacks = arc.sacks /\ arc'.items = arc.items /\ arc'.wanted = arc.wanted
      /\ arc'.todo = arc.todo /\ arc'.target = arc.target /\ arc'.print = arc.print /\ arc'.kept = arc.kept
      /\ arc'.skipped = arc.skipped
  BY <1>1, <1>2 DEF ArcRecords
<1>4. shelf' = shelf /\ marks' = marks
  BY <1>1
<1>5. ArcTypes'
  BY <1>3, <1>4 DEF ArcInv, ArcTypes
<1>6. ForeignIsNew' /\ NoneMissing' /\ OnlyCrowded'
  BY <1>1, QuietStep
<1>7. PackFits'
  BY <1>3, <1>4 DEF ArcInv, PackFits, ItemsFit, OwnSource, Undisturbed, Intact, MadeFits, FreeOrForeign, Distinct
<1>8. \A k : E(k)' = E(k)
  BY <1>3 DEF E
<1>9. InHand' = InHand
  BY <1>3 DEF InHand
<1>10. UnpackFits'
  BY <1>3, <1>4, <1>8, <1>9 DEF ArcInv, UnpackFits, Distinct, Placed_, PlacedOff, Is, FreeOrForeign, Goal, FreeName
<1>11. HiddenFits'
  BY <1>3, <1>4 DEF ArcInv, HiddenFits, Is
<1>12. FirstFits'
  <2>1. Held(Pack)' = Held(Pack) /\ \A s : OwnName(s)' <=> OwnName(s)
    BY <1>4 DEF Held, OwnName
  <2>2. FirstFits
    BY DEF ArcInv
  <2>3. OverwriteFits'
    <3>1. OverwriteFits
      BY <2>2 DEF FirstFits
    <3> QED BY <3>1, <1>3, <1>4, <1>8 DEF OverwriteFits, OwnName, Goal
  <2> QED BY <2>1, <2>2, <2>3, <1>3, <1>4 DEF FirstFits
<1>13. ArchivesTrue'
  BY <1>1, <1>3 DEF ArchivesTrue, Ended
<1> QED BY <1>5, <1>6, <1>7, <1>10, <1>11, <1>12, <1>13 DEF ArcInv

LEMMA ArchiveCrashKeeps == ASSUME ArcInv, ArchiveCrash PROVE ArcInv'
<1>1. Ends("crashed") /\ UNCHANGED <<shelf, marks>> /\ arc.pc \notin Ended \cup {"idle", "crashed"}
  BY DEF ArchiveCrash
<1>2. shelf \in [Spots -> Depth2] /\ arc.act \in {"pack", "unpack"}
  BY DEF ArcInv, ArcTypes, ArcRecords
<1>3. CASE arc.act = "pack"
  <2>1. arc.pc \in Packing
    BY <1>1, <1>3 DEF ArcInv, HiddenFits, Resting
  <2> QED BY <2>1, <1>1, <1>3, PackEnds
<1>4. CASE arc.act = "unpack"
  <2>1. arc.pc \in Unpacking
    BY <1>1, <1>4 DEF ArcInv, HiddenFits
  <2> QED BY <2>1, <1>1, <1>2, <1>4, UnpackEnds
<1> QED BY <1>2, <1>3, <1>4

LEMMA MeddleKeeps == ASSUME ArcInv, Meddle PROVE ArcInv'
<1> USE DEF ArcInv
<1>1. PICK s \in ForeignAt :
        /\ IF s = Pack THEN TRUE ELSE ~Is(s)
        /\ s = Pack /\ Is(Pack) => arc.act = "unpack"
        /\ shelf' = [shelf EXCEPT ![s] = Plain(Foreign)]
        /\ marks' = [marks EXCEPT !.meddled = TRUE, !.swapped = IF s = Pack THEN Held(Pack) ELSE {}]
  BY DEF Meddle
<1>2. arc' = arc /\ arc.pc \notin Ended \cup {"idle", "crashed"} /\ ~marks.meddled /\ ArcTypes
  BY DEF Meddle
<1>3. s \in Spots /\ s \notin {Staging, Backup} /\ Staging \in Spots /\ Backup \in Spots /\ Pack \in Spots
  BY ArchiveConstants, SpotFacts
<1>4. Plain(Foreign) \in Bare /\ Plain(Foreign) \in Depth1 /\ Plain(Foreign) \in Depth2 /\ Plain(Foreign) # NoFile
  BY Bares, BareFacts
<1>5. /\ shelf' \in [Spots -> Depth2] /\ shelf'[s] = Plain(Foreign)
      /\ \A r \in Spots \ {s} : shelf'[r] = shelf[r]
  BY <1>1, <1>2, <1>3, <1>4 DEF ArcTypes
<1>6. shelf'[Pack] \in Depth1 /\ \A r \in Spots \ {Pack, Spare} : shelf'[r] \in Bare
  BY <1>2, <1>3, <1>4, <1>5 DEF ArcTypes
<1>7. marks.swapped = {}
  BY <1>2 DEF ForeignIsNew
<1>8. Held(Pack) \subseteq Depth2
  BY <1>2, <1>3, HeldIn
<1>9. /\ marks'.begun = marks.begun /\ marks'.overruled = marks.overruled /\ marks'.emptied = marks.emptied
      /\ marks'.crowded = marks.crowded /\ marks'.meddled = TRUE
      /\ marks'.swapped = (IF s = Pack THEN Held(Pack) ELSE {})
      /\ marks' \in [begun : SUBSET Depth2, overruled : SUBSET Depth2, emptied : SUBSET Depth2,
                     swapped : SUBSET Depth2, meddled : BOOLEAN, crowded : BOOLEAN]
  <2>1. PICK w : w = IF s = Pack THEN Held(Pack) ELSE {}
    OBVIOUS
  <2>2. w \subseteq Depth2
    BY <2>1, <1>8
  <2>3. marks' = [marks EXCEPT !.meddled = TRUE, !.swapped = w]
    BY <2>1, <1>1
  <2> QED BY <2>1, <2>2, <2>3, <1>2 DEF ArcTypes
<1>10. ArcTypes' /\ ForeignIsNew'
  BY <1>2, <1>5, <1>6, <1>9 DEF ArcTypes, ForeignIsNew
<1>11. NoneMissing'
  <2>1. \A r \in Spots \ {s} : Held(r) \subseteq OnShelf'
    BY <1>5, HeldStays
  <2>2. \A f \in Held(s) : f.kind = "file" => f \in marks'.swapped
    <3>1. CASE s = Pack
      BY <3>1, <1>9
    <3>2. CASE s # Pack
      <4>1. Held(s) = {NoFile}
        BY <3>2, <1>1, BareHeld, Bares DEF Is
      <4> QED BY <4>1, Bares
    <3> QED BY <3>1, <3>2
  <2> QED BY <2>1, <2>2, <1>7, <1>9, StillThere
<1>12. OnlyCrowded'
  BY <1>9 DEF OnlyCrowded
<1>13. ArchivesTrue'
  BY <1>2 DEF ArchivesTrue, Ended
<1>14. \A r \in Spots : (Is(r) => Is(r)') /\ (Is(r) /\ r # Pack => shelf'[r] = shelf[r])
  BY <1>1, <1>4, <1>5 DEF Is
<1>15. \A r \in Spots : r # Pack /\ FreeOrForeign(r) => FreeOrForeign(r)'
  BY <1>5 DEF FreeOrForeign
<1>16. shelf'[Staging] = shelf[Staging] /\ shelf'[Backup] = shelf[Backup]
  BY <1>3, <1>5
<1>17. CASE arc.act = "pack"
  <2>1. arc.pc \in Packing
    BY <1>2, <1>17 DEF HiddenFits, Resting
  <2>2. UnpackFits' /\ HiddenFits' /\ FirstFits'
    <3>1. arc' = [arc EXCEPT !.pc = arc'.pc, !.target = arc'.target, !.todo = arc'.todo, !.skipped = arc'.skipped]
      BY <1>2 DEF ArcTypes, ArcRecords
    <3> HIDE DEF ArcInv
    <3> QED BY <3>1, <2>1, <1>2, <1>9, <1>16, <1>17, PackStep
  <2>3. PackFits
    OBVIOUS
  <2>4. ~Undisturbed'
    BY <1>9 DEF Undisturbed
  <2>5. ItemsFit' /\ arc.target \in {Pack, Spare} /\ arc.target \in Spots
    BY <1>2, <1>17, <2>1, <2>3, SpotFacts DEF PackFits, ItemsFit
  <2>6. shelf[arc.target].kind = "part" => shelf'[arc.target] = shelf[arc.target]
    <3>1. shelf[arc.target].kind = "part" => Is(arc.target)
      BY Bares DEF Is
    <3> QED BY <3>1, <1>1, <1>5, <1>17, <2>5
  <2>7. arc.pc = "create" => marks'.crowded \/ FreeOrForeign(arc.target)'
    <3>1. arc.pc = "create" => marks.crowded \/ FreeOrForeign(arc.target)
      BY <2>1, <2>3, <1>17 DEF PackFits
    <3> QED BY <3>1, <1>2, <1>5, <1>9, <2>5 DEF FreeOrForeign
  <2>8. arc.pc = "add" => shelf'[arc.target].kind = "part" /\ MadeFits(Past(arc.items, arc.todo))'
    <3> SUFFICES ASSUME arc.pc = "add" PROVE shelf'[arc.target].kind = "part" /\ MadeFits(Past(arc.items, arc.todo))'
      OBVIOUS
    <3>1. shelf[arc.target].kind = "part" /\ MadeFits(Past(arc.items, arc.todo))
      BY <2>1, <2>3, <1>17 DEF PackFits
    <3> QED BY <3>1, <2>4, <2>6, <1>2 DEF MadeFits, Distinct
  <2>9. PackFits'
    <3>1. OwnSource' <=> OwnSource
      BY <1>2 DEF OwnSource
    <3> QED BY <1>2, <1>9, <1>17, <2>1, <2>3, <2>4, <2>5, <2>7, <2>8, <3>1 DEF PackFits
  <2> QED BY <1>10, <1>11, <1>12, <1>13, <2>2, <2>9
<1>18. CASE arc.act = "unpack"
  <2>1. arc.pc \in Unpacking /\ arc.jobs # 0
    BY <1>2, <1>18, EntryFacts DEF HiddenFits
  <2>2. PackFits'
    BY <1>2, <1>18 DEF PackFits
  <2>3. \A k : E(k)' = E(k)
    BY <1>2 DEF E
  <2>4. InHand' = InHand
    BY <1>2 DEF InHand
  <2>5. HiddenFits'
    BY <1>2, <1>16 DEF HiddenFits, Is
  <2>6. \A k \in 1 .. Len(arc.print.has) : /\ E(k).file # NoFile /\ Goal(E(k)) \in Spots /\ Goal(E(k)) # Pack
                 /\ FreeName(Goal(E(k))) \in Spots /\ FreeName(Goal(E(k))) # Pack
    BY <1>18, <2>1, EntryFacts, SpotFacts
  \* A file of an entry that is in its place stays there.
  <2>7. \A k \in 1 .. Len(arc.print.has) :
          /\ shelf[Goal(E(k))] = E(k).file => shelf'[Goal(E(k))] = E(k).file
          /\ shelf[FreeName(Goal(E(k)))] = E(k).file => shelf'[FreeName(Goal(E(k)))] = E(k).file
    BY <2>6, <1>14 DEF Is
  <2>8. arc.pc \in Loading => Past(arc.print.has, arc.todo) \in 0 .. Len(arc.print.has) /\ Len(arc.print.has) \in Nat
    BY <1>18, <2>1, InHandFacts, EntryFacts
  <2>9. UnpackFits'
    <3>1. UnpackFits
      OBVIOUS
    <3>2. Distinct(arc.print.has)' /\ \A k \in 1 .. Len(arc'.print.has) : E(k)'.label \in Labels
      BY <3>1, <2>1, <2>3, <1>2, <1>18 DEF UnpackFits, Distinct
    <3>3. ASSUME arc.pc \in Loading
          PROVE  shelf'[Pack] = arc.print \/ \A k \in 1 .. Len(arc.print.has) : E(k).file \in marks'.swapped
      <4>1. CASE s # Pack
        BY <3>1, <3>3, <4>1, <2>1, <1>2, <1>3, <1>5, <1>7, <1>9, <1>18 DEF UnpackFits
      <4>2. CASE s = Pack
        <5>1. \A k \in 1 .. Len(arc.print.has) : E(k).file \in Held(Pack) \/ E(k).file \in marks.swapped
          BY <3>3, <1>18, StagedIsPacked
        <5> QED BY <5>1, <4>2, <1>7, <1>9
      <4> QED BY <4>1, <4>2
    <3>4. ASSUME arc.pc \in Loading, NEW k \in 1 .. Past(arc.print.has, arc.todo) PROVE Placed_(k)'
      <4>1. Placed_(k) /\ k \in 1 .. Len(arc.print.has)
        BY <3>1, <3>4, <2>1, <2>8, <1>18 DEF UnpackFits
      <4> QED BY <4>1, <2>3, <2>7, <1>2 DEF Placed_, Goal, FreeName
    <3>5. ASSUME arc.pc = "commit", NEW k \in 1 .. Past(arc.print.has, arc.todo) PROVE PlacedOff(k, arc.target)'
      <4>1. PlacedOff(k, arc.target) /\ k \in 1 .. Len(arc.print.has)
        BY <3>1, <3>5, <2>1, <2>8, <1>18 DEF UnpackFits, Loading
      <4> QED BY <4>1, <2>3, <2>7, <1>2 DEF PlacedOff, Goal, FreeName
    <3>6. ASSUME arc.pc \in Loading \ {"entry"}
          PROVE  arc.target \in Spots /\ arc.target # Pack /\ InHand.file # NoFile
      BY <3>6, <1>18, TargetFacts, SpotFacts
    <3>7. ASSUME arc.pc = "commit"
          PROVE  /\ FreeOrForeign(arc.target)'
                 /\ \/ arc.kept = {}
                    \/ arc.kept = {Backup} /\ arc.rule = "overwrite" /\ Is(Backup)'
                    \/ /\ arc.kept = {FreeName(arc.target)} /\ arc.rule = "renameExisting"
                       /\ FreeName(arc.target) # arc.target /\ Is(FreeName(arc.target))'
      <4>1. /\ FreeOrForeign(arc.target)
            /\ \/ arc.kept = {}
               \/ arc.kept = {Backup} /\ arc.rule = "overwrite" /\ Is(Backup)
               \/ /\ arc.kept = {FreeName(arc.target)} /\ arc.rule = "renameExisting"
                  /\ FreeName(arc.target) # arc.target /\ Is(FreeName(arc.target))
        BY <3>1, <3>7, <2>1, <1>18 DEF UnpackFits
      <4>2. FreeOrForeign(arc.target)'
        BY <4>1, <3>6, <3>7, <1>2, <1>5 DEF FreeOrForeign, Loading
      <4>3. Is(Backup) => Is(Backup)'
        BY <1>3, <1>14
      <4>4. arc.kept = {FreeName(arc.target)} /\ Is(FreeName(arc.target)) => Is(FreeName(arc.target))'
        <5>1. arc.kept \subseteq Spots
          BY <1>2 DEF ArcTypes, ArcRecords
        <5> QED BY <5>1, <1>2, <1>14 DEF Is, FreeName
      <4> QED BY <4>1, <4>2, <4>3, <4>4
    <3>8. ASSUME arc.pc = "drop"
          PROVE  arc.kept = {Backup} /\ arc.rule = "overwrite" /\ Is(Backup)' /\ shelf'[arc.target] = InHand.file
      <4>1. arc.kept = {Backup} /\ arc.rule = "overwrite" /\ Is(Backup) /\ shelf[arc.target] = InHand.file
        BY <3>1, <3>8, <2>1, <1>18 DEF UnpackFits
      <4>2. arc.target \in Spots /\ arc.target # Pack /\ InHand.file # NoFile
        BY <3>6, <3>8 DEF Loading
      <4> QED BY <4>1, <4>2, <1>3, <1>14 DEF Is
    <3>9. ASSUME arc.pc \in Loading PROVE arc.todo \in Seq(Entry1) /\ RestOf(arc.print.has, arc.todo)
      BY <3>1, <3>9, <2>1, <1>18 DEF UnpackFits
    <3>10. ASSUME arc.pc \in Loading \ {"entry"}
           PROVE  /\ arc.todo # <<>>
                  /\ arc'.target = Goal(InHand)' \/ (arc'.rule = "renameNew" /\ arc'.target = FreeName(Goal(InHand))')
      BY <3>1, <3>10, <2>1, <2>4, <1>2, <1>18 DEF UnpackFits, Goal, FreeName
    <3>11. arc.pc \in {"settle", "commit"} => shelf'[Staging] = InHand'.file
      BY <3>1, <2>1, <2>4, <1>16, <1>18 DEF UnpackFits
    <3>12. \A k \in 1 .. Past(arc.print.has, arc.todo) : arc.pc = "commit" => PlacedOff(k, arc.target)'
      BY <3>5
    <3>13. \A k \in 1 .. Past(arc.print.has, arc.todo) : arc.pc \in Loading => Placed_(k)'
      BY <3>4
    <3> HIDE DEF ArcInv
    <3> QED BY <3>2, <3>3, <3>7, <3>8, <3>9, <3>10, <3>11, <3>12, <3>13, <2>3, <2>4, <1>2
        DEF UnpackFits, FreeName, Is, FreeOrForeign
  <2>10. FirstFits'
    <3>1. FirstFits
      OBVIOUS
    <3>2. ASSUME arc.jobs = 1 PROVE \A f \in Held(Pack)' \cup marks'.swapped : f.name \notin OutSpots
      <4>1. \A f \in Held(Pack) : f.name \notin OutSpots
        BY <3>1, <3>2, <1>18 DEF FirstFits
      <4>2. CASE s = Pack
        <5>1. Held(Pack)' = {Plain(Foreign)}
          <6>1. shelf'[Pack] = Plain(Foreign) /\ Plain(Foreign).has = <<>>
            BY <4>2, <1>5 DEF Plain
          <6> QED BY <6>1 DEF Held
        <5>2. Plain(Foreign).name \notin OutSpots
          BY ArchiveConstants, Bares, SpotFacts
        <5> QED BY <5>1, <5>2, <4>1, <4>2, <1>9
      <4>3. CASE s # Pack
        <5>1. Held(Pack)' = Held(Pack)
          BY <4>3, <1>3, <1>5 DEF Held
        <5> QED BY <5>1, <4>1, <4>3, <1>9
      <4> QED BY <4>2, <4>3
    <3>3. ASSUME NEW r \in OutSpots, OwnName(r) PROVE OwnName(r)'
      <4>1. r \in Spots
        BY SpotFacts
      <4> QED BY <4>1, <3>3, <1>5 DEF OwnName
    <3>4. OverwriteFits'
      <4> SUFFICES ASSUME arc.jobs = 1, arc.rule = "overwrite" PROVE OverwriteFits'
        BY <1>2 DEF OverwriteFits
      <4>1. OverwriteFits
        BY <3>1 DEF FirstFits
      <4>2. arc.pc = "open" => marks'.overruled = {} /\ \A r \in OutSpots : OwnName(r)'
        BY <4>1, <3>3, <1>9, <1>18 DEF OverwriteFits
      <4>3. ASSUME NEW f \in marks'.overruled, f.name \in OutSpots
            PROVE  \E k \in 1 .. Len(arc.print.has) : k <= Past(arc.print.has, arc.todo) /\ f = Plain(Goal(E(k)')) /\ shelf'[Goal(E(k)')] = E(k)'.file
        <5>1. arc.pc \in Loading
          <6>1. arc.pc # "open"
            BY <4>1, <4>3, <1>9, <1>18 DEF OverwriteFits
          <6> QED BY <6>1, <2>1 DEF Unpacking
        <5>2. PICK k \in 1 .. Len(arc.print.has) : k <= Past(arc.print.has, arc.todo) /\ f = Plain(Goal(E(k))) /\ shelf[Goal(E(k))] = E(k).file
          BY <4>1, <4>3, <1>9, <1>18 DEF OverwriteFits
        <5>3. k \in 1 .. Len(arc.print.has)
          BY <5>1, <2>8
        <5> QED BY <5>2, <5>3, <2>3, <2>7
      <4>4. ASSUME arc.pc \in Loading, NEW k \in Past(arc.print.has, arc.todo) + 1 .. Len(arc.print.has)
            PROVE  OwnName(Goal(E(k)))' \/ (arc.pc = "drop" /\ k = Past(arc.print.has, arc.todo) + 1)
        <5>1. OwnName(Goal(E(k))) \/ (arc.pc = "drop" /\ k = Past(arc.print.has, arc.todo) + 1)
          BY <4>1, <4>4, <1>18 DEF OverwriteFits
        <5>2. k \in 1 .. Len(arc.print.has)
          BY <4>4, <2>8
        <5>3. Goal(E(k)) \in OutSpots
          BY <5>2, <1>18, <2>1, EntryFacts
        <5>4. OwnName(Goal(E(k))) => OwnName(Goal(E(k)))'
          <6>1. Goal(E(k)) \in Spots
            BY <5>3, SpotFacts
          <6> QED BY <6>1, <1>5, <2>3 DEF OwnName, Goal
        <5> QED BY <5>1, <5>4
      <4>5. arc.pc \in {"commit", "drop"} /\ arc.kept = {Backup} => shelf'[Backup] \in {Plain(arc.target), Plain(Foreign)}
        BY <4>1, <1>16, <1>18 DEF OverwriteFits
      <4> HIDE DEF ArcInv
      <4> QED BY <4>2, <4>3, <4>4, <4>5, <1>2 DEF OverwriteFits, Goal
    <3> QED BY <3>1, <3>2, <3>4, <1>2, <1>9, <2>1 DEF FirstFits
  <2> QED BY <1>10, <1>11, <1>12, <1>13, <2>2, <2>5, <2>9, <2>10
<1> QED BY <1>2, <1>17, <1>18 DEF ArcTypes, ArcRecords

-----------------------------------------------------------------------------
(* The invariant, and what follows from it.                                 *)

LEMMA ArcKinds ==
    ASSUME ArcInv, arc.pc \notin Resting \cup {"crashed"}
    PROVE  \/ arc.act = "pack" /\ arc.pc \in Packing
           \/ arc.act = "unpack" /\ arc.pc \in Unpacking
  BY DEF ArcInv, ArcTypes, ArcRecords, HiddenFits, Resting

LEMMA ArcNext == ASSUME ArcInv, [ArchiveNext]_archiveVars PROVE ArcInv'
<1>1. CASE PlanPack
  BY <1>1, PlanPackKeeps
<1>2. CASE PackLook \/ PackCreate \/ PackAdd \/ PackFinish
  <2>1. arc.pc \in Packing
    BY <1>2 DEF PackLook, PackCreate, PackAdd, PackFinish, Packing
  <2>2. arc.act = "pack"
    BY <2>1, ArcKinds DEF Packing, Unpacking, Loading, Resting, Ended
  <2> QED BY <1>2, <2>2, PackLookKeeps, PackCreateKeeps, PackAddKeeps, PackFinishKeeps
<1>3. CASE PlanUnpack
  BY <1>3, PlanUnpackKeeps
<1>4. CASE UnpackOpen \/ UnpackEntry \/ UnpackStage \/ UnpackSettle \/ UnpackCommit \/ UnpackDrop
  <2>1. arc.pc \in Unpacking
    BY <1>4 DEF UnpackOpen, UnpackEntry, UnpackStage, UnpackSettle, UnpackCommit, UnpackDrop, Unpacking, Loading
  <2>2. arc.act = "unpack"
    BY <2>1, ArcKinds DEF Packing, Unpacking, Loading, Resting, Ended
  <2> QED BY <1>4, <2>2, UnpackOpenKeeps, UnpackEntryKeeps, UnpackStageKeeps, UnpackSettleKeeps,
             UnpackCommitKeeps, UnpackDropKeeps
<1>5. CASE CancelArchive
  BY <1>5, CancelArchiveKeeps
<1>6. CASE Meddle
  BY <1>6, MeddleKeeps
<1>7. CASE ArchiveCrash
  BY <1>7, ArchiveCrashKeeps
<1>8. CASE UNCHANGED archiveVars
  <2>1. shelf' = shelf /\ arc' = arc /\ marks' = marks
    BY <1>8 DEF archiveVars
  <2>2. ForeignIsNew' /\ NoneMissing' /\ OnlyCrowded'
    BY <2>1, QuietStep
  <2>3. PackFits'
    BY <2>1 DEF ArcInv, PackFits, ItemsFit, OwnSource, Undisturbed, Intact, MadeFits, FreeOrForeign, Distinct
  <2>4. (\A k : E(k)' = E(k)) /\ InHand' = InHand
    BY <2>1 DEF E, InHand
  <2>5. UnpackFits'
    BY <2>1, <2>4 DEF ArcInv, UnpackFits, Distinct, Placed_, PlacedOff, Is, FreeOrForeign, Goal, FreeName
  <2>6. HiddenFits' /\ ArcTypes'
    BY <2>1 DEF ArcInv, HiddenFits, Is, ArcTypes
  <2>7. FirstFits'
    <3>1. Held(Pack)' = Held(Pack) /\ \A s : OwnName(s)' <=> OwnName(s)
      BY <2>1 DEF Held, OwnName
    <3>2. FirstFits
      BY DEF ArcInv
    <3>3. OverwriteFits'
      <4>1. OverwriteFits
        BY <3>2 DEF FirstFits
      <4> QED BY <4>1, <2>1, <2>4 DEF OverwriteFits, OwnName, Goal
    <3> QED BY <3>1, <3>2, <3>3, <2>1 DEF FirstFits
  <2>8. ArchivesTrue'
    <3>1. CASE arc.pc = "ok" /\ arc.act = "pack"
      <4>1. ArchivesTrue
        BY DEF ArcInv
      <4>2. OwnSource' <=> OwnSource
        BY <2>1 DEF OwnSource
      <4>3. Readable(shelf[arc.target])' <=> Readable(shelf[arc.target])
        BY <2>1 DEF Readable, Distinct
      <4>4. SUFFICES ASSUME Pack \notin arc.skipped, ~marks.meddled
                     PROVE  /\ shelf[arc.target].kind' = "archive"
                            /\ ~(OwnSource /\ arc.target = Pack)' =>
                                 {shelf[arc.target].has[k].file : k \in DOMAIN shelf[arc.target].has}'
                                     = {arc.wanted[k] : k \in DOMAIN arc.wanted}'
                            /\ (arc.format = "zip" \/ Cardinality(arc.sacks) = 1)' => Readable(shelf[arc.target])'
        BY <3>1, <2>1 DEF ArchivesTrue
      <4>5. /\ shelf[arc.target].kind = "archive"
            /\ ~(OwnSource /\ arc.target = Pack) =>
                 {shelf[arc.target].has[k].file : k \in DOMAIN shelf[arc.target].has}
                     = {arc.wanted[k] : k \in DOMAIN arc.wanted}
            /\ arc.format = "zip" \/ Cardinality(arc.sacks) = 1 => Readable(shelf[arc.target])
        BY <4>1, <4>4, <3>1 DEF ArchivesTrue
      <4>6. {shelf[arc.target].has[k].file : k \in DOMAIN shelf[arc.target].has}'
                = {shelf[arc.target].has[k].file : k \in DOMAIN shelf[arc.target].has}
        BY <2>1, Zenon
      <4>7. {arc.wanted[k] : k \in DOMAIN arc.wanted}' = {arc.wanted[k] : k \in DOMAIN arc.wanted}
        BY <2>1, Zenon
      <4>8. shelf[arc.target].kind' = "archive"
        BY <4>5, <2>1
      <4>9. ~(OwnSource /\ arc.target = Pack)' =>
               {shelf[arc.target].has[k].file : k \in DOMAIN shelf[arc.target].has}'
                   = {arc.wanted[k] : k \in DOMAIN arc.wanted}'
        BY <4>2, <4>5, <4>6, <4>7, <2>1
      <4>10. (arc.format = "zip" \/ Cardinality(arc.sacks) = 1)' => Readable(shelf[arc.target])'
        BY <4>3, <4>5, <2>1
      <4> QED BY <4>8, <4>9, <4>10
    <3>2. CASE arc.pc = "ok" /\ arc.act = "unpack"
      <4>1. ArchivesTrue
        BY DEF ArcInv
      <4>2. \A k \in DOMAIN arc.print.has : Placed_(k)
        BY <4>1, <3>2 DEF ArchivesTrue, Placed_, E
      <4>3. \A k \in DOMAIN arc.print.has : Placed_(k)'
        BY <4>2, <2>1, <2>4 DEF Placed_, Goal, FreeName
      <4> QED BY <4>3, <3>2, <2>1 DEF ArchivesTrue, Placed_, E
    <3>3. CASE arc.pc # "ok" \/ arc.act \notin {"pack", "unpack"}
      BY <3>3, <2>1 DEF ArchivesTrue
    <3> QED BY <3>1, <3>2, <3>3
  <2> QED BY <2>2, <2>3, <2>5, <2>6, <2>7, <2>8 DEF ArcInv
<1> QED BY <1>1, <1>2, <1>3, <1>4, <1>5, <1>6, <1>7, <1>8 DEF ArchiveNext

\* Each file that unpacking removed for the policy has an entry in its place.
LEMMA EachHasItsEntry ==
    ASSUME ArcInv, arc.act = "unpack", arc.jobs = 1
    PROVE  Cardinality({f \in Missing : f.name \in OutSpots} \ marks.emptied)
               <= Cardinality({k \in DOMAIN arc.print.has : arc.print.has[k].file \in {shelf[s] : s \in OutSpots}})
<1> DEFINE gone == {f \in Missing : f.name \in OutSpots} \ marks.emptied
           there == {k \in DOMAIN arc.print.has : arc.print.has[k].file \in {shelf[s] : s \in OutSpots}}
           new == {Plain(Goal(arc.print.has[k])) : k \in there}
<1>1. DOMAIN arc.print.has = 1 .. Len(arc.print.has) /\ Len(arc.print.has) \in Nat
  BY HasFacts1 DEF ArcInv, ArcTypes, ArcRecords
<1>2. IsFiniteSet(there)
  <2>1. IsFiniteSet(1 .. Len(arc.print.has))
    BY <1>1, FS_Interval
  <2> QED BY <1>1, <2>1, FS_Subset
<1>3. IsFiniteSet(new) /\ Cardinality(new) <= Cardinality(there) /\ Cardinality(there) \in Nat
  <2> DEFINE g == [k \in there |-> Plain(Goal(arc.print.has[k]))]
  <2>1. g \in Surjection(there, new)
    BY DEF Surjection
  <2> HIDE DEF there, new, g
  <2> QED BY <2>1, <1>2, FS_Surjection, FS_CardinalityType
<1>4. gone \subseteq new
  <2> SUFFICES ASSUME NEW f \in gone PROVE f \in new
    OBVIOUS
  <2>1. f \in marks.overruled \cup marks.swapped /\ f.name \in OutSpots
    BY DEF ArcInv, NoneMissing
  <2>2. f \notin marks.swapped
    BY <2>1 DEF ArcInv, FirstFits
  <2>3. arc.rule = "overwrite"
    BY <2>1, <2>2 DEF ArcInv, FirstFits
  <2>4. PICK k \in 1 .. Len(arc.print.has) : f = Plain(Goal(E(k))) /\ shelf[Goal(E(k))] = E(k).file
    BY <2>1, <2>2, <2>3 DEF ArcInv, FirstFits, OverwriteFits
  <2>5. Goal(E(k)) \in OutSpots
    BY <2>1, <2>4, Bares
  <2> QED BY <1>1, <2>4, <2>5 DEF E
<1> HIDE DEF new, there, gone
<1>5. Cardinality(gone) <= Cardinality(new) /\ Cardinality(gone) \in Nat /\ Cardinality(new) \in Nat
  BY <1>3, <1>4, FS_Subset, FS_CardinalityType
<1>6. Cardinality(gone) <= Cardinality(there)
  BY <1>3, <1>5
<1> QED BY <1>6 DEF gone, there

LEMMA ArcGives == ASSUME ArcInv PROVE ArcTypeOK /\ ArchivesKeep /\ ArchivesTrue
<1>1. ArcTypeOK
  <2>1. \A s \in Spots : shelf[s].kind \in {"none", "file", "dir", "archive", "part"}
    BY HasFacts DEF ArcInv, ArcTypes, FileKinds
  <2> QED BY <2>1 DEF ArcInv, HiddenFits, ArcTypeOK, Resting, Packing, Unpacking, Loading, Ended
<1>2. ArchivesKeep
  <2>1. arc.rule # "overwrite" /\ arc.jobs = 1 => marks.overruled = {}
    BY DEF ArcInv, FirstFits
  <2> QED BY <2>1, EachHasItsEntry DEF ArcInv, ArchivesKeep, NoneMissing, OnlyCrowded
<1> QED BY <1>1, <1>2 DEF ArcInv

\* The invariant holds of every archive operation: for any folders, labels and number of
\* operations, whoever interferes, whatever fails and wherever the process ends.
THEOREM ArchivesInvHolds == ArchiveInit /\ [][ArchiveNext]_archiveVars => []ArcInv
<1>1. ArchiveInit => ArcInv
  BY ArcInit
<1>2. ArcInv /\ [ArchiveNext]_archiveVars => ArcInv'
  BY ArcNext
<1> QED BY <1>1, <1>2, PTL

\* Making and unpacking archives loses no file but those the policy gives up, leaves its hidden
\* files only when the process ends or a call fails, and an operation that answers ok did what
\* it was asked to.
THEOREM ArchivesAreKept ==
    ArchiveInit /\ [][ArchiveNext]_archiveVars => [](ArcTypeOK /\ ArchivesKeep /\ ArchivesTrue)
<1>1. ArcInv => ArcTypeOK /\ ArchivesKeep /\ ArchivesTrue
  BY ArcGives
<1> QED BY <1>1, ArchivesInvHolds, PTL

=============================================================================
