-------------------------- MODULE DirectoriesProofs --------------------------
(***************************************************************************)
(* Proofs about Directories, for any number of requests, any tree of files *)
(* and any texts: what the file manager promises of uploads, downloads and *)
(* removals holds whatever other requests do to the tree meanwhile, and    *)
(* what a save or a copy of a profile promises holds unless two requests   *)
(* write one profile at once; and for any number of runs, hosts and steps, *)
(* what a run leaves behind is its own and complete.                       *)
(***************************************************************************)
EXTENDS Directories, FiniteSetTheorems, SequenceTheorems, WellFoundedInduction, TLAPS

-----------------------------------------------------------------------------
(* FileManager: paths.                                                        *)

\* A prefix has the same names as far as it goes.
LEMMA PrefixNames ==
  ASSUME NEW p \in Seq(STRING), NEW q \in Seq(STRING)
  PROVE  Manager!IsPrefix(p, q) <=> Len(p) <= Len(q) /\ \A n \in 1..Len(p) : p[n] = q[n]
<1>1. Len(p) \in Nat /\ Len(q) \in Nat
  BY LenProperties
<1> SUFFICES ASSUME Len(p) <= Len(q)
             PROVE  SubSeq(p, 1, Len(p)) = SubSeq(q, 1, Len(p)) <=> \A n \in 1..Len(p) : p[n] = q[n]
  BY DEF Manager!IsPrefix
<1>2. SubSeq(p, 1, Len(p)) = p
  BY SubSeqFull
<1>3. /\ SubSeq(q, 1, Len(p)) \in Seq(STRING) /\ Len(SubSeq(q, 1, Len(p))) = Len(p)
      /\ \A n \in 1..Len(p) : SubSeq(q, 1, Len(p))[n] = q[n]
  <2>1. \A n \in 1..Len(p) : q[n] \in STRING
    BY <1>1, ElementOfSeq
  <2>2. /\ SubSeq(q, 1, Len(p)) \in Seq(STRING)
        /\ Len(SubSeq(q, 1, Len(p))) = IF 1 <= Len(p) THEN Len(p) - 1 + 1 ELSE 0
        /\ \A n \in 1..(Len(p) - 1 + 1) : SubSeq(q, 1, Len(p))[n] = q[1 + n - 1]
    BY <1>1, <2>1, SubSeqProperties
  <2>3. Len(p) - 1 + 1 = Len(p) /\ \A n \in 1..Len(p) : 1 + n - 1 = n
    BY <1>1
  <2> QED BY <1>1, <2>2, <2>3
<1> DEFINE s == SubSeq(q, 1, Len(p))
<1>4. s \in Seq(STRING) /\ Len(s) = Len(p) /\ \A n \in 1..Len(p) : s[n] = q[n]
  BY <1>3
<1> HIDE DEF s
<1>5. p = s <=> \A n \in 1..Len(p) : p[n] = s[n]
  BY <1>4, SeqEqual
<1> QED BY <1>2, <1>4, <1>5 DEF s

\* A path is a sequence of names.
LEMMA PathTyped == \A p \in Paths : p \in Seq(STRING) /\ Len(p) \in Nat /\ DOMAIN p = 1..Len(p)
BY TreesAssumption, LenProperties

\* Prefixes order the paths, the directory of files first.
LEMMA PrefixOrder ==
  /\ << >> \in Paths
  /\ \A p \in Paths : Manager!IsPrefix(p, p) /\ Manager!IsPrefix(<< >>, p)
  /\ \A p, q \in Paths : Manager!IsPrefix(p, q) /\ Manager!IsPrefix(q, p) => p = q
  /\ \A p, q, x \in Paths : Manager!IsPrefix(p, q) /\ Manager!IsPrefix(q, x) => Manager!IsPrefix(p, x)
<1>1. << >> \in Paths /\ Len(<< >>) = 0
  BY TreesAssumption
<1>2. \A p \in Paths : Manager!IsPrefix(p, p) /\ Manager!IsPrefix(<< >>, p)
  BY <1>1, PathTyped, PrefixNames
<1>3. ASSUME NEW p \in Paths, NEW q \in Paths, Manager!IsPrefix(p, q), Manager!IsPrefix(q, p)
      PROVE  p = q
  <2>1. Len(p) = Len(q) /\ \A n \in 1..Len(p) : p[n] = q[n]
    BY <1>3, PathTyped, PrefixNames
  <2> QED BY <2>1, PathTyped, SeqEqual
<1>4. ASSUME NEW p \in Paths, NEW q \in Paths, NEW x \in Paths,
             Manager!IsPrefix(p, q), Manager!IsPrefix(q, x)
      PROVE  Manager!IsPrefix(p, x)
  <2>1. /\ Len(p) <= Len(q) /\ \A n \in 1..Len(p) : p[n] = q[n]
        /\ Len(q) <= Len(x) /\ \A n \in 1..Len(q) : q[n] = x[n]
    BY <1>4, PathTyped, PrefixNames
  <2>2. Len(p) <= Len(x) /\ \A n \in 1..Len(p) : p[n] = x[n]
    BY <2>1, PathTyped
  <2> QED BY <2>2, PathTyped, PrefixNames
<1> QED BY <1>1, <1>2, <1>3, <1>4

\* The first names of a path are a path.
LEMMA Beginning ==
  ASSUME NEW q \in Paths, NEW n \in 0..Len(q)
  PROVE  /\ SubSeq(q, 1, n) \in Paths /\ Len(SubSeq(q, 1, n)) = n
         /\ Manager!IsPrefix(SubSeq(q, 1, n), q)
         /\ \A p \in Paths : Manager!IsPrefix(p, q) /\ Len(p) <= n => Manager!IsPrefix(p, SubSeq(q, 1, n))
         /\ \A p \in Paths : Manager!IsPrefix(p, q) /\ Len(p) = n => p = SubSeq(q, 1, n)
<1> DEFINE s == SubSeq(q, 1, n)
<1>1. s \in Paths
  BY TreesAssumption
<1>2. Len(s) = n /\ \A i \in 1..n : s[i] = q[i]
  <2>1. n \in Nat /\ n <= Len(q) /\ q \in Seq(STRING) /\ Len(q) \in Nat
    BY PathTyped
  <2>2. \A i \in 1..n : q[i] \in STRING
    BY <2>1, ElementOfSeq
  <2>3. /\ Len(s) = IF 1 <= n THEN n - 1 + 1 ELSE 0
        /\ \A i \in 1..(n - 1 + 1) : s[i] = q[1 + i - 1]
    BY <2>1, <2>2, SubSeqProperties
  <2>4. n - 1 + 1 = n /\ \A i \in 1..n : 1 + i - 1 = i
    BY <2>1
  <2> QED BY <2>1, <2>3, <2>4
<1> HIDE DEF s
<1>3. Manager!IsPrefix(s, q)
  BY <1>1, <1>2, PathTyped, PrefixNames
<1>4. ASSUME NEW p \in Paths, Manager!IsPrefix(p, q), Len(p) <= n PROVE Manager!IsPrefix(p, s)
  <2>1. Len(p) <= Len(q) /\ \A i \in 1..Len(p) : p[i] = q[i]
    BY <1>4, PathTyped, PrefixNames
  <2>2. \A i \in 1..Len(p) : p[i] = s[i]
    BY <1>2, <1>4, <2>1, PathTyped
  <2> QED BY <1>1, <1>2, <1>4, <2>2, PathTyped, PrefixNames
<1>5. ASSUME NEW p \in Paths, Manager!IsPrefix(p, q), Len(p) = n PROVE p = s
  <2>1. Manager!IsPrefix(p, s)
    BY <1>4, <1>5
  <2>2. \A i \in 1..Len(p) : p[i] = s[i]
    BY <1>1, <2>1, PathTyped, PrefixNames
  <2> QED BY <1>1, <1>2, <1>5, <2>2, PathTyped, SeqEqual
<1> QED BY <1>1, <1>2, <1>3, <1>4, <1>5 DEF s

\* The folder a path is in.
LEMMA FrontIs ==
  ASSUME NEW p \in Paths, p # << >>
  PROVE  /\ Manager!Front(p) \in Paths /\ Manager!IsStrictPrefix(Manager!Front(p), p)
         /\ \A q \in Paths : Manager!IsStrictPrefix(q, p) => Manager!IsPrefix(q, Manager!Front(p))
<1>1. Len(p) # 0 /\ Len(p) - 1 \in 0..Len(p) /\ Manager!Front(p) = SubSeq(p, 1, Len(p) - 1)
  BY PathTyped, EmptySeq DEF Manager!Front
<1>2. /\ Manager!Front(p) \in Paths /\ Len(Manager!Front(p)) = Len(p) - 1 /\ Manager!IsPrefix(Manager!Front(p), p)
      /\ \A q \in Paths : Manager!IsPrefix(q, p) /\ Len(q) <= Len(p) - 1 => Manager!IsPrefix(q, Manager!Front(p))
  <2> DEFINE n == Len(p) - 1
  <2>1. n \in 0..Len(p) /\ Manager!Front(p) = SubSeq(p, 1, n)
    BY <1>1
  <2> HIDE DEF n
  <2>2. /\ Manager!Front(p) \in Paths /\ Len(Manager!Front(p)) = n /\ Manager!IsPrefix(Manager!Front(p), p)
        /\ \A q \in Paths : Manager!IsPrefix(q, p) /\ Len(q) <= n => Manager!IsPrefix(q, Manager!Front(p))
    BY <2>1, Beginning
  <2> QED BY <2>2 DEF n
<1>3. Manager!Front(p) # p
  BY <1>2, PathTyped
<1>4. ASSUME NEW q \in Paths, Manager!IsStrictPrefix(q, p) PROVE Len(q) <= Len(p) - 1
  <2>1. Manager!IsPrefix(q, p) /\ q # p
    BY <1>4 DEF Manager!IsStrictPrefix
  <2>2. Len(q) <= Len(p) /\ \A n \in 1..Len(q) : q[n] = p[n]
    BY <2>1, PathTyped, PrefixNames
  <2>3. Len(q) # Len(p)
    BY <2>1, <2>2, PathTyped, SeqEqual
  <2> QED BY <2>2, <2>3, PathTyped
<1> QED BY <1>2, <1>3, <1>4 DEF Manager!IsStrictPrefix

\* On the way to what is under a folder is something in the folder.
LEMMA OnTheWay ==
  ASSUME NEW p \in Paths, NEW q \in Paths, Manager!IsStrictPrefix(p, q)
  PROVE  \E x \in Paths : x # << >> /\ Manager!Front(x) = p /\ Manager!IsPrefix(x, q)
<1> DEFINE x == SubSeq(q, 1, Len(p) + 1)
<1>1. Manager!IsPrefix(p, q) /\ p # q
  BY DEF Manager!IsStrictPrefix
<1>2. Len(p) <= Len(q) /\ \A n \in 1..Len(p) : p[n] = q[n]
  BY <1>1, PathTyped, PrefixNames
<1>3. Len(p) # Len(q)
  BY <1>1, <1>2, PathTyped, SeqEqual
<1>4. Len(p) + 1 \in 0..Len(q)
  BY <1>2, <1>3, PathTyped
<1>5. /\ x \in Paths /\ Len(x) = Len(p) + 1 /\ Manager!IsPrefix(x, q)
      /\ \A y \in Paths : Manager!IsPrefix(y, q) /\ Len(y) <= Len(p) + 1 => Manager!IsPrefix(y, x)
  BY <1>4, Beginning
<1> HIDE DEF x
<1>6. Manager!IsPrefix(p, x)
  BY <1>1, <1>5, PathTyped
<1>7. Len(p) \in 0..Len(x) /\ Len(x) - 1 = Len(p) /\ x # << >>
  BY <1>5, PathTyped
<1>8. p = SubSeq(x, 1, Len(p))
  BY <1>5, <1>6, <1>7, Beginning
<1>9. Manager!Front(x) = p
  BY <1>7, <1>8 DEF Manager!Front
<1> QED BY <1>5, <1>7, <1>9

-----------------------------------------------------------------------------
(* FileManager: trees.                                                        *)

IsNode(n) == n \in {Manager!Missing, Manager!Dir} \/ n = Manager!File(n.id, n.text)

\* What is there is in folders.
TreeOk(t) ==
  /\ DOMAIN t = Paths
  /\ \A p \in Paths : IsNode(t[p])
  /\ \A p, q \in Paths : Manager!IsStrictPrefix(q, p) /\ t[p] # Manager!Missing => t[q] = Manager!Dir

\* The three kinds of nodes.
LEMMA NodeFacts ==
  /\ Manager!Missing # Manager!Dir
  /\ Manager!Missing.kind = "missing" /\ Manager!Dir.kind = "dir"
  /\ \A x, y : /\ Manager!File(x, y).kind = "file" /\ Manager!File(x, y).id = x /\ Manager!File(x, y).text = y
               /\ Manager!File(x, y) \notin {Manager!Missing, Manager!Dir}
  /\ \A n : IsNode(n) => n.kind = "file" \/ n \in {Manager!Missing, Manager!Dir}
<1>1. Manager!Missing # Manager!Dir /\ Manager!Missing.kind = "missing" /\ Manager!Dir.kind = "dir"
  BY DEF Manager!Missing, Manager!Dir
<1>2. ASSUME NEW x, NEW y
      PROVE  /\ Manager!File(x, y).kind = "file" /\ Manager!File(x, y).id = x /\ Manager!File(x, y).text = y
             /\ Manager!File(x, y) \notin {Manager!Missing, Manager!Dir}
  <2>1. Manager!File(x, y).kind = "file" /\ Manager!File(x, y).id = x /\ Manager!File(x, y).text = y
    BY DEF Manager!File
  <2> QED BY <1>1, <2>1
<1> QED BY <1>1, <1>2 DEF IsNode

\* A file has nothing under it.
LEMMA NothingUnder ==
  ASSUME NEW t, TreeOk(t), NEW p \in Paths, NEW q \in Paths, Manager!IsPrefix(p, q), t[q] # Manager!Missing
  PROVE  q = p \/ t[p] = Manager!Dir
BY DEF TreeOk, Manager!IsStrictPrefix

\* Nothing is under a path without children.
LEMMA ChildOnTheWay ==
  ASSUME NEW t, TreeOk(t), NEW p \in Paths, NEW q \in Paths, Manager!IsPrefix(p, q), q # p, t[q] # Manager!Missing
  PROVE  \E x \in Manager!Children(p, t) : Manager!IsPrefix(x, q) /\ Manager!IsStrictPrefix(p, x)
<1>1. Manager!IsStrictPrefix(p, q)
  BY DEF Manager!IsStrictPrefix
<1>2. PICK x \in Paths : x # << >> /\ Manager!Front(x) = p /\ Manager!IsPrefix(x, q)
  BY <1>1, OnTheWay
<1>3. t[x] # Manager!Missing
  BY <1>2, NodeFacts DEF TreeOk, Manager!IsStrictPrefix
<1>4. Manager!IsStrictPrefix(p, x)
  BY <1>2, FrontIs
<1> QED BY <1>2, <1>3, <1>4 DEF Manager!Children

\* What is in a folder is under it.
LEMMA ChildFacts ==
  ASSUME NEW t, NEW p \in Paths, NEW x \in Manager!Children(p, t)
  PROVE  x \in Paths /\ Manager!IsStrictPrefix(p, x) /\ Manager!IsPrefix(p, x) /\ x # p /\ t[x] # Manager!Missing
<1>1. x \in Paths /\ x # << >> /\ Manager!Front(x) = p /\ t[x] # Manager!Missing
  BY DEF Manager!Children
<1>2. Manager!IsStrictPrefix(p, x)
  BY <1>1, FrontIs
<1> QED BY <1>1, <1>2 DEF Manager!IsStrictPrefix

\* A node is put where its folder is, or taken where nothing is under it.
LEMMA PutOk ==
  ASSUME NEW t, TreeOk(t), NEW p \in Paths, NEW n, IsNode(n),
         n = Manager!Dir \/ (t[p] # Manager!Dir \/ Manager!Children(p, t) = {}),
         n = Manager!Missing \/ \A q \in Paths : Manager!IsStrictPrefix(q, p) => t[q] = Manager!Dir
  PROVE  TreeOk([t EXCEPT ![p] = n])
<1> DEFINE u == [t EXCEPT ![p] = n]
<1>1. DOMAIN u = Paths /\ u[p] = n /\ \A x \in Paths : x # p => u[x] = t[x]
  BY DEF TreeOk
<1> HIDE DEF u
<1>2. \A x \in Paths : IsNode(u[x])
  BY <1>1 DEF TreeOk
<1>3. ASSUME NEW x \in Paths, NEW y \in Paths, Manager!IsStrictPrefix(y, x), u[x] # Manager!Missing
      PROVE  u[y] = Manager!Dir
  <2>1. Manager!IsPrefix(y, x) /\ y # x
    BY <1>3 DEF Manager!IsStrictPrefix
  <2>2. CASE x = p
    BY <1>1, <1>3, <2>1, <2>2
  <2>3. CASE x # p /\ y # p
    BY <1>1, <1>3, <2>3 DEF TreeOk
  <2>4. CASE x # p /\ y = p
    <3>1. t[x] # Manager!Missing /\ t[p] = Manager!Dir
      BY <1>1, <1>3, <2>4 DEF TreeOk
    <3>2. Manager!Children(p, t) # {}
      BY <2>1, <2>4, <3>1, ChildOnTheWay
    <3> QED BY <1>1, <2>4, <3>1, <3>2
  <2> QED BY <2>2, <2>3, <2>4
<1> QED BY <1>1, <1>2, <1>3 DEF TreeOk, u

\* MkdirAll.
LEMMA FoldersOk ==
  ASSUME TreeOk(tree), NEW p \in Paths, \A q \in Manager!Above(p) : tree[q].kind # "file"
  PROVE  /\ TreeOk(Manager!Folders(p))
         /\ \A q \in Paths : Manager!Folders(p)[q].kind = "file" => Manager!Folders(p)[q] = tree[q]
         /\ \A q \in Paths : tree[q].kind = "file" => Manager!Folders(p)[q] = tree[q]
<1> DEFINE u == Manager!Folders(p)
<1>1. DOMAIN u = Paths /\ \A q \in Paths : u[q] = IF q \in Manager!Above(p) THEN Manager!Dir ELSE tree[q]
  BY DEF Manager!Folders
<1> HIDE DEF u
<1>2. \A q \in Paths : IsNode(u[q])
  BY <1>1 DEF TreeOk, IsNode
<1>3. ASSUME NEW x \in Paths, NEW y \in Paths, Manager!IsStrictPrefix(y, x), u[x] # Manager!Missing
      PROVE  u[y] = Manager!Dir
  <2>1. CASE x \in Manager!Above(p)
    <3>1. Manager!IsPrefix(y, x) /\ y # x /\ Manager!IsPrefix(x, p) /\ x # p
      BY <1>3, <2>1 DEF Manager!Above, Manager!IsStrictPrefix
    <3>2. Manager!IsPrefix(y, p) /\ y # p
      BY <3>1, PrefixOrder
    <3> QED BY <1>1, <3>2 DEF Manager!Above, Manager!IsStrictPrefix
  <2>2. CASE x \notin Manager!Above(p)
    BY <1>1, <1>3, <2>2 DEF TreeOk
  <2> QED BY <2>1, <2>2
<1>4. \A q \in Paths : u[q].kind = "file" => u[q] = tree[q]
  BY <1>1, NodeFacts
<1>5. \A q \in Paths : tree[q].kind = "file" => u[q] = tree[q]
  BY <1>1
<1> QED BY <1>1, <1>2, <1>3, <1>4, <1>5 DEF TreeOk, u

-----------------------------------------------------------------------------
(* FileManager: what a request has done so far.                               *)

States(k) ==
  CASE k = "none"     -> {"idle"}
    [] k = "upload"   -> {"asked", "entry", "create", "copy", "ok", "refused", "failed", "lost"}
    [] k = "list"     -> {"asked", "ok", "refused", "failed", "lost"}
    [] k = "download" -> {"asked", "read", "walk", "ok", "refused", "cut", "lost"}
    [] k = "delete"   -> {"asked", "remove", "unlink", "ok", "refused", "failed", "lost"}

IsReq(r) == r = [kind |-> r.kind, path |-> r.path, list |-> r.list, at |-> r.at, i |-> r.i,
                 id |-> r.id, todo |-> r.todo, read |-> r.read, clean |-> r.clean, denied |-> r.denied]

ReqOk(r) ==
  /\ IsReq(r)
  /\ r.kind \in {"none", "upload", "list", "download", "delete"} /\ r.at \in States(r.kind)
  /\ r.path \in Paths /\ r.i \in Nat \ {0}
  /\ r.at \in {"idle", "asked"} => r.i = 1 /\ r.read = {}
  /\ r.kind = "upload" => /\ r.list \in Lists /\ Manager!Wanted(r) \subseteq Paths
                          /\ r.i <= Len(r.list) + 1 /\ \A j \in 1..(r.i - 1) : r.list[j] # Manager!Illegal
  /\ r.at \in {"create", "copy"} => r.i <= Len(r.list) /\ r.list[r.i] # Manager!Illegal
  /\ r.todo \subseteq Manager!Within(r.path)
  /\ r.at = "remove" => r.read \subseteq Manager!Within(r.path)

\* The first n files of a list are there, but for those a later one of the first m
\* has replaced.
StoredIn(t, r, h, n, m) ==
  \A i \in 1..n :
    (\A j \in 1..m : i < j /\ j <= Len(r.list) => Manager!Target(r, j) # Manager!Target(r, i)) =>
      t[Manager!Target(r, i)].kind = "file" /\ t[Manager!Target(r, i)].text = <<h, i>>

UploadOk(t, r, h) ==
  r.kind = "upload" /\ r.clean =>
    /\ r.at \in {"entry", "create"} => StoredIn(t, r, h, r.i - 1, r.i - 1)
    /\ r.at = "copy" => /\ StoredIn(t, r, h, r.i - 1, r.i)
                        /\ t[Manager!Target(r, r.i)] = Manager!File(r.id, Manager!Part)
    /\ r.at = "ok" => r.i = Len(r.list) + 1 /\ StoredIn(t, r, h, Len(r.list), r.i)
    /\ r.at = "failed" => StoredIn(t, r, h, r.i - 1, r.i)

FilesIn(t, p) == {<<q, t[q].text>> : q \in {x \in Manager!Within(p) : t[x].kind = "file"}}

DownloadOk(t, r) ==
  r.kind = "download" =>
    /\ r.at = "cut" => ~r.clean \/ r.denied
    /\ r.at = "ok" /\ r.clean => r.read = FilesIn(t, r.path)
    /\ r.at = "walk" /\ r.clean =>
         /\ r.read \subseteq FilesIn(t, r.path)
         /\ \A p \in r.todo : t[p] # Manager!Missing
         /\ \A q \in Manager!Within(r.path) : t[q].kind = "file" =>
              <<q, t[q].text>> \in r.read \/ \E p \in r.todo : Manager!IsPrefix(p, q)

RemovalOk(t, r) ==
  r.kind = "delete" =>
    /\ r.at = "ok" /\ r.clean => \A p \in Manager!Within(r.path) : t[p] = Manager!Missing
    /\ r.at = "failed" => ~r.clean \/ r.denied
    /\ r.at = "unlink" /\ r.clean => t[r.path].kind = "file"
    /\ r.at = "remove" /\ r.clean /\ ~r.denied => \A p \in r.read : Manager!Children(p, t) \subseteq r.todo

RequestOk(t, r, h) == ReqOk(r) /\ UploadOk(t, r, h) /\ DownloadOk(t, r) /\ RemovalOk(t, r)

\* The place a request is at tells its kind.
LEMMA KindOf ==
  ASSUME NEW r, ReqOk(r)
  PROVE  /\ r.at \in {"entry", "create", "copy"} => r.kind = "upload"
         /\ r.at \in {"read", "walk", "cut"} => r.kind = "download"
         /\ r.at \in {"remove", "unlink"} => r.kind = "delete"
         /\ r.at = "idle" <=> r.kind = "none"
BY DEF ReqOk, States

\* A file of a list is stored under a path, and never at the directory of files.
LEMMA TargetFacts ==
  ASSUME NEW r, r.path \in Paths, r.list \in Lists, Manager!Wanted(r) \subseteq Paths,
         NEW j \in 1..Len(r.list), r.list[j] # Manager!Illegal
  PROVE  /\ Manager!Target(r, j) \in Paths /\ Manager!Target(r, j) \in Manager!Wanted(r)
         /\ Manager!Target(r, j) # << >>
<1>1. r.list \in Seq(Seq(STRING) \ {<< >>})
  BY TreesAssumption
<1>2. DOMAIN r.list = 1..Len(r.list) /\ r.list[j] \in Seq(STRING) \ {<< >>}
  BY <1>1, LenProperties, ElementOfSeq
<1>3. Manager!Target(r, j) \in Manager!Wanted(r)
  BY <1>2 DEF Manager!Wanted
<1>4. Manager!Target(r, j) = r.path \o r.list[j]
  BY DEF Manager!Target
<1>5. r.path \in Seq(STRING)
  BY PathTyped
<1>6. Len(r.path \o r.list[j]) = Len(r.path) + Len(r.list[j]) /\ Len(r.path) \in Nat /\ Len(r.list[j]) \in Nat
      /\ Len(r.list[j]) # 0
  BY <1>2, <1>5, ConcatProperties, LenProperties, EmptySeq
<1>7. r.path \o r.list[j] # << >>
  <2>1. Len(<< >>) = 0
    OBVIOUS
  <2> QED BY <1>6, <2>1
<1> QED BY <1>3, <1>4, <1>7

\* Somebody else's step leaves a request as it is, and takes note if it changed what
\* the request depends on.
Beside(t, r, u, s) ==
  /\ IsReq(s)
  /\ s.kind = r.kind /\ s.path = r.path /\ s.list = r.list /\ s.at = r.at /\ s.i = r.i
  /\ s.id = r.id /\ s.todo = r.todo /\ s.read = r.read /\ s.denied = r.denied
  /\ s.clean => r.clean /\ \A p \in Manager!Scope(r) : u[p] = t[p]

\* It stays a request.
LEMMA BesideTyped ==
  ASSUME NEW t, NEW r, NEW u, NEW s, ReqOk(r), Beside(t, r, u, s)
  PROVE  ReqOk(s)
<1>1. Manager!Wanted(s) = Manager!Wanted(r) /\ Manager!Within(s.path) = Manager!Within(r.path)
  BY DEF Beside, Manager!Wanted, Manager!Target
<1> QED BY <1>1 DEF ReqOk, Beside

\* What was stored still is, if the request is still clean.
LEMMA BesideStored ==
  ASSUME NEW t, NEW r, NEW u, NEW s, NEW h, ReqOk(r), r.kind = "upload", Beside(t, r, u, s), s.clean,
         NEW n \in Nat, NEW m, n <= r.i - 1, StoredIn(t, r, h, n, m)
  PROVE  StoredIn(u, s, h, n, m)
<1>1. ASSUME NEW i \in 1..n PROVE u[Manager!Target(r, i)] = t[Manager!Target(r, i)]
  <2>1. i \in 1..(r.i - 1) /\ i \in 1..Len(r.list)
    <3>1. Len(r.list) \in Nat
      BY TreesAssumption, LenProperties DEF ReqOk
    <3> QED BY <3>1 DEF ReqOk
  <2>2. Manager!Target(r, i) \in Manager!Wanted(r)
    BY <2>1, TargetFacts DEF ReqOk
  <2> QED BY <2>2 DEF Beside, Manager!Scope
<1>2. s.list = r.list /\ \A i : Manager!Target(s, i) = Manager!Target(r, i)
  BY DEF Beside, Manager!Target
<1> QED BY <1>1, <1>2 DEF StoredIn

\* It keeps its promises.
LEMMA BesideOk ==
  ASSUME NEW t, NEW r, NEW u, NEW s, NEW h, RequestOk(t, r, h), Beside(t, r, u, s)
  PROVE  RequestOk(u, s, h)
<1>1. ReqOk(s)
  BY BesideTyped DEF RequestOk
<1>2. UploadOk(u, s, h)
  <2> SUFFICES ASSUME s.kind = "upload", s.clean
               PROVE  /\ s.at \in {"entry", "create"} => StoredIn(u, s, h, s.i - 1, s.i - 1)
                      /\ s.at = "copy" => /\ StoredIn(u, s, h, s.i - 1, s.i)
                                          /\ u[Manager!Target(s, s.i)] = Manager!File(s.id, Manager!Part)
                      /\ s.at = "ok" => s.i = Len(s.list) + 1 /\ StoredIn(u, s, h, Len(s.list), s.i)
                      /\ s.at = "failed" => StoredIn(u, s, h, s.i - 1, s.i)
    BY DEF UploadOk
  <2>1. /\ s.at = r.at /\ s.i = r.i /\ s.list = r.list /\ s.id = r.id /\ r.kind = "upload" /\ r.clean
        /\ ReqOk(r) /\ r.i - 1 \in Nat
    BY DEF Beside, RequestOk, ReqOk
  <2>2. \A m : StoredIn(t, r, h, r.i - 1, m) => StoredIn(u, s, h, r.i - 1, m)
    BY <2>1, BesideStored
  <2>3. r.at = "copy" => u[Manager!Target(s, r.i)] = t[Manager!Target(r, r.i)]
    <3> SUFFICES ASSUME r.at = "copy" PROVE u[Manager!Target(s, r.i)] = t[Manager!Target(r, r.i)]
      OBVIOUS
    <3>1. r.i \in 1..Len(r.list) /\ r.list[r.i] # Manager!Illegal
      <4>1. Len(r.list) \in Nat
        BY <2>1, TreesAssumption, LenProperties DEF ReqOk
      <4> QED BY <2>1, <4>1 DEF ReqOk
    <3>2. Manager!Target(r, r.i) \in Manager!Wanted(r)
      BY <2>1, <3>1, TargetFacts DEF ReqOk
    <3>3. Manager!Target(s, r.i) = Manager!Target(r, r.i)
      BY DEF Beside, Manager!Target
    <3> QED BY <2>1, <3>2, <3>3 DEF Beside, Manager!Scope
  <2>4. r.at = "ok" => r.i = Len(r.list) + 1 /\ Len(r.list) = r.i - 1
    <3>1. Len(r.list) \in Nat
      BY <2>1, TreesAssumption, LenProperties DEF ReqOk
    <3> QED BY <2>1, <3>1 DEF RequestOk, UploadOk
  <2> QED BY <2>1, <2>2, <2>3, <2>4 DEF RequestOk, UploadOk
<1>3. DownloadOk(u, s)
  <2> SUFFICES ASSUME s.kind = "download" PROVE DownloadOk(u, s)
    BY DEF DownloadOk
  <2>1. /\ s.at = r.at /\ s.path = r.path /\ s.todo = r.todo /\ s.read = r.read /\ r.kind = "download"
        /\ s.denied = r.denied
        /\ s.clean => r.clean /\ \A p \in Manager!Within(r.path) : u[p] = t[p]
    BY DEF Beside, Manager!Scope
  <2>2. s.clean => FilesIn(u, r.path) = FilesIn(t, r.path)
    BY <2>1 DEF FilesIn
  <2>3. r.todo \subseteq Manager!Within(r.path)
    BY DEF RequestOk, ReqOk
  <2> QED BY <2>1, <2>2, <2>3 DEF RequestOk, DownloadOk
<1>4. RemovalOk(u, s)
  <2> SUFFICES ASSUME s.kind = "delete" PROVE RemovalOk(u, s)
    BY DEF RemovalOk
  <2>1. /\ s.at = r.at /\ s.path = r.path /\ s.todo = r.todo /\ s.read = r.read /\ r.kind = "delete"
        /\ s.denied = r.denied
        /\ s.clean => r.clean /\ \A p \in Manager!Within(r.path) : u[p] = t[p]
    BY DEF Beside, Manager!Scope
  <2>2. r.path \in Manager!Within(r.path)
    BY PrefixOrder DEF Manager!Within, RequestOk, ReqOk
  <2>3. ASSUME r.at = "remove", s.clean, NEW p \in r.read PROVE Manager!Children(p, u) \subseteq Manager!Children(p, t)
    <3>1. p \in Paths /\ Manager!IsPrefix(r.path, p) /\ r.path \in Paths
      BY <2>3 DEF RequestOk, ReqOk, Manager!Within
    <3>2. ASSUME NEW x \in Manager!Children(p, u) PROVE x \in Manager!Children(p, t)
      <4>1. x \in Manager!Within(r.path)
        BY <3>1, ChildFacts, PrefixOrder DEF Manager!Within
      <4> QED BY <2>1, <2>3, <4>1 DEF Manager!Children
    <3> QED BY <3>2
  <2> QED BY <2>1, <2>2, <2>3 DEF RequestOk, RemovalOk
<1> QED BY <1>1, <1>2, <1>3, <1>4 DEF RequestOk

-----------------------------------------------------------------------------
(* FileManager: the steps of a request keep its promises.                     *)

Requests == DOMAIN req = Handlers /\ \A h \in Handlers : RequestOk(tree, req[h], h)

\* A step of h.
LEMMA DoFacts ==
  ASSUME Requests, NEW h \in Handlers, NEW s, NEW u, Manager!Do(h, s, u)
  PROVE  /\ tree' = u /\ DOMAIN req' = Handlers /\ req'[h] = s
         /\ \A g \in Handlers \ {h} : Beside(tree, req[g], u, req'[g])
<1>1. /\ tree' = u /\ DOMAIN req' = Handlers /\ req'[h] = s
      /\ \A g \in Handlers \ {h} :
           req'[g] = [req[g] EXCEPT !.clean = @ /\ \A p \in Manager!Scope(req[g]) : u[p] = tree[p]]
  BY DEF Manager!Do
<1>2. ASSUME NEW g \in Handlers \ {h} PROVE Beside(tree, req[g], u, req'[g])
  <2> DEFINE r == req[g]
             c == r.clean /\ \A p \in Manager!Scope(r) : u[p] = tree[p]
  <2>1. IsReq(r)
    BY DEF Requests, RequestOk, ReqOk
  <2>2. req'[g] = [r EXCEPT !.clean = c]
    BY <1>1
  <2>3. c => r.clean /\ \A p \in Manager!Scope(r) : u[p] = tree[p]
    OBVIOUS
  <2> HIDE DEF r, c
  <2>4. /\ IsReq(req'[g])
        /\ req'[g].kind = r.kind /\ req'[g].path = r.path /\ req'[g].list = r.list /\ req'[g].at = r.at
        /\ req'[g].i = r.i /\ req'[g].id = r.id /\ req'[g].todo = r.todo /\ req'[g].read = r.read
        /\ req'[g].clean = c /\ req'[g].denied = r.denied
    BY <2>1, <2>2 DEF IsReq
  <2>5. Beside(tree, r, u, req'[g])
    BY <2>3, <2>4 DEF Beside
  <2> QED BY <2>5 DEF r
<1> QED BY <1>1, <1>2

\* So a step keeps all promises if the request that takes it keeps its own.
LEMMA StepKeeps ==
  ASSUME Requests, NEW h \in Handlers, NEW s, NEW u, Manager!Do(h, s, u), RequestOk(u, s, h)
  PROVE  Requests'
<1>1. /\ tree' = u /\ DOMAIN req' = Handlers /\ req'[h] = s
      /\ \A g \in Handlers \ {h} : Beside(tree, req[g], u, req'[g])
  BY DoFacts
<1>2. \A g \in Handlers \ {h} : RequestOk(u, req'[g], g)
  BY <1>1, BesideOk DEF Requests
<1>3. \A g \in Handlers : RequestOk(tree', req'[g], g)
  BY <1>1, <1>2
<1> QED BY <1>1, <1>3 DEF Requests

\* A request that moves on.
LEMMA AtFields ==
  ASSUME NEW r, IsReq(r), NEW a
  PROVE  /\ IsReq([r EXCEPT !.at = a]) /\ [r EXCEPT !.at = a].at = a
         /\ [r EXCEPT !.at = a].kind = r.kind /\ [r EXCEPT !.at = a].path = r.path
         /\ [r EXCEPT !.at = a].list = r.list /\ [r EXCEPT !.at = a].i = r.i
         /\ [r EXCEPT !.at = a].id = r.id /\ [r EXCEPT !.at = a].todo = r.todo
         /\ [r EXCEPT !.at = a].read = r.read /\ [r EXCEPT !.at = a].clean = r.clean
BY DEF IsReq

\* Moved(r, s, a): s is r at another place.
Moved(r, s, a) ==
  /\ IsReq(s) /\ s.at = a
  /\ s.kind = r.kind /\ s.path = r.path /\ s.list = r.list /\ s.i = r.i
  /\ s.id = r.id /\ s.todo = r.todo /\ s.read = r.read /\ s.clean = r.clean

\* Such an update does so.
LEMMA MovedTo ==
  ASSUME NEW r, IsReq(r), NEW a
  PROVE  Moved(r, [r EXCEPT !.at = a], a)
BY AtFields DEF Moved

\* A request that has been denied something, or not.
LEMMA DeniedFields ==
  ASSUME NEW r, IsReq(r), NEW b
  PROVE  /\ IsReq([r EXCEPT !.denied = b]) /\ [r EXCEPT !.denied = b].denied = b
         /\ [r EXCEPT !.denied = b].at = r.at /\ [r EXCEPT !.denied = b].kind = r.kind
         /\ [r EXCEPT !.denied = b].path = r.path /\ [r EXCEPT !.denied = b].list = r.list
         /\ [r EXCEPT !.denied = b].i = r.i /\ [r EXCEPT !.denied = b].id = r.id
         /\ [r EXCEPT !.denied = b].todo = r.todo /\ [r EXCEPT !.denied = b].read = r.read
         /\ [r EXCEPT !.denied = b].clean = r.clean
BY DEF IsReq

\* It is at another place.
LEMMA DeniedMoves ==
  ASSUME NEW h, IsReq(req[h]), NEW a
  PROVE  Moved(req[h], Manager!DeniedTo(h, a), a) /\ Manager!DeniedTo(h, a).denied
<1> DEFINE q == Manager!To(h, a)
<1>1. Moved(req[h], q, a)
  BY MovedTo DEF Manager!To
<1>2. Manager!DeniedTo(h, a) = [q EXCEPT !.denied = TRUE]
  BY DEF Manager!DeniedTo
<1> HIDE DEF q
<1>3. Moved(req[h], [q EXCEPT !.denied = TRUE], a) /\ [q EXCEPT !.denied = TRUE].denied
  BY <1>1, DeniedFields DEF Moved
<1> QED BY <1>2, <1>3

\* The paths of the files depend on the path and on the list alone.
LEMMA SameTargets ==
  ASSUME NEW r, NEW s, s.path = r.path, s.list = r.list
  PROVE  /\ \A i : Manager!Target(s, i) = Manager!Target(r, i)
         /\ Manager!Wanted(s) = Manager!Wanted(r) /\ Manager!Within(s.path) = Manager!Within(r.path)
BY DEF Manager!Target, Manager!Wanted

\* It stays a request.
LEMMA MovedTyped ==
  ASSUME NEW r, ReqOk(r), NEW s, NEW a, Moved(r, s, a), a \in States(r.kind),
         a \notin {"idle", "asked", "remove"},
         a \in {"create", "copy"} => r.i <= Len(r.list) /\ r.list[r.i] # Manager!Illegal
  PROVE  ReqOk(s)
<1>1. Manager!Wanted(s) = Manager!Wanted(r) /\ Manager!Within(s.path) = Manager!Within(r.path)
  BY SameTargets DEF Moved
<1> QED BY <1>1 DEF ReqOk, Moved

\* A refusal or the end of the program promises nothing, nor does a listing.
LEMMA NothingPromised ==
  ASSUME NEW r, ReqOk(r), NEW s, NEW a, Moved(r, s, a), a \in States(r.kind),
         a \in {"refused", "lost"} \/ (r.kind = "list" /\ a \in {"ok", "failed"}), NEW u, NEW h
  PROVE  RequestOk(u, s, h)
<1>1. ReqOk(s)
  BY MovedTyped
<1> QED BY <1>1 DEF RequestOk, UploadOk, DownloadOk, RemovalOk, Moved

-----------------------------------------------------------------------------
(* FileManager: requests and uploads.                                         *)

\* A request that has just come promises nothing.
LEMMA AskKeeps ==
  ASSUME Requests, TreeOk(tree), NEW h \in Handlers, NEW p \in Paths, NEW list,
         NEW k \in {"upload", "list", "download", "delete"}, k = "upload" => list \in Lists,
         Manager!Ask(h, k, p, list)
  PROVE  Requests' /\ TreeOk(tree')
<1> DEFINE s == Manager!Asked(k, p, list)
<1>1. Manager!Do(h, s, tree) /\ Manager!Wanted(s) \subseteq Paths
  BY DEF Manager!Ask
<1>2. /\ IsReq(s) /\ s.kind = k /\ s.path = p /\ s.list = list /\ s.at = "asked" /\ s.i = 1
      /\ s.todo = {} /\ s.read = {}
  BY DEF Manager!Asked, IsReq
<1> HIDE DEF s
<1>3. ReqOk(s)
  <2>1. k = "upload" => Len(list) \in Nat
    BY TreesAssumption, LenProperties
  <2> QED BY <1>1, <1>2, <2>1 DEF ReqOk, States
<1>4. RequestOk(tree, s, h)
  BY <1>2, <1>3 DEF RequestOk, UploadOk, DownloadOk, RemovalOk
<1> QED BY <1>1, <1>4, StepKeeps, DoFacts

\* An upload that starts has stored nothing, and makes the directory of files.
LEMMA StartUploadKeeps ==
  ASSUME Requests, TreeOk(tree), NEW h \in Handlers, Manager!StartUpload(h)
  PROVE  Requests' /\ TreeOk(tree')
<1> DEFINE r == req[h]
<1>1. RequestOk(tree, r, h) /\ ReqOk(r) /\ IsReq(r) /\ r.at = "asked" /\ r.kind = "upload"
  BY DEF Requests, RequestOk, ReqOk, Manager!StartUpload
<1>2. CASE Manager!Do(h, Manager!To(h, "refused"), tree)
  <2>1. Moved(r, Manager!To(h, "refused"), "refused")
    BY <1>1, MovedTo DEF Manager!To
  <2>2. RequestOk(tree, Manager!To(h, "refused"), h)
    BY <1>1, <2>1, NothingPromised DEF States
  <2> QED BY <1>2, <2>2, StepKeeps, DoFacts
<1>3. CASE Manager!Do(h, Manager!To(h, "entry"), Manager!Put(<< >>, Manager!Dir))
  <2> DEFINE s == Manager!To(h, "entry")
             u == Manager!Put(<< >>, Manager!Dir)
  <2>1. Moved(r, s, "entry")
    BY <1>1, MovedTo DEF Manager!To
  <2>2. TreeOk(u)
    <3>1. \A q \in Paths : ~Manager!IsStrictPrefix(q, << >>)
      BY PrefixOrder DEF Manager!IsStrictPrefix
    <3> QED BY <3>1, PrefixOrder, PutOk DEF IsNode, Manager!Put
  <2> HIDE DEF s, u
  <2>3. ReqOk(s)
    BY <1>1, <2>1, MovedTyped DEF States
  <2>4. s.i = 1 /\ s.at = "entry" /\ s.kind = "upload"
    BY <1>1, <2>1 DEF Moved, ReqOk
  <2>5. RequestOk(u, s, h)
    BY <2>3, <2>4 DEF RequestOk, UploadOk, DownloadOk, RemovalOk, StoredIn
  <2> QED BY <1>3, <2>2, <2>5, StepKeeps, DoFacts DEF s, u
<1> QED BY <1>2, <1>3 DEF Manager!StartUpload

\* The files an upload has had are those before the i-th.
LEMMA UploadFacts ==
  ASSUME NEW r, ReqOk(r), r.kind = "upload"
  PROVE  /\ Len(r.list) \in Nat /\ DOMAIN r.list = 1..Len(r.list) /\ r.i \in 1..(Len(r.list) + 1) /\ r.i - 1 \in Nat
         /\ \A j \in 1..(r.i - 1) : Manager!Target(r, j) \in Paths
         /\ r.i <= Len(r.list) /\ r.list[r.i] # Manager!Illegal =>
              Manager!Target(r, r.i) \in Paths /\ Manager!Target(r, r.i) # << >>
<1>1. Len(r.list) \in Nat /\ DOMAIN r.list = 1..Len(r.list)
  BY TreesAssumption, LenProperties DEF ReqOk
<1>2. r.i \in 1..(Len(r.list) + 1) /\ r.i - 1 \in Nat
  BY <1>1 DEF ReqOk
<1>3. \A j \in 1..Len(r.list) : r.list[j] # Manager!Illegal =>
        Manager!Target(r, j) \in Paths /\ Manager!Target(r, j) # << >>
  BY TargetFacts DEF ReqOk
<1>4. \A j \in 1..(r.i - 1) : j \in 1..Len(r.list) /\ r.list[j] # Manager!Illegal
  BY <1>1, <1>2 DEF ReqOk
<1> QED BY <1>1, <1>2, <1>3, <1>4

\* What is stored among fewer is stored among more.
LEMMA StoredMore ==
  ASSUME NEW t, NEW r, NEW s, s.path = r.path, s.list = r.list, NEW h, NEW n, NEW m \in Nat, NEW k \in Nat, m <= k,
         StoredIn(t, r, h, n, m)
  PROVE  StoredIn(t, s, h, n, k)
<1>1. \A i : Manager!Target(s, i) = Manager!Target(r, i)
  BY SameTargets
<1>2. \A j \in 1..m : j \in 1..k
  OBVIOUS
<1> QED BY <1>1, <1>2 DEF StoredIn

-----------------------------------------------------------------------------
(* FileManager: the files of an upload.                                       *)

\* What is stored stays stored where its files stay.
LEMMA StoredStays ==
  ASSUME NEW t, NEW u, NEW r, NEW s, s.path = r.path, s.list = r.list, NEW h, NEW n, NEW m,
         StoredIn(t, r, h, n, m),
         \A i \in 1..n : t[Manager!Target(r, i)].kind = "file" => u[Manager!Target(r, i)] = t[Manager!Target(r, i)]
  PROVE  StoredIn(u, s, h, n, m)
<1>1. \A i : Manager!Target(s, i) = Manager!Target(r, i)
  BY SameTargets
<1> QED BY <1>1 DEF StoredIn

\* A request with another index.
LEMMA IndexFields ==
  ASSUME NEW r, IsReq(r), NEW a
  PROVE  /\ IsReq([r EXCEPT !.i = a]) /\ [r EXCEPT !.i = a].at = r.at
         /\ [r EXCEPT !.i = a].kind = r.kind /\ [r EXCEPT !.i = a].path = r.path
         /\ [r EXCEPT !.i = a].list = r.list /\ [r EXCEPT !.i = a].i = a
         /\ [r EXCEPT !.i = a].id = r.id /\ [r EXCEPT !.i = a].todo = r.todo
         /\ [r EXCEPT !.i = a].read = r.read /\ [r EXCEPT !.i = a].clean = r.clean
BY DEF IsReq

\* A request with another open file.
LEMMA IdFields ==
  ASSUME NEW r, IsReq(r), NEW a
  PROVE  /\ IsReq([r EXCEPT !.id = a]) /\ [r EXCEPT !.id = a].at = r.at
         /\ [r EXCEPT !.id = a].kind = r.kind /\ [r EXCEPT !.id = a].path = r.path
         /\ [r EXCEPT !.id = a].list = r.list /\ [r EXCEPT !.id = a].i = r.i
         /\ [r EXCEPT !.id = a].id = a /\ [r EXCEPT !.id = a].todo = r.todo
         /\ [r EXCEPT !.id = a].read = r.read /\ [r EXCEPT !.id = a].clean = r.clean
BY DEF IsReq

\* An upload that opens a file, and one that goes on to the next.
Opened(r, s, id) ==
  /\ IsReq(s) /\ s.at = "copy" /\ s.id = id
  /\ s.kind = r.kind /\ s.path = r.path /\ s.list = r.list /\ s.i = r.i
  /\ s.todo = r.todo /\ s.read = r.read /\ s.clean = r.clean

GoneOn(r, s) ==
  /\ IsReq(s) /\ s.at = "entry" /\ s.i = r.i + 1
  /\ s.kind = r.kind /\ s.path = r.path /\ s.list = r.list
  /\ s.id = r.id /\ s.todo = r.todo /\ s.read = r.read /\ s.clean = r.clean

\* The update of Create does the first.
LEMMA CreateFields ==
  ASSUME NEW r, IsReq(r), NEW id
  PROVE  Opened(r, [r EXCEPT !.at = "copy", !.id = id], id)
<1> DEFINE q == [r EXCEPT !.at = "copy"]
<1>1. [r EXCEPT !.at = "copy", !.id = id] = [q EXCEPT !.id = id]
  OBVIOUS
<1>2. Moved(r, q, "copy")
  BY MovedTo
<1> HIDE DEF q
<1>3. Opened(r, [q EXCEPT !.id = id], id)
  BY <1>2, IdFields DEF Moved, Opened
<1> QED BY <1>1, <1>3

\* The update of Copy does the second.
LEMMA CopyFields ==
  ASSUME NEW r, IsReq(r)
  PROVE  GoneOn(r, [r EXCEPT !.at = "entry", !.i = @ + 1])
<1> DEFINE q == [r EXCEPT !.at = "entry"]
           n == r.i + 1
<1>1. [r EXCEPT !.at = "entry", !.i = @ + 1] = [q EXCEPT !.i = n]
  OBVIOUS
<1>2. Moved(r, q, "entry")
  BY MovedTo
<1> HIDE DEF q, n
<1>3. [q EXCEPT !.i = n].i = n /\ [q EXCEPT !.i = n].at = "entry"
  BY <1>2, IndexFields DEF Moved
<1>4. GoneOn(r, [q EXCEPT !.i = n])
  BY <1>2, <1>3, IndexFields DEF Moved, GoneOn, n
<1> QED BY <1>1, <1>4

\* What an upload alone has to show for itself.
LEMMA UploadAlone ==
  ASSUME NEW u, NEW s, NEW h, ReqOk(s), s.kind = "upload", UploadOk(u, s, h)
  PROVE  RequestOk(u, s, h)
BY DEF RequestOk, DownloadOk, RemovalOk

\* Making the folders of the next file replaces no file.
LEMMA EntryKeeps ==
  ASSUME Requests, TreeOk(tree), NEW h \in Handlers, Manager!Entry(h)
  PROVE  Requests' /\ TreeOk(tree')
<1> DEFINE r == req[h]
<1>1. /\ RequestOk(tree, r, h) /\ ReqOk(r) /\ IsReq(r) /\ r.at = "entry" /\ r.kind = "upload"
      /\ UploadOk(tree, r, h)
  BY KindOf DEF Requests, RequestOk, ReqOk, Manager!Entry
<1>2. /\ Len(r.list) \in Nat /\ r.i \in 1..(Len(r.list) + 1) /\ r.i \in Nat /\ r.i - 1 \in Nat
      /\ \A j \in 1..(r.i - 1) : Manager!Target(r, j) \in Paths
  BY <1>1, UploadFacts
<1>3. CASE Manager!Do(h, Manager!To(h, "refused"), tree)
  <2>1. Moved(r, Manager!To(h, "refused"), "refused")
    BY <1>1, MovedTo DEF Manager!To
  <2>2. RequestOk(tree, Manager!To(h, "refused"), h)
    BY <1>1, <2>1, NothingPromised DEF States
  <2> QED BY <1>3, <2>2, StepKeeps, DoFacts
<1>4. CASE r.i > Len(r.list) /\ Manager!Do(h, Manager!To(h, "ok"), tree)
  <2> DEFINE s == Manager!To(h, "ok")
  <2>1. Moved(r, s, "ok")
    BY <1>1, MovedTo DEF Manager!To
  <2> HIDE DEF s
  <2>2. ReqOk(s)
    BY <1>1, <2>1, MovedTyped DEF States
  <2>3. /\ s.path = r.path /\ s.list = r.list /\ s.i = r.i /\ s.clean = r.clean /\ s.kind = "upload" /\ s.at = "ok"
    BY <1>1, <2>1 DEF Moved
  <2>4. r.i = Len(r.list) + 1 /\ r.i - 1 = Len(r.list)
    BY <1>2, <1>4
  <2>5. s.clean => StoredIn(tree, s, h, Len(r.list), r.i)
    <3>1. s.clean => StoredIn(tree, r, h, Len(r.list), r.i - 1)
      BY <1>1, <2>3, <2>4 DEF UploadOk
    <3> QED BY <1>2, <2>3, <3>1, StoredMore
  <2>6. UploadOk(tree, s, h)
    BY <2>3, <2>4, <2>5 DEF UploadOk
  <2>7. RequestOk(tree, s, h)
    BY <2>2, <2>3, <2>6, UploadAlone
  <2> QED BY <1>4, <2>7, StepKeeps, DoFacts DEF s
<1>5. CASE Manager!Do(h, Manager!To(h, "failed"), tree)
  <2> DEFINE s == Manager!To(h, "failed")
  <2>1. Moved(r, s, "failed")
    BY <1>1, MovedTo DEF Manager!To
  <2> HIDE DEF s
  <2>2. ReqOk(s)
    BY <1>1, <2>1, MovedTyped DEF States
  <2>3. /\ s.path = r.path /\ s.list = r.list /\ s.i = r.i /\ s.clean = r.clean /\ s.kind = "upload" /\ s.at = "failed"
    BY <1>1, <2>1 DEF Moved
  <2>5. s.clean => StoredIn(tree, s, h, r.i - 1, r.i)
    <3>1. s.clean => StoredIn(tree, r, h, r.i - 1, r.i - 1)
      BY <1>1, <2>3 DEF UploadOk
    <3> QED BY <1>2, <2>3, <3>1, StoredMore
  <2>6. UploadOk(tree, s, h)
    BY <2>3, <2>5 DEF UploadOk
  <2>7. RequestOk(tree, s, h)
    BY <2>2, <2>3, <2>6, UploadAlone
  <2> QED BY <1>5, <2>7, StepKeeps, DoFacts DEF s
<1>6. CASE /\ r.i <= Len(r.list) /\ r.list[r.i] # Manager!Illegal
           /\ ~\E q \in Manager!Above(Manager!Target(r, r.i)) : tree[q].kind = "file"
           /\ Manager!Do(h, Manager!To(h, "create"), Manager!Folders(Manager!Target(r, r.i)))
  <2> DEFINE s == Manager!To(h, "create")
             p == Manager!Target(r, r.i)
             u == Manager!Folders(p)
  <2>1. Moved(r, s, "create")
    BY <1>1, MovedTo DEF Manager!To
  <2>2. p \in Paths
    BY <1>1, <1>6, UploadFacts
  <2>3. TreeOk(u) /\ \A q \in Paths : tree[q].kind = "file" => u[q] = tree[q]
    <3> HIDE DEF p
    <3>1. \A q \in Manager!Above(p) : tree[q].kind # "file"
      BY <1>6 DEF p
    <3> QED BY <2>2, <3>1, FoldersOk
  <2> HIDE DEF s, p, u
  <2>4. ReqOk(s)
    BY <1>1, <1>6, <2>1, MovedTyped DEF States
  <2>5. /\ s.path = r.path /\ s.list = r.list /\ s.i = r.i /\ s.clean = r.clean /\ s.kind = "upload" /\ s.at = "create"
    BY <1>1, <2>1 DEF Moved
  <2>6. s.clean => StoredIn(u, s, h, r.i - 1, r.i - 1)
    <3>1. s.clean => StoredIn(tree, r, h, r.i - 1, r.i - 1)
      BY <1>1, <2>5 DEF UploadOk
    <3>2. \A i \in 1..(r.i - 1) : tree[Manager!Target(r, i)].kind = "file" =>
                                    u[Manager!Target(r, i)] = tree[Manager!Target(r, i)]
      BY <1>2, <2>3
    <3> QED BY <2>5, <3>1, <3>2, StoredStays
  <2>7. UploadOk(u, s, h)
    BY <2>5, <2>6 DEF UploadOk
  <2>8. RequestOk(u, s, h)
    BY <2>4, <2>5, <2>7, UploadAlone
  <2>9. Manager!Do(h, s, u)
    BY <1>6 DEF s, u, p
  <2> QED BY <2>3, <2>8, <2>9, StepKeeps, DoFacts
<1>7. CASE r.i > Len(r.list)
  <2>0. ~(r.i <= Len(r.list))
    BY <1>2, <1>7
  <2>1. Manager!Do(h, Manager!To(h, IF r.list = << >> THEN "refused" ELSE "ok"), tree)
    BY <1>7, <2>0 DEF Manager!Entry
  <2> QED BY <1>3, <1>4, <1>7, <2>1
<1>8. CASE r.i <= Len(r.list) /\ r.list[r.i] = Manager!Illegal
  <2>1. ~(r.i > Len(r.list))
    BY <1>2, <1>8
  <2>2. Manager!Do(h, Manager!To(h, "refused"), tree)
    BY <1>8, <2>1 DEF Manager!Entry
  <2> QED BY <1>3, <2>2
<1>9. CASE r.i <= Len(r.list) /\ r.list[r.i] # Manager!Illegal
  <2>1. ~(r.i > Len(r.list))
    BY <1>2, <1>9
  <2>2. IF \E q \in Manager!Above(Manager!Target(r, r.i)) : tree[q].kind = "file"
        THEN Manager!Do(h, Manager!To(h, "failed"), tree)
        ELSE Manager!Do(h, Manager!To(h, "create"), Manager!Folders(Manager!Target(r, r.i)))
    BY <1>9, <2>1 DEF Manager!Entry
  <2> QED BY <1>5, <1>6, <1>9, <2>2
<1>10. r.i > Len(r.list) \/ r.i <= Len(r.list)
  BY <1>2
<1> QED BY <1>7, <1>8, <1>9, <1>10

\* Creating the next file replaces only the one it is stored over.
LEMMA CreateKeeps ==
  ASSUME Requests, TreeOk(tree), NEW h \in Handlers, Manager!Create(h)
  PROVE  Requests' /\ TreeOk(tree')
<1> DEFINE r == req[h]
           p == Manager!Target(r, r.i)
<1>1. /\ RequestOk(tree, r, h) /\ ReqOk(r) /\ IsReq(r) /\ r.at = "create" /\ r.kind = "upload"
      /\ UploadOk(tree, r, h)
  BY KindOf DEF Requests, RequestOk, ReqOk, Manager!Create
<1>2. /\ Len(r.list) \in Nat /\ r.i \in 1..(Len(r.list) + 1) /\ r.i \in Nat /\ r.i - 1 \in Nat
      /\ r.i <= Len(r.list) /\ r.list[r.i] # Manager!Illegal
      /\ \A j \in 1..(r.i - 1) : Manager!Target(r, j) \in Paths
      /\ p \in Paths /\ p # << >>
  BY <1>1, UploadFacts DEF ReqOk
<1>3. CASE Manager!Do(h, Manager!To(h, "failed"), tree)
  <2> DEFINE s == Manager!To(h, "failed")
  <2>1. Moved(r, s, "failed")
    BY <1>1, MovedTo DEF Manager!To
  <2> HIDE DEF s
  <2>2. ReqOk(s)
    BY <1>1, <2>1, MovedTyped DEF States
  <2>3. /\ s.path = r.path /\ s.list = r.list /\ s.i = r.i /\ s.clean = r.clean /\ s.kind = "upload" /\ s.at = "failed"
    BY <1>1, <2>1 DEF Moved
  <2>5. s.clean => StoredIn(tree, s, h, r.i - 1, r.i)
    <3>1. s.clean => StoredIn(tree, r, h, r.i - 1, r.i - 1)
      BY <1>1, <2>3 DEF UploadOk
    <3> QED BY <1>2, <2>3, <3>1, StoredMore
  <2>6. UploadOk(tree, s, h)
    BY <2>3, <2>5 DEF UploadOk
  <2>7. RequestOk(tree, s, h)
    BY <2>2, <2>3, <2>6, UploadAlone
  <2> QED BY <1>3, <2>7, StepKeeps, DoFacts DEF s
<1>4. ASSUME NEW id, tree[Manager!Front(p)] = Manager!Dir, tree[p] # Manager!Dir,
             Manager!Do(h, [r EXCEPT !.at = "copy", !.id = id], Manager!Put(p, Manager!File(id, Manager!Part)))
      PROVE  Requests' /\ TreeOk(tree')
  <2> DEFINE s == [r EXCEPT !.at = "copy", !.id = id]
             n == Manager!File(id, Manager!Part)
             u == Manager!Put(p, n)
  <2>1. /\ IsReq(s) /\ s.kind = r.kind /\ s.path = r.path /\ s.list = r.list /\ s.at = "copy" /\ s.i = r.i
        /\ s.id = id /\ s.todo = r.todo /\ s.read = r.read /\ s.clean = r.clean
    <3> HIDE DEF r, n
    <3>1. Opened(r, s, id)
      BY <1>1, CreateFields
    <3> QED BY <3>1 DEF Opened
  <2> HIDE DEF s, r, p
  <2>2. \A q \in Paths : Manager!IsStrictPrefix(q, p) => tree[q] = Manager!Dir
    <3>1. Manager!Front(p) \in Paths /\ \A q \in Paths : Manager!IsStrictPrefix(q, p) => Manager!IsPrefix(q, Manager!Front(p))
      BY <1>2, FrontIs
    <3> QED BY <1>4, <3>1, NodeFacts DEF TreeOk, Manager!IsStrictPrefix
  <2>3. IsNode(n)
    BY NodeFacts DEF IsNode
  <2>4. TreeOk(u)
    <3> HIDE DEF n
    <3> QED BY <1>2, <1>4, <2>2, <2>3, PutOk DEF Manager!Put
  <2>5. u[p] = n /\ \A q \in Paths : q # p => u[q] = tree[q]
    BY <1>2 DEF TreeOk, Manager!Put
  <2> HIDE DEF u
  <2>6. Manager!Wanted(s) = Manager!Wanted(r) /\ \A i : Manager!Target(s, i) = Manager!Target(r, i)
    BY <2>1, SameTargets
  <2>7. ReqOk(s)
    BY <1>1, <1>2, <2>1, <2>6 DEF ReqOk, States
  <2>8. s.clean => StoredIn(u, s, h, r.i - 1, r.i)
    <3> SUFFICES ASSUME s.clean, NEW i \in 1..(r.i - 1),
                        \A j \in 1..r.i : i < j /\ j <= Len(s.list) => Manager!Target(s, j) # Manager!Target(s, i)
                 PROVE  u[Manager!Target(s, i)].kind = "file" /\ u[Manager!Target(s, i)].text = <<h, i>>
      BY DEF StoredIn
    <3>1. StoredIn(tree, r, h, r.i - 1, r.i - 1)
      BY <1>1, <2>1 DEF UploadOk
    <3>2. \A j \in 1..(r.i - 1) : i < j /\ j <= Len(r.list) => Manager!Target(r, j) # Manager!Target(r, i)
      BY <1>2, <2>1, <2>6
    <3>3. tree[Manager!Target(r, i)].kind = "file" /\ tree[Manager!Target(r, i)].text = <<h, i>>
      BY <3>1, <3>2 DEF StoredIn
    <3>4. Manager!Target(r, i) # p
      BY <1>2, <2>1, <2>6 DEF p
    <3> QED BY <1>2, <2>5, <2>6, <3>3, <3>4
  <2>9. UploadOk(u, s, h)
    BY <1>1, <2>1, <2>5, <2>6, <2>8 DEF UploadOk, p
  <2>10. RequestOk(u, s, h)
    BY <1>1, <2>1, <2>7, <2>9, UploadAlone
  <2>11. Manager!Do(h, s, u)
    BY <1>4 DEF s, u
  <2> QED BY <2>4, <2>10, <2>11, StepKeeps, DoFacts
<1> QED
  <2>1. Manager!Do(h, Manager!To(h, "failed"), tree)
        \/ /\ tree[Manager!Front(p)] = Manager!Dir /\ tree[p] # Manager!Dir
           /\ \E id : Manager!Do(h, [r EXCEPT !.at = "copy", !.id = id], Manager!Put(p, Manager!File(id, Manager!Part)))
    BY DEF Manager!Create
  <2> QED BY <1>3, <1>4, <2>1

\* Once copied, the file at hand is stored like those before.
LEMMA CopyKeeps ==
  ASSUME Requests, TreeOk(tree), NEW h \in Handlers, Manager!Copy(h)
  PROVE  Requests' /\ TreeOk(tree')
<1> DEFINE r == req[h]
           p == Manager!Target(r, r.i)
           s == [r EXCEPT !.at = "entry", !.i = @ + 1]
<1>1. /\ RequestOk(tree, r, h) /\ ReqOk(r) /\ IsReq(r) /\ r.at = "copy" /\ r.kind = "upload"
      /\ UploadOk(tree, r, h)
  BY KindOf DEF Requests, RequestOk, ReqOk, Manager!Copy
<1>2. /\ Len(r.list) \in Nat /\ r.i \in 1..(Len(r.list) + 1) /\ r.i \in Nat /\ r.i - 1 \in Nat
      /\ r.i <= Len(r.list) /\ r.list[r.i] # Manager!Illegal
      /\ \A j \in 1..(r.i - 1) : Manager!Target(r, j) \in Paths
      /\ p \in Paths /\ p # << >>
  BY <1>1, UploadFacts DEF ReqOk
<1>3. /\ IsReq(s) /\ s.kind = r.kind /\ s.path = r.path /\ s.list = r.list /\ s.at = "entry" /\ s.i = r.i + 1
      /\ s.id = r.id /\ s.todo = r.todo /\ s.read = r.read /\ s.clean = r.clean
  BY <1>1, CopyFields DEF GoneOn
<1>4. \/ ~Manager!StillThere(r, p) /\ Manager!Do(h, s, tree)
      \/ /\ Manager!StillThere(r, p)
         /\ \E x : /\ tree[p].text = Manager!Part => x = <<h, r.i>>
                   /\ Manager!Do(h, s, Manager!Put(p, Manager!File(r.id, x)))
  BY DEF Manager!Copy
<1> HIDE DEF s, r, p
<1>5. Manager!Wanted(s) = Manager!Wanted(r) /\ \A i : Manager!Target(s, i) = Manager!Target(r, i)
  BY <1>3, SameTargets
<1>6. ReqOk(s)
  <2>1. s.i - 1 = r.i /\ s.i \in Nat \ {0} /\ s.i <= Len(s.list) + 1
    BY <1>2, <1>3
  <2>2. \A j \in 1..r.i : r.list[j] # Manager!Illegal
    <3>1. \A j \in 1..r.i : j = r.i \/ j \in 1..(r.i - 1)
      BY <1>2
    <3> QED BY <1>1, <1>2, <3>1 DEF ReqOk
  <2> QED BY <1>1, <1>3, <1>5, <2>1, <2>2 DEF ReqOk, States
<1>7. ASSUME NEW u, Manager!Do(h, s, u), TreeOk(u), s.clean => StoredIn(u, s, h, r.i, r.i)
      PROVE  Requests' /\ TreeOk(tree')
  <2>1. s.i - 1 = r.i
    BY <1>2, <1>3
  <2>2. UploadOk(u, s, h)
    BY <1>3, <1>7, <2>1 DEF UploadOk
  <2>3. RequestOk(u, s, h)
    BY <1>1, <1>3, <1>6, <2>2, UploadAlone
  <2> QED BY <1>7, <2>3, StepKeeps, DoFacts
<1>8. r.clean => StoredIn(tree, r, h, r.i - 1, r.i) /\ tree[p] = Manager!File(r.id, Manager!Part)
  BY <1>1 DEF UploadOk, p
<1>9. CASE ~Manager!StillThere(r, p) /\ Manager!Do(h, s, tree)
  <2>1. ~s.clean
    BY <1>3, <1>8, <1>9, NodeFacts DEF Manager!StillThere
  <2> QED BY <1>7, <1>9, <2>1
<1>10. ASSUME NEW x, Manager!StillThere(r, p), tree[p].text = Manager!Part => x = <<h, r.i>>,
              Manager!Do(h, s, Manager!Put(p, Manager!File(r.id, x)))
       PROVE  Requests' /\ TreeOk(tree')
  <2> DEFINE n == Manager!File(r.id, x)
             u == Manager!Put(p, n)
  <2>1. IsNode(n)
    BY NodeFacts DEF IsNode
  <2>2. tree[p].kind = "file" /\ tree[p] # Manager!Missing /\ tree[p] # Manager!Dir
    BY <1>10, NodeFacts DEF Manager!StillThere
  <2>3. TreeOk(u)
    <3> HIDE DEF n
    <3>1. \A q \in Paths : Manager!IsStrictPrefix(q, p) => tree[q] = Manager!Dir
      BY <1>2, <2>2 DEF TreeOk
    <3> QED BY <1>2, <2>1, <2>2, <3>1, PutOk DEF Manager!Put
  <2>4. u[p] = n /\ \A q \in Paths : q # p => u[q] = tree[q]
    BY <1>2 DEF TreeOk, Manager!Put
  <2>5. Manager!Do(h, s, u)
    BY <1>10
  <2> HIDE DEF u
  <2>6. s.clean => StoredIn(u, s, h, r.i, r.i)
    <3> SUFFICES ASSUME s.clean, NEW i \in 1..r.i,
                        \A j \in 1..r.i : i < j /\ j <= Len(s.list) => Manager!Target(s, j) # Manager!Target(s, i)
                 PROVE  u[Manager!Target(s, i)].kind = "file" /\ u[Manager!Target(s, i)].text = <<h, i>>
      BY DEF StoredIn
    <3>1. StoredIn(tree, r, h, r.i - 1, r.i) /\ x = <<h, r.i>>
      BY <1>3, <1>8, <1>10, NodeFacts
    <3>2. CASE i = r.i
      BY <1>5, <2>4, <3>1, <3>2, NodeFacts DEF p
    <3>3. CASE i # r.i
      <4>1. i \in 1..(r.i - 1) /\ i < r.i /\ r.i \in 1..r.i
        BY <1>2, <3>3
      <4>2. Manager!Target(r, i) # p /\ Manager!Target(r, i) \in Paths
        BY <1>2, <1>3, <1>5, <4>1 DEF p
      <4>3. tree[Manager!Target(r, i)].kind = "file" /\ tree[Manager!Target(r, i)].text = <<h, i>>
        BY <1>3, <1>5, <3>1, <4>1 DEF StoredIn
      <4> QED BY <1>5, <2>4, <4>2, <4>3
    <3> QED BY <3>2, <3>3
  <2> QED BY <1>7, <2>3, <2>5, <2>6
<1> QED BY <1>4, <1>9, <1>10

\* A failed upload has stored what came before.
LEMMA CopyFailsKeeps ==
  ASSUME Requests, TreeOk(tree), NEW h \in Handlers, Manager!CopyFails(h)
  PROVE  Requests' /\ TreeOk(tree')
<1> DEFINE r == req[h]
           s == Manager!To(h, "failed")
<1>1. /\ RequestOk(tree, r, h) /\ ReqOk(r) /\ IsReq(r) /\ r.at = "copy" /\ r.kind = "upload"
      /\ UploadOk(tree, r, h) /\ Manager!Do(h, s, tree)
  BY KindOf DEF Requests, RequestOk, ReqOk, Manager!CopyFails
<1>2. Moved(r, s, "failed")
  BY <1>1, MovedTo DEF Manager!To
<1> HIDE DEF s
<1>3. ReqOk(s)
  BY <1>1, <1>2, MovedTyped DEF States
<1>4. /\ s.path = r.path /\ s.list = r.list /\ s.i = r.i /\ s.clean = r.clean /\ s.kind = "upload" /\ s.at = "failed"
  BY <1>1, <1>2 DEF Moved
<1>5. s.clean => StoredIn(tree, r, h, r.i - 1, r.i)
  BY <1>1, <1>4 DEF UploadOk
<1>6. ASSUME StoredIn(tree, r, h, r.i - 1, r.i) PROVE StoredIn(tree, s, h, r.i - 1, r.i)
  <2>1. s.path = r.path /\ s.list = r.list
    BY <1>4
  <2> QED BY <1>6, <2>1, StoredStays
<1>7. UploadOk(tree, s, h)
  BY <1>4, <1>5, <1>6 DEF UploadOk
<1> QED BY <1>1, <1>3, <1>4, <1>7, UploadAlone, StepKeeps, DoFacts

-----------------------------------------------------------------------------
(* FileManager: listings, downloads and removals.                             *)

\* A request with something else to do.
LEMMA TodoFields ==
  ASSUME NEW r, IsReq(r), NEW a
  PROVE  /\ IsReq([r EXCEPT !.todo = a]) /\ [r EXCEPT !.todo = a].at = r.at
         /\ [r EXCEPT !.todo = a].kind = r.kind /\ [r EXCEPT !.todo = a].path = r.path
         /\ [r EXCEPT !.todo = a].list = r.list /\ [r EXCEPT !.todo = a].i = r.i
         /\ [r EXCEPT !.todo = a].id = r.id /\ [r EXCEPT !.todo = a].todo = a
         /\ [r EXCEPT !.todo = a].read = r.read /\ [r EXCEPT !.todo = a].clean = r.clean
BY DEF IsReq

\* A request that has read something else.
LEMMA ReadFields ==
  ASSUME NEW r, IsReq(r), NEW a
  PROVE  /\ IsReq([r EXCEPT !.read = a]) /\ [r EXCEPT !.read = a].at = r.at
         /\ [r EXCEPT !.read = a].kind = r.kind /\ [r EXCEPT !.read = a].path = r.path
         /\ [r EXCEPT !.read = a].list = r.list /\ [r EXCEPT !.read = a].i = r.i
         /\ [r EXCEPT !.read = a].id = r.id /\ [r EXCEPT !.read = a].todo = r.todo
         /\ [r EXCEPT !.read = a].read = a /\ [r EXCEPT !.read = a].clean = r.clean
BY DEF IsReq

\* A download or a removal that goes on.
Turned(r, s, a, left, read) ==
  /\ IsReq(s) /\ s.at = a /\ s.todo = left /\ s.read = read
  /\ s.kind = r.kind /\ s.path = r.path /\ s.list = r.list /\ s.i = r.i
  /\ s.id = r.id /\ s.clean = r.clean

\* The updates of downloads and removals do so.
LEMMA TurnedTo ==
  ASSUME NEW r, IsReq(r), NEW a, NEW x, NEW y
  PROVE  /\ Turned(r, [r EXCEPT !.at = a], a, r.todo, r.read)
         /\ Turned(r, [r EXCEPT !.todo = x], r.at, x, r.read)
         /\ Turned(r, [r EXCEPT !.read = y], r.at, r.todo, y)
         /\ Turned(r, [r EXCEPT !.at = a, !.todo = x], a, x, r.read)
         /\ Turned(r, [r EXCEPT !.at = a, !.read = y], a, r.todo, y)
         /\ Turned(r, [r EXCEPT !.todo = x, !.read = y], r.at, x, y)
         /\ Turned(r, [r EXCEPT !.read = y, !.todo = x], r.at, x, y)
<1>1. \A q : IsReq(q) => /\ Turned(q, [q EXCEPT !.at = a], a, q.todo, q.read)
                         /\ Turned(q, [q EXCEPT !.todo = x], q.at, x, q.read)
                         /\ Turned(q, [q EXCEPT !.read = y], q.at, q.todo, y)
  BY AtFields, TodoFields, ReadFields DEF Turned
<1>2. ASSUME NEW q, NEW s, NEW b, NEW c, NEW d, NEW e, NEW f, NEW g,
             Turned(r, q, b, c, d), Turned(q, s, e, f, g)
      PROVE  Turned(r, s, e, f, g)
  BY <1>2 DEF Turned
<1> DEFINE A == [r EXCEPT !.at = a]
           T == [r EXCEPT !.todo = x]
           R == [r EXCEPT !.read = y]
<1>3. /\ [r EXCEPT !.at = a, !.todo = x] = [A EXCEPT !.todo = x]
      /\ [r EXCEPT !.at = a, !.read = y] = [A EXCEPT !.read = y]
      /\ [r EXCEPT !.todo = x, !.read = y] = [T EXCEPT !.read = y]
      /\ [r EXCEPT !.read = y, !.todo = x] = [R EXCEPT !.todo = x]
  OBVIOUS
<1>4. Turned(r, A, a, r.todo, r.read) /\ Turned(r, T, r.at, x, r.read) /\ Turned(r, R, r.at, r.todo, y)
  BY <1>1
<1> HIDE DEF A, T, R
<1>5. /\ IsReq(A) /\ A.at = a /\ A.todo = r.todo /\ A.read = r.read
      /\ IsReq(T) /\ T.at = r.at /\ T.todo = x /\ T.read = r.read
      /\ IsReq(R) /\ R.at = r.at /\ R.todo = r.todo /\ R.read = y
  BY <1>4 DEF Turned
<1>6. /\ Turned(A, [A EXCEPT !.todo = x], a, x, r.read) /\ Turned(A, [A EXCEPT !.read = y], a, r.todo, y)
      /\ Turned(T, [T EXCEPT !.read = y], r.at, x, y) /\ Turned(R, [R EXCEPT !.todo = x], r.at, x, y)
  BY <1>1, <1>5
<1>7. Turned(r, [A EXCEPT !.todo = x], a, x, r.read)
  BY <1>2, <1>4, <1>6
<1>8. Turned(r, [A EXCEPT !.read = y], a, r.todo, y)
  BY <1>2, <1>4, <1>6
<1>9. Turned(r, [T EXCEPT !.read = y], r.at, x, y)
  BY <1>2, <1>4, <1>6
<1>10. Turned(r, [R EXCEPT !.todo = x], r.at, x, y)
  BY <1>2, <1>4, <1>6
<1> QED BY <1>3, <1>4, <1>7, <1>8, <1>9, <1>10 DEF A, T, R

\* The same with a note of what was denied.
LEMMA TurnedDenied ==
  ASSUME NEW r, NEW q, NEW a, NEW x, NEW y, Turned(r, q, a, x, y), NEW b
  PROVE  Turned(r, [q EXCEPT !.denied = b], a, x, y) /\ [q EXCEPT !.denied = b].denied = b
BY DeniedFields DEF Turned

\* It stays a request.
LEMMA TurnedTyped ==
  ASSUME NEW r, ReqOk(r), NEW s, NEW a, NEW left, NEW read, Turned(r, s, a, left, read), a \in States(r.kind),
         r.kind \in {"download", "delete"}, a # "asked",
         left \subseteq Manager!Within(r.path), a = "remove" => read \subseteq Manager!Within(r.path)
  PROVE  ReqOk(s)
BY DEF ReqOk, Turned, States

\* What a download, and what a removal alone has to show for itself.
LEMMA DownloadAlone ==
  ASSUME NEW u, NEW s, NEW h, ReqOk(s), s.kind = "download", DownloadOk(u, s)
  PROVE  RequestOk(u, s, h)
BY DEF RequestOk, UploadOk, RemovalOk

\* The same of a removal.
LEMMA RemovalAlone ==
  ASSUME NEW u, NEW s, NEW h, ReqOk(s), s.kind = "delete", RemovalOk(u, s)
  PROVE  RequestOk(u, s, h)
BY DEF RequestOk, UploadOk, DownloadOk

\* A refusal keeps all promises, and so does a listing.
LEMMA RefusedKeeps ==
  ASSUME Requests, TreeOk(tree), NEW h \in Handlers, NEW a, a \in States(req[h].kind),
         a = "refused" \/ (req[h].kind = "list" /\ a \in {"ok", "failed"}),
         Manager!Do(h, Manager!To(h, a), tree)
  PROVE  Requests' /\ TreeOk(tree')
<1>1. ReqOk(req[h]) /\ IsReq(req[h])
  BY DEF Requests, RequestOk, ReqOk
<1>2. Moved(req[h], Manager!To(h, a), a)
  BY <1>1, MovedTo DEF Manager!To
<1>3. RequestOk(tree, Manager!To(h, a), h)
  BY <1>1, <1>2, NothingPromised
<1> QED BY <1>3, StepKeeps, DoFacts

\* A listing reads.
LEMMA ListKeeps ==
  ASSUME Requests, TreeOk(tree), NEW h \in Handlers, Manager!List(h)
  PROVE  Requests' /\ TreeOk(tree')
<1>1. req[h].kind = "list"
  BY DEF Manager!List
<1>2. PICK a \in {"ok", "failed", "refused"} : Manager!Do(h, Manager!To(h, a), tree)
  BY DEF Manager!List
<1> QED BY <1>1, <1>2, RefusedKeeps DEF States

\* A download begins with the folder itself to be walked.
LEMMA StartDownloadKeeps ==
  ASSUME Requests, TreeOk(tree), NEW h \in Handlers, Manager!StartDownload(h)
  PROVE  Requests' /\ TreeOk(tree')
<1> DEFINE r == req[h]
<1>1. /\ ReqOk(r) /\ IsReq(r) /\ r.at = "asked" /\ r.kind = "download" /\ r.path \in Paths /\ r.read = {}
  BY DEF Requests, RequestOk, ReqOk, Manager!StartDownload
<1>2. r.path \in Manager!Within(r.path) /\ \A q \in Manager!Within(r.path) : Manager!IsPrefix(r.path, q)
  BY <1>1, PrefixOrder DEF Manager!Within
<1>3. CASE tree[r.path] = Manager!Missing
  <2>1. Manager!Do(h, Manager!To(h, "refused"), tree)
    BY <1>3, NodeFacts DEF Manager!StartDownload
  <2> QED BY <1>1, <2>1, RefusedKeeps DEF States
<1>4. CASE tree[r.path] = Manager!Dir
  <2> DEFINE s == [r EXCEPT !.at = "walk", !.todo = {r.path}]
  <2>1. Manager!Do(h, s, tree)
    BY <1>4, NodeFacts DEF Manager!StartDownload
  <2> HIDE DEF r
  <2>2. Turned(r, s, "walk", {r.path}, r.read)
    BY <1>1, TurnedTo
  <2> HIDE DEF s
  <2>3. ReqOk(s)
    BY <1>1, <1>2, <2>2, TurnedTyped DEF States
  <2>4. s.kind = "download" /\ s.at = "walk" /\ s.path = r.path /\ s.todo = {r.path} /\ s.read = {}
    BY <1>1, <2>2 DEF Turned
  <2>5. DownloadOk(tree, s)
    BY <1>2, <1>4, <2>4, NodeFacts DEF DownloadOk
  <2> QED BY <2>1, <2>3, <2>4, <2>5, DownloadAlone, StepKeeps, DoFacts DEF r
<1>5. CASE tree[r.path].kind = "file"
  <2> DEFINE s == Manager!To(h, "read")
  <2>1. Manager!Do(h, s, tree)
    BY <1>5, NodeFacts DEF Manager!StartDownload
  <2>2. Moved(r, s, "read")
    BY <1>1, MovedTo DEF Manager!To
  <2> HIDE DEF s
  <2>3. ReqOk(s)
    BY <1>1, <2>2, MovedTyped DEF States
  <2>4. s.kind = "download" /\ s.at = "read"
    BY <1>1, <2>2 DEF Moved
  <2> QED BY <2>1, <2>3, <2>4, DownloadAlone, StepKeeps, DoFacts DEF DownloadOk
<1> QED BY <1>1, <1>3, <1>4, <1>5, NodeFacts DEF TreeOk

\* What an archive holds.
LEMMA FilesAt ==
  ASSUME NEW t, NEW p, NEW q, NEW x
  PROVE  <<q, x>> \in FilesIn(t, p) <=> q \in Manager!Within(p) /\ t[q].kind = "file" /\ x = t[q].text
BY DEF FilesIn

\* A file is all there is under its path.
LEMMA ReadFileKeeps ==
  ASSUME Requests, TreeOk(tree), NEW h \in Handlers, Manager!ReadFile(h)
  PROVE  Requests' /\ TreeOk(tree')
<1> DEFINE r == req[h]
           s == [r EXCEPT !.at = "ok", !.read = {<<r.path, tree[r.path].text>>}]
<1>1. /\ ReqOk(r) /\ IsReq(r) /\ r.kind = "download" /\ r.path \in Paths
      /\ r.todo \subseteq Manager!Within(r.path)
  BY KindOf DEF Requests, RequestOk, ReqOk, Manager!ReadFile
<1>2. CASE tree[r.path].kind # "file"
  <2>1. Manager!Do(h, Manager!To(h, "refused"), tree)
    BY <1>2 DEF Manager!ReadFile
  <2> QED BY <1>1, <2>1, RefusedKeeps DEF States
<1>3. CASE tree[r.path].kind = "file"
  <2>1. Manager!Do(h, s, tree)
    BY <1>3 DEF Manager!ReadFile
  <2> HIDE DEF r
  <2> DEFINE n == tree[r.path].text
             y == {<<r.path, n>>}
  <2>2. Turned(r, [r EXCEPT !.at = "ok", !.read = y], "ok", r.todo, y)
    <3> HIDE DEF y
    <3> QED BY <1>1, TurnedTo
  <2>3. Turned(r, s, "ok", r.todo, y)
    BY <2>2
  <2> HIDE DEF s
  <2>4. ReqOk(s)
    BY <1>1, <2>3, TurnedTyped DEF States
  <2>5. s.kind = "download" /\ s.at = "ok" /\ s.path = r.path /\ s.read = y
    BY <1>1, <2>3 DEF Turned
  <2>6. \A q \in Manager!Within(r.path) : tree[q].kind = "file" => q = r.path
    <3>1. ASSUME NEW q \in Manager!Within(r.path), tree[q].kind = "file" PROVE q = r.path
      <4>1. q \in Paths /\ Manager!IsPrefix(r.path, q) /\ tree[q] # Manager!Missing /\ tree[r.path] # Manager!Dir
        BY <1>3, <3>1, NodeFacts DEF Manager!Within
      <4> QED BY <1>1, <4>1, NothingUnder
    <3> QED BY <3>1
  <2>7. r.path \in Manager!Within(r.path)
    BY <1>1, PrefixOrder DEF Manager!Within
  <2>8. FilesIn(tree, r.path) = y
    BY <1>3, <2>6, <2>7 DEF FilesIn
  <2>9. DownloadOk(tree, s)
    BY <2>5, <2>8 DEF DownloadOk
  <2> QED BY <2>1, <2>4, <2>5, <2>9, DownloadAlone, StepKeeps, DoFacts
<1> QED BY <1>2, <1>3

\* A walk goes on with what it has read, or is over when nothing is left to do.
LEMMA WalkGoesOn ==
  ASSUME Requests, NEW h \in Handlers, req[h].at = "walk", NEW left, NEW read,
         left \subseteq Manager!Within(req[h].path),
         req[h].clean => /\ read \subseteq FilesIn(tree, req[h].path)
                         /\ \A p \in left : tree[p] # Manager!Missing
                         /\ \A q \in Manager!Within(req[h].path) : tree[q].kind = "file" =>
                              <<q, tree[q].text>> \in read \/ \E p \in left : Manager!IsPrefix(p, q),
         NEW n, Turned(req[h], n, "walk", left, read),
         Manager!Do(h, IF n.at = "walk" /\ n.todo = {} THEN [n EXCEPT !.at = "ok"] ELSE n, tree)
  PROVE  Requests' /\ tree' = tree
<1> DEFINE r == req[h]
<1>1. ReqOk(r) /\ IsReq(r) /\ r.kind = "download" /\ n.at = "walk" /\ n.todo = left /\ IsReq(n)
  BY KindOf DEF Requests, RequestOk, ReqOk, Turned
<1>2. CASE left # {}
  <2>1. Manager!Do(h, n, tree)
    BY <1>1, <1>2
  <2>2. ReqOk(n)
    BY <1>1, TurnedTyped DEF States
  <2>3. n.kind = "download" /\ n.path = r.path /\ n.read = read /\ n.clean = r.clean
    BY <1>1 DEF Turned
  <2>4. DownloadOk(tree, n)
    BY <1>1, <2>3 DEF DownloadOk
  <2> QED BY <2>1, <2>2, <2>3, <2>4, DownloadAlone, StepKeeps, DoFacts
<1>3. CASE left = {}
  <2> DEFINE s == [n EXCEPT !.at = "ok"]
  <2>1. Manager!Do(h, s, tree)
    BY <1>1, <1>3
  <2>2. Moved(n, s, "ok")
    BY <1>1, MovedTo
  <2> HIDE DEF s
  <2>3. Turned(r, s, "ok", left, read)
    BY <2>2 DEF Turned, Moved
  <2>4. ReqOk(s)
    BY <1>1, <2>3, TurnedTyped DEF States
  <2>5. s.kind = "download" /\ s.at = "ok" /\ s.path = r.path /\ s.read = read /\ s.clean = r.clean
    BY <1>1, <2>3 DEF Turned
  <2>6. r.clean => read = FilesIn(tree, r.path)
    <3> SUFFICES ASSUME r.clean, NEW x \in FilesIn(tree, r.path) PROVE x \in read
      OBVIOUS
    <3>1. PICK q \in Manager!Within(r.path) : tree[q].kind = "file" /\ x = <<q, tree[q].text>>
      BY DEF FilesIn
    <3> QED BY <1>3, <3>1
  <2>7. DownloadOk(tree, s)
    BY <2>5, <2>6 DEF DownloadOk
  <2> QED BY <2>1, <2>4, <2>5, <2>7, DownloadAlone, StepKeeps, DoFacts
<1> QED BY <1>2, <1>3

\* A walk puts the names of a folder in its place, and a file into the archive.
LEMMA WalkKeeps ==
  ASSUME Requests, TreeOk(tree), NEW h \in Handlers, NEW p, Manager!Walk(h, p)
  PROVE  Requests' /\ TreeOk(tree')
<1> DEFINE r    == req[h]
           rest == r.todo \ {p}
           kids == Manager!Children(p, tree)
           more == r.read \cup {<<p, tree[p].text>>}
<1>1. /\ ReqOk(r) /\ IsReq(r) /\ r.kind = "download" /\ r.at = "walk" /\ p \in r.todo /\ r.path \in Paths
      /\ p \in Manager!Within(r.path) /\ r.todo \subseteq Manager!Within(r.path) /\ p \in Paths
      /\ DownloadOk(tree, r)
  BY KindOf DEF Requests, RequestOk, ReqOk, Manager!Walk, Manager!Within
<1>2. CASE tree[p] = Manager!Missing
  <2> DEFINE s == [r EXCEPT !.at = "cut", !.todo = {}]
  <2> HIDE DEF r
  <2>1. Turned(r, s, "cut", {}, r.read)
    BY <1>1, TurnedTo
  <2>2. Manager!Do(h, IF s.at = "walk" /\ s.todo = {} THEN [s EXCEPT !.at = "ok"] ELSE s, tree)
    BY <1>2, NodeFacts DEF Manager!Walk, r
  <2> HIDE DEF s
  <2>3. Manager!Do(h, s, tree)
    BY <2>1, <2>2 DEF Turned
  <2>4. ReqOk(s)
    BY <1>1, <2>1, TurnedTyped DEF States
  <2>5. s.kind = "download" /\ s.at = "cut" /\ ~s.clean
    BY <1>1, <1>2, <2>1 DEF Turned, DownloadOk
  <2> QED BY <2>3, <2>4, <2>5, DownloadAlone, StepKeeps, DoFacts DEF DownloadOk
<1>3. CASE tree[p] = Manager!Dir
  <2> DEFINE s == [r EXCEPT !.todo = rest \cup kids]
  <2>2. Manager!Do(h, IF s.at = "walk" /\ s.todo = {} THEN [s EXCEPT !.at = "ok"] ELSE s, tree)
    BY <1>3, NodeFacts DEF Manager!Walk
  <2> HIDE DEF r, rest, kids
  <2>1. Turned(r, s, "walk", rest \cup kids, r.read)
    BY <1>1, TurnedTo
  <2> HIDE DEF s
  <2>3. rest \cup kids \subseteq Manager!Within(r.path)
    <3>1. \A x \in kids : x \in Paths /\ Manager!IsPrefix(p, x)
      BY <1>1, ChildFacts DEF kids
    <3>2. \A x \in kids : Manager!IsPrefix(r.path, x)
      BY <1>1, <3>1, PrefixOrder DEF Manager!Within
    <3> QED BY <1>1, <3>1, <3>2 DEF Manager!Within, rest
  <2>4. ASSUME r.clean, NEW q \in Manager!Within(r.path), tree[q].kind = "file"
        PROVE  <<q, tree[q].text>> \in r.read \/ \E x \in rest \cup kids : Manager!IsPrefix(x, q)
    <3>1. <<q, tree[q].text>> \in r.read \/ \E x \in r.todo : Manager!IsPrefix(x, q)
      BY <1>1, <2>4 DEF DownloadOk
    <3>2. CASE Manager!IsPrefix(p, q)
      <4>1. q \in Paths /\ q # p /\ tree[q] # Manager!Missing
        BY <1>3, <2>4, NodeFacts DEF Manager!Within
      <4>2. \E x \in kids : Manager!IsPrefix(x, q)
        BY <1>1, <3>2, <4>1, ChildOnTheWay DEF kids
      <4> QED BY <4>2
    <3> QED BY <3>1, <3>2 DEF rest
  <2>5. r.clean => /\ r.read \subseteq FilesIn(tree, r.path)
                   /\ \A x \in rest \cup kids : tree[x] # Manager!Missing
    <3>1. \A x \in kids : tree[x] # Manager!Missing
      BY DEF kids, Manager!Children
    <3> QED BY <1>1, <3>1 DEF DownloadOk, rest
  <2>6. Requests' /\ tree' = tree
    <3> DEFINE left == rest \cup kids
    <3>1. /\ Turned(r, s, "walk", left, r.read) /\ left \subseteq Manager!Within(r.path)
          /\ r.clean => /\ r.read \subseteq FilesIn(tree, r.path)
                        /\ \A x \in left : tree[x] # Manager!Missing
                        /\ \A q \in Manager!Within(r.path) : tree[q].kind = "file" =>
                              <<q, tree[q].text>> \in r.read \/ \E x \in left : Manager!IsPrefix(x, q)
      BY <2>1, <2>3, <2>4, <2>5
    <3> HIDE DEF left
    <3> QED BY <1>1, <2>2, <3>1, WalkGoesOn DEF r
  <2> QED BY <2>6
<1>4. CASE tree[p].kind = "file"
  <2> DEFINE s == [r EXCEPT !.todo = rest, !.read = r.read \cup {<<p, tree[p].text>>}]
  <2>2. Manager!Do(h, IF s.at = "walk" /\ s.todo = {} THEN [s EXCEPT !.at = "ok"] ELSE s, tree)
    BY <1>4, NodeFacts DEF Manager!Walk
  <2>0. s = [r EXCEPT !.todo = rest, !.read = more]
    OBVIOUS
  <2> HIDE DEF r, rest, s, more
  <2>1. Turned(r, s, "walk", rest, more)
    BY <1>1, <2>0, TurnedTo
  <2>3. rest \subseteq Manager!Within(r.path)
    BY <1>1 DEF rest
  <2>4. ASSUME r.clean, NEW q \in Manager!Within(r.path), tree[q].kind = "file"
        PROVE  <<q, tree[q].text>> \in more \/ \E x \in rest : Manager!IsPrefix(x, q)
    <3>1. <<q, tree[q].text>> \in r.read \/ \E x \in r.todo : Manager!IsPrefix(x, q)
      BY <1>1, <2>4 DEF DownloadOk
    <3>2. CASE Manager!IsPrefix(p, q)
      <4>1. q \in Paths /\ tree[p] # Manager!Dir /\ tree[q] # Manager!Missing
        BY <1>4, <2>4, NodeFacts DEF Manager!Within
      <4>2. q = p
        BY <1>1, <3>2, <4>1, NothingUnder
      <4> QED BY <4>2 DEF more
    <3> QED BY <3>1, <3>2 DEF rest, more
  <2>5. r.clean => /\ more \subseteq FilesIn(tree, r.path)
                   /\ \A x \in rest : tree[x] # Manager!Missing
    <3>1. <<p, tree[p].text>> \in FilesIn(tree, r.path)
      BY <1>1, <1>4, FilesAt
    <3> QED BY <1>1, <3>1 DEF DownloadOk, rest, more
  <2> QED BY <1>1, <2>1, <2>2, <2>3, <2>4, <2>5, WalkGoesOn DEF r
<1> QED BY <1>1, <1>2, <1>3, <1>4, NodeFacts DEF TreeOk

-----------------------------------------------------------------------------
(* FileManager: removals, and the end of the program.                         *)

\* A removal begins with the folder itself.
LEMMA StartDeleteKeeps ==
  ASSUME Requests, TreeOk(tree), NEW h \in Handlers, Manager!StartDelete(h)
  PROVE  Requests' /\ TreeOk(tree')
<1> DEFINE r == req[h]
<1>1. /\ ReqOk(r) /\ IsReq(r) /\ r.at = "asked" /\ r.kind = "delete" /\ r.path \in Paths /\ r.read = {}
  BY DEF Requests, RequestOk, ReqOk, Manager!StartDelete
<1>2. r.path \in Manager!Within(r.path)
  BY <1>1, PrefixOrder DEF Manager!Within
<1>3. CASE tree[r.path] = Manager!Missing
  <2>1. Manager!Do(h, Manager!To(h, "refused"), tree)
    BY <1>3, NodeFacts DEF Manager!StartDelete
  <2> QED BY <1>1, <2>1, RefusedKeeps DEF States
<1>4. CASE tree[r.path] = Manager!Dir
  <2> DEFINE s == [r EXCEPT !.at = "remove", !.todo = {r.path}]
  <2>1. Manager!Do(h, s, tree)
    BY <1>4, NodeFacts DEF Manager!StartDelete
  <2> HIDE DEF r
  <2>2. Turned(r, s, "remove", {r.path}, r.read)
    BY <1>1, TurnedTo
  <2> HIDE DEF s
  <2>3. ReqOk(s)
    BY <1>1, <1>2, <2>2, TurnedTyped DEF States
  <2>4. s.kind = "delete" /\ s.at = "remove" /\ s.read = {}
    BY <1>1, <2>2 DEF Turned
  <2>5. RemovalOk(tree, s)
    BY <2>4 DEF RemovalOk
  <2> QED BY <2>1, <2>3, <2>4, <2>5, RemovalAlone, StepKeeps, DoFacts DEF r
<1>5. CASE tree[r.path].kind = "file"
  <2> DEFINE s == Manager!To(h, "unlink")
  <2>1. Manager!Do(h, s, tree)
    BY <1>5, NodeFacts DEF Manager!StartDelete
  <2>2. Moved(r, s, "unlink")
    BY <1>1, MovedTo DEF Manager!To
  <2> HIDE DEF s
  <2>3. ReqOk(s)
    BY <1>1, <2>2, MovedTyped DEF States
  <2>4. s.kind = "delete" /\ s.at = "unlink" /\ s.path = r.path
    BY <1>1, <2>2 DEF Moved
  <2>5. RemovalOk(tree, s)
    BY <1>5, <2>4 DEF RemovalOk
  <2> QED BY <2>1, <2>3, <2>4, <2>5, RemovalAlone, StepKeeps, DoFacts
<1> QED BY <1>1, <1>3, <1>4, <1>5, NodeFacts DEF TreeOk

\* What is taken away had nothing under it.
LEMMA Taken ==
  ASSUME TreeOk(tree), NEW p \in Paths, Manager!Children(p, tree) = {}
  PROVE  /\ TreeOk(Manager!Put(p, Manager!Missing))
         /\ \A q \in Manager!Within(p) : Manager!Put(p, Manager!Missing)[q] = Manager!Missing
         /\ \A x : Manager!Children(x, Manager!Put(p, Manager!Missing)) \subseteq Manager!Children(x, tree) \ {p}
<1> DEFINE u == Manager!Put(p, Manager!Missing)
<1>1. TreeOk(u)
  BY PutOk DEF IsNode, Manager!Put
<1>2. u[p] = Manager!Missing /\ \A q \in Paths : q # p => u[q] = tree[q]
  BY DEF TreeOk, Manager!Put
<1> HIDE DEF u
<1>3. ASSUME NEW q \in Manager!Within(p) PROVE u[q] = Manager!Missing
  <2>1. q \in Paths /\ Manager!IsPrefix(p, q)
    BY DEF Manager!Within
  <2>2. q # p => tree[q] = Manager!Missing
    BY <2>1, ChildOnTheWay
  <2> QED BY <1>2, <2>1, <2>2
<1>4. \A x : Manager!Children(x, u) \subseteq Manager!Children(x, tree) \ {p}
  BY <1>2 DEF Manager!Children
<1> QED BY <1>1, <1>3, <1>4 DEF u

\* Only a folder has something in it.
LEMMA NoChildren ==
  ASSUME TreeOk(tree), NEW p \in Paths, tree[p] # Manager!Dir
  PROVE  Manager!Children(p, tree) = {}
<1>1. ASSUME NEW x \in Manager!Children(p, tree) PROVE FALSE
  <2>1. x \in Paths /\ Manager!IsStrictPrefix(p, x) /\ tree[x] # Manager!Missing
    BY ChildFacts
  <2> QED BY <2>1 DEF TreeOk
<1> QED BY <1>1

\* A file is removed unless somebody else did or put a folder there.
LEMMA UnlinkKeeps ==
  ASSUME Requests, TreeOk(tree), NEW h \in Handlers, Manager!Unlink(h)
  PROVE  Requests' /\ TreeOk(tree')
<1> DEFINE r == req[h]
           p == r.path
<1>1. /\ ReqOk(r) /\ IsReq(r) /\ r.at = "unlink" /\ r.kind = "delete" /\ p \in Paths /\ RemovalOk(tree, r)
  BY KindOf DEF Requests, RequestOk, ReqOk, Manager!Unlink
<1>2. CASE tree[p] = Manager!Missing \/ Manager!Children(p, tree) # {}
  <2> DEFINE s == Manager!To(h, "failed")
  <2>1. Manager!Do(h, s, tree)
    BY <1>2 DEF Manager!Unlink
  <2>2. Moved(r, s, "failed")
    BY <1>1, MovedTo DEF Manager!To
  <2> HIDE DEF s
  <2>3. ReqOk(s)
    BY <1>1, <2>2, MovedTyped DEF States
  <2>4. s.kind = "delete" /\ s.at = "failed" /\ s.clean = r.clean
    BY <1>1, <2>2 DEF Moved
  <2>5. ~r.clean
    BY <1>1, <1>2, NodeFacts, NoChildren DEF RemovalOk
  <2>6. RemovalOk(tree, s)
    BY <2>4, <2>5 DEF RemovalOk
  <2> QED BY <2>1, <2>3, <2>4, <2>6, RemovalAlone, StepKeeps, DoFacts
<1>3. CASE ~(tree[p] = Manager!Missing \/ Manager!Children(p, tree) # {})
  <2> DEFINE s == Manager!To(h, "ok")
             u == Manager!Put(p, Manager!Missing)
  <2>1. Manager!Do(h, s, u)
    BY <1>3 DEF Manager!Unlink
  <2>2. Moved(r, s, "ok")
    BY <1>1, MovedTo DEF Manager!To
  <2> HIDE DEF s
  <2>3. ReqOk(s)
    BY <1>1, <2>2, MovedTyped DEF States
  <2>4. s.kind = "delete" /\ s.at = "ok" /\ s.path = p
    BY <1>1, <2>2 DEF Moved
  <2>5. TreeOk(u) /\ \A q \in Manager!Within(p) : u[q] = Manager!Missing
    BY <1>1, <1>3, Taken
  <2> HIDE DEF u
  <2>6. RemovalOk(u, s)
    BY <2>4, <2>5 DEF RemovalOk
  <2> QED BY <2>1, <2>3, <2>4, <2>5, <2>6, RemovalAlone, StepKeeps, DoFacts
<1> QED BY <1>2, <1>3

\* The names of a folder are still to be removed when they have been read.
LEMMA OpenFolderKeeps ==
  ASSUME Requests, TreeOk(tree), NEW h \in Handlers, NEW p, NEW allowed \in BOOLEAN,
         Manager!OpenFolder(h, p, allowed)
  PROVE  Requests' /\ TreeOk(tree')
<1> DEFINE r    == req[h]
           left == r.todo \cup IF allowed THEN Manager!Children(p, tree) ELSE {}
           read == r.read \cup {p}
           b    == r.denied \/ ~allowed
           q    == [r EXCEPT !.read = read, !.todo = left]
           s    == [q EXCEPT !.denied = b]
<1>1. /\ ReqOk(r) /\ IsReq(r) /\ r.at = "remove" /\ r.kind = "delete" /\ r.path \in Paths /\ RemovalOk(tree, r)
      /\ p \in r.todo /\ p \in Manager!Within(r.path) /\ p \in Paths
      /\ r.todo \subseteq Manager!Within(r.path) /\ r.read \subseteq Manager!Within(r.path)
  BY KindOf DEF Requests, RequestOk, ReqOk, Manager!OpenFolder, Manager!Within
<1>2. Manager!Do(h, s, tree)
  <2>1. Manager!Do(h, [r EXCEPT !.read = read, !.todo = left, !.denied = b], tree)
    BY DEF Manager!OpenFolder
  <2>2. [r EXCEPT !.read = read, !.todo = left, !.denied = b] = s
    OBVIOUS
  <2> QED BY <2>1, <2>2
<1>3. left \subseteq Manager!Within(r.path)
  <2>1. \A x \in Manager!Children(p, tree) : x \in Paths /\ Manager!IsPrefix(p, x)
    BY <1>1, ChildFacts
  <2>2. \A x \in Manager!Children(p, tree) : Manager!IsPrefix(r.path, x)
    BY <1>1, <2>1, PrefixOrder DEF Manager!Within
  <2> QED BY <1>1, <2>1, <2>2 DEF Manager!Within
<1>4. read \subseteq Manager!Within(r.path)
  BY <1>1
<1>5. r.clean /\ ~b => \A x \in read : Manager!Children(x, tree) \subseteq left
  BY <1>1 DEF RemovalOk
<1> HIDE DEF r, left, read, b
<1>6. Turned(r, s, r.at, left, read) /\ s.denied = b
  <2>1. Turned(r, q, r.at, left, read)
    BY <1>1, TurnedTo
  <2> HIDE DEF q
  <2> QED BY <2>1, TurnedDenied
<1> HIDE DEF s
<1>7. ReqOk(s)
  BY <1>1, <1>3, <1>4, <1>6, TurnedTyped DEF States
<1>8. /\ s.kind = "delete" /\ s.at = "remove" /\ s.todo = left /\ s.read = read /\ s.clean = r.clean
      /\ s.denied = b
  BY <1>1, <1>6 DEF Turned
<1>9. RemovalOk(tree, s)
  BY <1>5, <1>8 DEF RemovalOk
<1> QED BY <1>2, <1>7, <1>8, <1>9, RemovalAlone, StepKeeps, DoFacts

\* What is removed last has nothing under it unless somebody put it there.
LEMMA RemoveNodeKeeps ==
  ASSUME Requests, TreeOk(tree), NEW h \in Handlers, NEW p, NEW allowed \in BOOLEAN,
         Manager!RemoveNode(h, p, allowed)
  PROVE  Requests' /\ TreeOk(tree')
<1> DEFINE r       == req[h]
           empty   == Manager!Children(p, tree) = {}
           removed == allowed /\ empty
           b       == r.denied \/ ~allowed
           left    == r.todo \ {p}
           u       == IF removed THEN Manager!Put(p, Manager!Missing) ELSE tree
<1>1. /\ ReqOk(r) /\ IsReq(r) /\ r.at = "remove" /\ r.kind = "delete" /\ r.path \in Paths /\ RemovalOk(tree, r)
      /\ p \in r.todo /\ p \in Manager!Within(r.path) /\ p \in Paths
      /\ r.todo \subseteq Manager!Within(r.path) /\ r.read \subseteq Manager!Within(r.path)
  BY KindOf DEF Requests, RequestOk, ReqOk, Manager!RemoveNode, Manager!Within
<1>2. /\ tree[p] = Manager!Dir => p \in r.read
      /\ \A q \in r.todo : ~Manager!IsStrictPrefix(p, q)
  BY DEF Manager!RemoveNode
<1>3. PICK a \in {"remove", "ok", "failed"} :
        /\ a = "ok" => p = r.path /\ removed
        /\ a = "failed" => ~removed
        /\ Manager!Do(h, [r EXCEPT !.at = a, !.todo = left, !.denied = b], u)
  BY DEF Manager!RemoveNode
<1> DEFINE q == [r EXCEPT !.at = a, !.todo = left]
           s == [q EXCEPT !.denied = b]
<1>4. Manager!Do(h, s, u)
  <2>1. [r EXCEPT !.at = a, !.todo = left, !.denied = b] = s
    OBVIOUS
  <2> QED BY <1>3, <2>1
<1>5. r.clean /\ ~b => removed
  <2> SUFFICES ASSUME r.clean, ~r.denied PROVE empty
    OBVIOUS
  <2>1. CASE tree[p] # Manager!Dir
    BY <1>1, <2>1, NoChildren
  <2>2. CASE tree[p] = Manager!Dir
    <3>1. Manager!Children(p, tree) \subseteq r.todo
      BY <1>1, <1>2, <2>2 DEF RemovalOk
    <3> QED BY <1>1, <1>2, <3>1, ChildFacts
  <2> QED BY <2>1, <2>2
<1>6. TreeOk(u)
  BY <1>1, Taken
<1>7. removed => /\ \A f \in Manager!Within(p) : u[f] = Manager!Missing
                 /\ \A x : Manager!Children(x, u) \subseteq Manager!Children(x, tree) \ {p}
  BY <1>1, Taken
<1>8. left \subseteq Manager!Within(r.path)
  BY <1>1
<1>9. r.clean /\ ~b => \A x \in r.read : Manager!Children(x, u) \subseteq left
  <2> HIDE DEF u, removed
  <2> QED BY <1>1, <1>5, <1>7 DEF RemovalOk
<1> HIDE DEF r, left, u, removed, b
<1>10. Turned(r, s, a, left, r.read) /\ s.denied = b
  <2>1. Turned(r, q, a, left, r.read)
    BY <1>1, TurnedTo
  <2> HIDE DEF q
  <2> QED BY <2>1, TurnedDenied
<1> HIDE DEF s
<1>11. ReqOk(s)
  BY <1>1, <1>3, <1>8, <1>10, TurnedTyped DEF States
<1>12. /\ s.kind = "delete" /\ s.at = a /\ s.todo = left /\ s.read = r.read /\ s.clean = r.clean /\ s.path = r.path
       /\ s.denied = b
  BY <1>1, <1>10 DEF Turned
<1>13. RemovalOk(u, s)
  BY <1>3, <1>5, <1>7, <1>9, <1>12 DEF RemovalOk
<1> QED BY <1>4, <1>6, <1>11, <1>12, <1>13, RemovalAlone, StepKeeps, DoFacts

\* A request that is denied a step has stored what came before, or answers that it failed.
LEMMA DeniedKeeps ==
  ASSUME Requests, TreeOk(tree), NEW h \in Handlers, Manager!Denied(h)
  PROVE  Requests' /\ TreeOk(tree')
<1> DEFINE r == req[h]
<1>1. PICK a \in Manager!Denials(r) : Manager!Do(h, Manager!DeniedTo(h, a), tree)
  BY DEF Manager!Denied
<1> DEFINE s == Manager!DeniedTo(h, a)
<1>2. RequestOk(tree, r, h) /\ ReqOk(r) /\ IsReq(r)
  BY DEF Requests, RequestOk, ReqOk
<1>3. Moved(r, s, a) /\ s.denied
  BY <1>2, DeniedMoves
<1>4. \/ a = "refused" /\ r.kind \in {"list", "upload", "download", "delete"}
      \/ a = "failed" /\ r.kind = "list"
      \/ a = "failed" /\ r.kind = "upload" /\ r.at \in {"asked", "create"}
      \/ a = "failed" /\ r.kind = "delete"
      \/ a = "cut" /\ r.kind = "download"
  BY <1>1, <1>2, KindOf DEF Manager!Denials
<1> HIDE DEF s
<1>5. ReqOk(s) /\ s.kind = r.kind /\ s.at = a
  BY <1>2, <1>3, <1>4, MovedTyped DEF States, Moved
<1>6. CASE a = "refused" \/ r.kind = "list"
  <2>1. RequestOk(tree, s, h)
    BY <1>2, <1>3, <1>4, <1>6, NothingPromised DEF States
  <2> QED BY <1>1, <2>1, StepKeeps, DoFacts DEF s
<1>7. CASE a = "failed" /\ r.kind = "upload" /\ r.at \in {"asked", "create"}
  <2>1. /\ s.path = r.path /\ s.list = r.list /\ s.i = r.i /\ s.clean = r.clean
    BY <1>3 DEF Moved
  <2>2. r.i - 1 \in Nat /\ r.i \in Nat
    BY <1>2, <1>7, UploadFacts
  <2>3. r.clean => StoredIn(tree, r, h, r.i - 1, r.i - 1)
    <3>1. CASE r.at = "asked"
      BY <1>2, <3>1 DEF ReqOk, StoredIn
    <3>2. CASE r.at = "create"
      BY <1>2, <1>7, <3>2 DEF RequestOk, UploadOk
    <3> QED BY <1>7, <3>1, <3>2
  <2>4. s.clean => StoredIn(tree, s, h, r.i - 1, r.i)
    BY <2>1, <2>2, <2>3, StoredMore
  <2>5. UploadOk(tree, s, h)
    BY <1>5, <1>7, <2>1, <2>4 DEF UploadOk
  <2>6. RequestOk(tree, s, h)
    BY <1>5, <1>7, <2>5, UploadAlone
  <2> QED BY <1>1, <2>6, StepKeeps, DoFacts DEF s
<1>8. CASE a = "failed" /\ r.kind = "delete"
  <2>1. RemovalOk(tree, s)
    BY <1>3, <1>5, <1>8 DEF RemovalOk
  <2>2. RequestOk(tree, s, h)
    BY <1>5, <1>8, <2>1, RemovalAlone
  <2> QED BY <1>1, <2>2, StepKeeps, DoFacts DEF s
<1>9. CASE a = "cut" /\ r.kind = "download"
  <2>1. DownloadOk(tree, s)
    BY <1>3, <1>5, <1>9 DEF DownloadOk
  <2>2. RequestOk(tree, s, h)
    BY <1>5, <1>9, <2>1, DownloadAlone
  <2> QED BY <1>1, <2>2, StepKeeps, DoFacts DEF s
<1> QED BY <1>4, <1>6, <1>7, <1>8, <1>9

\* So has one that is denied a folder of its next file.
LEMMA FolderDeniedKeeps ==
  ASSUME Requests, TreeOk(tree), NEW h \in Handlers, Manager!FolderDenied(h)
  PROVE  Requests' /\ TreeOk(tree')
<1> DEFINE r == req[h]
           s == Manager!DeniedTo(h, "failed")
<1>1. /\ RequestOk(tree, r, h) /\ ReqOk(r) /\ IsReq(r) /\ r.at = "entry" /\ r.kind = "upload"
      /\ UploadOk(tree, r, h)
  BY KindOf DEF Requests, RequestOk, ReqOk, Manager!FolderDenied
<1>2. PICK q \in Paths : /\ \A x \in Manager!Above(q) : tree[x].kind # "file"
                        /\ Manager!Do(h, s, Manager!Folders(q))
  BY DEF Manager!FolderDenied, Manager!Above
<1> DEFINE u == Manager!Folders(q)
<1>3. TreeOk(u) /\ \A x \in Paths : tree[x].kind = "file" => u[x] = tree[x]
  BY <1>2, FoldersOk
<1>4. Moved(r, s, "failed")
  BY <1>1, DeniedMoves
<1>5. r.i \in Nat /\ r.i - 1 \in Nat /\ \A j \in 1..(r.i - 1) : Manager!Target(r, j) \in Paths
  BY <1>1, UploadFacts
<1> HIDE DEF s, u
<1>6. ReqOk(s)
  BY <1>1, <1>4, MovedTyped DEF States
<1>7. /\ s.path = r.path /\ s.list = r.list /\ s.i = r.i /\ s.clean = r.clean /\ s.kind = "upload" /\ s.at = "failed"
  BY <1>1, <1>4 DEF Moved
<1>8. s.clean => StoredIn(u, s, h, r.i - 1, r.i)
  <2> SUFFICES ASSUME s.clean PROVE StoredIn(u, s, h, r.i - 1, r.i)
    OBVIOUS
  <2>1. StoredIn(tree, r, h, r.i - 1, r.i - 1)
    BY <1>1, <1>7 DEF UploadOk
  <2>2. StoredIn(tree, r, h, r.i - 1, r.i)
    BY <1>5, <2>1, StoredMore
  <2>3. \A i \in 1..(r.i - 1) : tree[Manager!Target(r, i)].kind = "file" =>
                                  u[Manager!Target(r, i)] = tree[Manager!Target(r, i)]
    BY <1>3, <1>5
  <2>4. s.path = r.path /\ s.list = r.list
    BY <1>7
  <2> HIDE DEF r
  <2>5. \A n, m : StoredIn(tree, r, h, n, m) /\ (\A i \in 1..n : tree[Manager!Target(r, i)].kind = "file" =>
                                                u[Manager!Target(r, i)] = tree[Manager!Target(r, i)])
                 => StoredIn(u, s, h, n, m)
    BY <2>4, StoredStays
  <2> QED BY <2>2, <2>3, <2>5
<1>9. UploadOk(u, s, h)
  BY <1>7, <1>8 DEF UploadOk
<1>10. RequestOk(u, s, h)
  BY <1>6, <1>7, <1>9, UploadAlone
<1> QED BY <1>2, <1>3, <1>10, StepKeeps, DoFacts DEF s, u

\* The end of the program loses the requests and what they would have promised.
LEMMA CrashKeeps ==
  ASSUME Requests, TreeOk(tree), Manager!Crash
  PROVE  Requests' /\ TreeOk(tree')
<1>1. /\ tree' = tree /\ DOMAIN req' = Handlers
      /\ \A h \in Handlers : req'[h] = req[h] \/ (req[h].at \notin Manager!Over /\ req'[h] = Manager!To(h, "lost"))
  BY DEF Manager!Crash
<1>2. ASSUME NEW h \in Handlers, req[h].at \notin Manager!Over, req'[h] = Manager!To(h, "lost")
      PROVE  RequestOk(tree, req'[h], h)
  <2>1. ReqOk(req[h]) /\ IsReq(req[h])
    BY DEF Requests, RequestOk, ReqOk
  <2>2. Moved(req[h], req'[h], "lost")
    BY <1>2, <2>1, MovedTo DEF Manager!To
  <2>3. "lost" \in States(req[h].kind)
    BY <1>2, <2>1 DEF ReqOk, States, Manager!Over
  <2> QED BY <2>1, <2>2, <2>3, NothingPromised
<1>3. \A h \in Handlers : RequestOk(tree, req'[h], h)
  BY <1>1, <1>2 DEF Requests
<1> QED BY <1>1, <1>3 DEF Requests

\* Whatever a request or the end of the program does, all requests keep what they
\* promise, and the tree remains one.
LEMMA RequestsKept ==
  ASSUME Requests, TreeOk(tree), Manager!Next
  PROVE  Requests' /\ TreeOk(tree')
<1>1. CASE Manager!Crash
  BY <1>1, CrashKeeps
<1>2. ASSUME NEW h \in Handlers, Manager!HandlerNext(h) PROVE Requests' /\ TreeOk(tree')
  <2>1. CASE \E p \in Paths : \E list \in Lists : Manager!Ask(h, "upload", p, list)
    <3>1. PICK p \in Paths, list \in Lists : Manager!Ask(h, "upload", p, list)
      BY <2>1
    <3> QED BY <3>1, AskKeeps
  <2>2. CASE \E p \in Paths : \E kind \in {"list", "download", "delete"} : Manager!Ask(h, kind, p, << >>)
    <3>1. PICK p \in Paths, kind \in {"list", "download", "delete"} : Manager!Ask(h, kind, p, << >>)
      BY <2>2
    <3> QED BY <3>1, AskKeeps
  <2>3. CASE Manager!StartUpload(h) \/ Manager!Entry(h) \/ Manager!Create(h)
    BY <2>3, StartUploadKeeps, EntryKeeps, CreateKeeps
  <2>4. CASE Manager!Copy(h) \/ Manager!CopyFails(h) \/ Manager!List(h)
    BY <2>4, CopyKeeps, CopyFailsKeeps, ListKeeps
  <2>5. CASE Manager!StartDownload(h) \/ Manager!ReadFile(h)
    BY <2>5, StartDownloadKeeps, ReadFileKeeps
  <2>6. CASE Manager!StartDelete(h) \/ Manager!Unlink(h)
    BY <2>6, StartDeleteKeeps, UnlinkKeeps
  <2>7. CASE \E p \in Paths : Manager!Walk(h, p)
    BY <2>7, WalkKeeps
  <2>8. CASE \E p \in Paths : \E allowed \in BOOLEAN :
               Manager!OpenFolder(h, p, allowed) \/ Manager!RemoveNode(h, p, allowed)
    BY <2>8, OpenFolderKeeps, RemoveNodeKeeps
  <2>9. CASE Manager!Denied(h) \/ Manager!FolderDenied(h)
    BY <2>9, DeniedKeeps, FolderDeniedKeeps
  <2> QED BY <1>2, <2>1, <2>2, <2>3, <2>4, <2>5, <2>6, <2>7, <2>8, <2>9 DEF Manager!HandlerNext
<1> QED BY <1>1, <1>2 DEF Manager!Next

-----------------------------------------------------------------------------
(* FileManager: whose the files are.                                          *)

Before == {"idle", "asked", "entry", "create"}

\* An upload has opened the j-th of its files.
Reached(r, j) == j < r.i \/ (j = r.i /\ r.at \notin Before)

\* A file is known by an upload that has opened it, or was there all along.
Used(q, id) == \A h \in Handlers : \A j \in Nat : id = <<h, j>> => Reached(q[h], j)

OwnIds(t, q) ==
  /\ \A p \in Paths : t[p].kind = "file" => Used(q, t[p].id)
  /\ \A p, x \in Paths : t[p].kind = "file" /\ t[x].kind = "file" /\ t[p].id = t[x].id => p = x
  /\ \A h \in Handlers : q[h].at = "copy" => Used(q, q[h].id)

At(r) == Manager!Target(r, r.i)

\* A file that is not whole is being written, by one upload.
Written(t, q) ==
  /\ \A p \in Paths : t[p].kind = "file" =>
       /\ t[p].text # Manager!Garbled
       /\ t[p].text = Manager!Part => \E h \in Handlers : q[h].at = "copy" /\ q[h].id = t[p].id /\ At(q[h]) = p
  /\ \A h \in Handlers : q[h].at = "copy" =>
       /\ t[At(q[h])].kind = "file" /\ t[At(q[h])].id = q[h].id => t[At(q[h])].text = Manager!Part
       /\ \A g \in Handlers : q[g].at = "copy" /\ q[g].id = q[h].id => g = h

\* No upload goes back.
Advances(q, w) == \A h \in Handlers : \A j \in Nat : Reached(q[h], j) => Reached(w[h], j)

\* Whose a file is does not change.
LEMMA UsedStays ==
  ASSUME NEW q, NEW w, Advances(q, w), NEW id, Used(q, id)
  PROVE  Used(w, id)
BY DEF Used, Advances

\* Nobody opens a file, and what files there are were there.
LEMMA OwnStays ==
  ASSUME NEW t, NEW u, NEW q, NEW w, OwnIds(t, q), Advances(q, w),
         \A p \in Paths : u[p].kind = "file" => u[p] = t[p],
         \A g \in Handlers : w[g].at = "copy" => q[g].at = "copy" /\ w[g].id = q[g].id
  PROVE  OwnIds(u, w)
<1>1. \A p \in Paths : u[p].kind = "file" => Used(w, u[p].id)
  BY UsedStays DEF OwnIds
<1>2. \A g \in Handlers : w[g].at = "copy" => Used(w, w[g].id)
  BY UsedStays DEF OwnIds
<1>3. \A p, x \in Paths : u[p].kind = "file" /\ u[x].kind = "file" /\ u[p].id = u[x].id => p = x
  BY DEF OwnIds
<1> QED BY <1>1, <1>2, <1>3 DEF OwnIds

\* Files that nobody writes stay as they are.
LEMMA WrittenStays ==
  ASSUME NEW t, NEW u, NEW q, NEW w, Written(t, q),
         \A p \in Paths : u[p].kind = "file" => u[p] = t[p],
         \A g \in Handlers : w[g].at = "copy" => At(w[g]) \in Paths,
         \A g \in Handlers : w[g].at = "copy" <=> q[g].at = "copy",
         \A g \in Handlers : w[g].at = "copy" => w[g].id = q[g].id /\ At(w[g]) = At(q[g])
  PROVE  Written(u, w)
BY DEF Written

\* A file that is opened or written has a path.
LEMMA CopyingFacts ==
  ASSUME Requests, NEW h \in Handlers, req[h].at \in {"create", "copy"}
  PROVE  /\ At(req[h]) \in Paths /\ At(req[h]) # << >> /\ req[h].i \in Nat \ {0}
BY KindOf, UploadFacts DEF Requests, RequestOk, ReqOk, At

\* What everybody else's request is after a step.
LEMMA OthersAre ==
  ASSUME Requests, NEW h \in Handlers, NEW s, NEW u, Manager!Do(h, s, u), NEW g \in Handlers \ {h}
  PROVE  /\ req'[g].at = req[g].at /\ req'[g].i = req[g].i /\ req'[g].id = req[g].id
         /\ At(req'[g]) = At(req[g])
<1>1. Beside(tree, req[g], u, req'[g])
  BY DoFacts
<1> QED BY <1>1, SameTargets DEF Beside, At

\* What is said of the files.
FilesOk == OwnIds(tree, req) /\ (intactTree /\ ~contested => Written(tree, req))

\* A step in which no file is opened or written.
Calm(h) ==
  \E s, u : /\ Manager!Do(h, s, u)
            /\ req[h].at # "copy" /\ s.at # "copy" /\ s.i = req[h].i
            /\ s.at \in Before => req[h].at \in Before
            /\ \A p \in Paths : u[p].kind = "file" => u[p] = tree[p]

\* Such a step keeps what is said of the files.
LEMMA CalmKeeps ==
  ASSUME Requests, FilesOk, NEW h \in Handlers, Calm(h), intactTree' = intactTree, contested' = contested
  PROVE  FilesOk'
<1>1. PICK s, u : /\ Manager!Do(h, s, u)
                  /\ req[h].at # "copy" /\ s.at # "copy" /\ s.i = req[h].i
                  /\ s.at \in Before => req[h].at \in Before
                  /\ \A p \in Paths : u[p].kind = "file" => u[p] = tree[p]
  BY DEF Calm
<1>2. tree' = u /\ req'[h] = s
  BY <1>1, DoFacts
<1>3. \A g \in Handlers \ {h} : /\ req'[g].at = req[g].at /\ req'[g].i = req[g].i /\ req'[g].id = req[g].id
                                /\ At(req'[g]) = At(req[g])
  BY <1>1, OthersAre
<1>4. Advances(req, req')
  BY <1>1, <1>2, <1>3 DEF Advances, Reached
<1>5. OwnIds(tree', req')
  <2> DEFINE w == req'
  <2>1. /\ OwnIds(tree, req) /\ Advances(req, w) /\ \A p \in Paths : u[p].kind = "file" => u[p] = tree[p]
        /\ \A g \in Handlers : w[g].at = "copy" => req[g].at = "copy" /\ w[g].id = req[g].id
    BY <1>1, <1>2, <1>3, <1>4 DEF FilesOk
  <2> HIDE DEF w
  <2>2. OwnIds(u, w)
    BY <2>1, OwnStays
  <2> QED BY <1>2, <2>2 DEF w
<1>6. intactTree /\ ~contested => Written(tree', req')
  <2> DEFINE w == req'
  <2>1. /\ \A p \in Paths : u[p].kind = "file" => u[p] = tree[p]
        /\ \A g \in Handlers : w[g].at = "copy" <=> req[g].at = "copy"
        /\ \A g \in Handlers : w[g].at = "copy" => w[g].id = req[g].id /\ At(w[g]) = At(req[g])
    BY <1>1, <1>2, <1>3
  <2>2. \A g \in Handlers : w[g].at = "copy" => At(w[g]) \in Paths
    <3> HIDE DEF w
    <3> QED BY <2>1, CopyingFacts
  <2> HIDE DEF w
  <2>3. Written(tree, req) => Written(u, w)
    BY <2>1, <2>2, WrittenStays
  <2> QED BY <1>2, <2>3 DEF w, FilesOk
<1> QED BY <1>5, <1>6 DEF FilesOk

\* A new file belongs to the upload that creates it, a truncated one to whom it did.
LEMMA CreateKeepsFiles ==
  ASSUME Requests, TreeOk(tree), FilesOk, NEW h \in Handlers, Manager!Create(h)
  PROVE  FilesOk'
<1> DEFINE r == req[h]
           p == At(r)
           n == <<h, r.i>>
           id == IF tree[p] = Manager!Missing THEN n ELSE tree[p].id
           s == [r EXCEPT !.at = "copy", !.id = id]
           u == Manager!Put(p, Manager!File(id, Manager!Part))
           w == req'
<1>1. IsReq(r) /\ r.at = "create" /\ p \in Paths /\ r.i \in Nat
  BY CopyingFacts DEF Requests, RequestOk, ReqOk, Manager!Create
<1>2. intactTree' = intactTree
  BY DEF Manager!Create
<1>3. CASE Manager!Do(h, Manager!To(h, "failed"), tree) /\ contested' = contested
  <2>1. Moved(r, Manager!To(h, "failed"), "failed")
    BY <1>1, MovedTo DEF Manager!To
  <2>2. Calm(h)
    BY <1>1, <1>3, <2>1 DEF Calm, Moved, Before
  <2> QED BY <1>2, <1>3, <2>2, CalmKeeps
<1>4. CASE /\ tree[p] # Manager!Dir /\ Manager!Do(h, s, u)
           /\ contested' = (contested \/ \E g \in Handlers \ {h} : req[g].at = "copy" /\ req[g].id = id)
  <2> HIDE DEF id, n
  <2>1. Opened(r, s, id)
    BY <1>1, CreateFields
  <2>2. tree' = u /\ w[h] = s
    BY <1>4, DoFacts
  <2>3. w[h].at = "copy" /\ w[h].id = id /\ w[h].i = r.i /\ At(w[h]) = p
    <3> HIDE DEF s, r, w, u
    <3>1. s.at = "copy" /\ s.id = id /\ s.i = r.i /\ s.path = r.path /\ s.list = r.list
      BY <2>1 DEF Opened
    <3>2. Manager!Target(s, r.i) = Manager!Target(r, r.i)
      BY <3>1, SameTargets
    <3> QED BY <2>2, <3>1, <3>2 DEF At
  <2>4. u[p] = Manager!File(id, Manager!Part) /\ \A x \in Paths : x # p => u[x] = tree[x]
    BY <1>1 DEF TreeOk, Manager!Put
  <2>5. u[p].kind = "file" /\ u[p].id = id /\ u[p].text = Manager!Part
    BY <2>4, NodeFacts
  <2>6. \A g \in Handlers \ {h} : /\ w[g].at = req[g].at /\ w[g].i = req[g].i /\ w[g].id = req[g].id
                                  /\ At(w[g]) = At(req[g])
    BY <1>4, OthersAre
  <2> HIDE DEF p, s, u, w
  <2>7. Advances(req, w)
    BY <1>1, <2>3, <2>6 DEF Advances, Reached, Before
  <2>8. tree[p] = Manager!Missing \/ tree[p].kind = "file"
    BY <1>1, <1>4, NodeFacts DEF TreeOk
  <2>9. Used(w, id)
    <3>1. CASE tree[p] = Manager!Missing
      <4>1. id = <<h, r.i>>
        BY <3>1 DEF id, n
      <4>2. ASSUME NEW g \in Handlers, NEW j \in Nat, id = <<g, j>> PROVE Reached(w[g], j)
        <5>1. g = h /\ j = r.i
          BY <4>1, <4>2
        <5> QED BY <2>3, <5>1 DEF Reached, Before
      <4> QED BY <4>2 DEF Used
    <3>2. CASE tree[p] # Manager!Missing
      <4>1. id = tree[p].id /\ Used(req, tree[p].id)
        BY <1>1, <2>8, <3>2 DEF id, FilesOk, OwnIds
      <4> QED BY <2>7, <4>1, UsedStays
    <3> QED BY <3>1, <3>2
  <2>10. \A x \in Paths : x # p /\ tree[x].kind = "file" => tree[x].id # id
    <3> SUFFICES ASSUME NEW x \in Paths, x # p, tree[x].kind = "file", tree[x].id = id PROVE FALSE
      OBVIOUS
    <3>1. CASE tree[p] = Manager!Missing
      <4>1. Used(req, id) /\ id = <<h, r.i>>
        BY <3>1 DEF FilesOk, OwnIds, id, n
      <4>2. Reached(r, r.i)
        BY <1>1, <4>1 DEF Used
      <4> QED BY <1>1, <4>2 DEF Reached, Before
    <3>2. CASE tree[p] # Manager!Missing
      <4>1. id = tree[p].id
        BY <3>2 DEF id
      <4> QED BY <1>1, <2>8, <3>2, <4>1 DEF FilesOk, OwnIds
    <3> QED BY <3>1, <3>2
  <2>11. OwnIds(u, w)
    <3>1. \A x \in Paths : u[x].kind = "file" => Used(w, u[x].id)
      <4>1. \A x \in Paths : tree[x].kind = "file" => Used(w, tree[x].id)
        BY <2>7, UsedStays DEF FilesOk, OwnIds
      <4> QED BY <2>4, <2>5, <2>9, <4>1
    <3>2. \A x, y \in Paths : u[x].kind = "file" /\ u[y].kind = "file" /\ u[x].id = u[y].id => x = y
      <4>1. \A x, y \in Paths : tree[x].kind = "file" /\ tree[y].kind = "file" /\ tree[x].id = tree[y].id => x = y
        BY DEF FilesOk, OwnIds
      <4> QED BY <2>4, <2>5, <2>10, <4>1
    <3>3. \A g \in Handlers : w[g].at = "copy" => Used(w, w[g].id)
      <4>1. \A g \in Handlers : req[g].at = "copy" => Used(w, req[g].id)
        BY <2>7, UsedStays DEF FilesOk, OwnIds
      <4> QED BY <2>3, <2>6, <2>9, <4>1
    <3> QED BY <3>1, <3>2, <3>3 DEF OwnIds
  <2>12. ASSUME intactTree', ~contested' PROVE Written(u, w)
    <3>1. Written(tree, req) /\ \A g \in Handlers \ {h} : req[g].at = "copy" => req[g].id # id
      BY <1>2, <1>4, <2>12 DEF FilesOk
    <3>2. ASSUME NEW x \in Paths, u[x].kind = "file"
          PROVE  /\ u[x].text # Manager!Garbled
                 /\ u[x].text = Manager!Part => \E g \in Handlers : w[g].at = "copy" /\ w[g].id = u[x].id /\ At(w[g]) = x
      <4>1. CASE x = p
        BY <2>3, <2>5, <4>1 DEF Manager!Part, Manager!Garbled
      <4>2. CASE x # p
        <5>1. tree[x].text # Manager!Garbled
              /\ (tree[x].text = Manager!Part =>
                    \E g \in Handlers : req[g].at = "copy" /\ req[g].id = tree[x].id /\ At(req[g]) = x)
          BY <2>4, <3>1, <3>2, <4>2 DEF Written
        <5>2. u[x] = tree[x] /\ \A g \in Handlers : req[g].at = "copy" => g \in Handlers \ {h}
          BY <1>1, <2>4, <4>2
        <5> QED BY <2>6, <5>1, <5>2
      <4> QED BY <4>1, <4>2
    <3>3. ASSUME NEW g \in Handlers, w[g].at = "copy"
          PROVE  /\ u[At(w[g])].kind = "file" /\ u[At(w[g])].id = w[g].id => u[At(w[g])].text = Manager!Part
                 /\ \A k \in Handlers : w[k].at = "copy" /\ w[k].id = w[g].id => k = g
      <4>1. CASE g = h
        BY <2>3, <2>5, <2>6, <3>1, <4>1
      <4>2. CASE g # h
        <5>1. g \in Handlers \ {h} /\ req[g].at = "copy" /\ w[g].id = req[g].id /\ At(w[g]) = At(req[g])
              /\ At(req[g]) \in Paths
          BY <2>6, <3>3, <4>2, CopyingFacts
        <5>2. w[g].id # id
          BY <3>1, <5>1
        <5>3. u[At(w[g])].kind = "file" /\ u[At(w[g])].id = w[g].id => u[At(w[g])].text = Manager!Part
          BY <2>4, <2>5, <3>1, <5>1, <5>2 DEF Written
        <5>4. \A k \in Handlers : w[k].at = "copy" /\ w[k].id = w[g].id => k = g
          BY <2>3, <2>6, <3>1, <5>1, <5>2 DEF Written
        <5> QED BY <5>3, <5>4
      <4> QED BY <4>1, <4>2
    <3> QED BY <3>2, <3>3 DEF Written
  <2>13. OwnIds(tree', req') /\ (intactTree' /\ ~contested' => Written(tree', req'))
    BY <2>2, <2>11, <2>12 DEF w
  <2> QED BY <2>13 DEF FilesOk
<1> QED BY <1>3, <1>4 DEF Manager!Create, At

\* The upload that has written a file was the only one to write it.
LEMMA CopyKeepsFiles ==
  ASSUME Requests, TreeOk(tree), FilesOk, NEW h \in Handlers, Manager!Copy(h)
  PROVE  FilesOk'
<1> DEFINE r == req[h]
           p == At(r)
           s == [r EXCEPT !.at = "entry", !.i = @ + 1]
           w == req'
<1>1. IsReq(r) /\ r.at = "copy" /\ p \in Paths /\ r.i \in Nat \ {0}
  BY CopyingFacts DEF Requests, RequestOk, ReqOk, Manager!Copy
<1>2. intactTree' = intactTree /\ contested' = contested
  BY DEF Manager!Copy
<1>3. PICK u : /\ Manager!Do(h, s, u)
               /\ \/ ~Manager!StillThere(r, p) /\ u = tree
                  \/ /\ Manager!StillThere(r, p)
                     /\ \E x : /\ tree[p].text = Manager!Part => x = <<h, r.i>>
                               /\ u = Manager!Put(p, Manager!File(r.id, x))
  BY DEF Manager!Copy, At
<1>4. GoneOn(r, s)
  BY <1>1, CopyFields
<1>5. tree' = u /\ w[h] = s
  BY <1>3, DoFacts
<1>6. w[h].at = "entry" /\ w[h].i = r.i + 1
  BY <1>4, <1>5 DEF GoneOn
<1>7. \A g \in Handlers \ {h} : /\ w[g].at = req[g].at /\ w[g].i = req[g].i /\ w[g].id = req[g].id
                                /\ At(w[g]) = At(req[g])
  BY <1>3, OthersAre
<1> HIDE DEF w, s, r
<1>8. Advances(req, w)
  <2>1. ASSUME NEW j \in Nat, Reached(r, j) PROVE Reached(w[h], j)
    BY <1>1, <1>6, <2>1 DEF Reached
  <2> QED BY <1>7, <2>1 DEF Advances, Reached, r
<1>9. \A g \in Handlers : w[g].at = "copy" => /\ g # h /\ req[g].at = "copy" /\ w[g].id = req[g].id
                                             /\ At(w[g]) = At(req[g]) /\ At(req[g]) \in Paths
  BY <1>6, <1>7, CopyingFacts
<1>10. OwnIds(u, w)
  <2>1. \A x \in Paths : u[x].kind = tree[x].kind /\ (tree[x].kind = "file" => u[x].id = tree[x].id)
    <3>1. CASE u = tree
      BY <3>1
    <3>2. ASSUME NEW y, Manager!StillThere(r, p), u = Manager!Put(p, Manager!File(r.id, y))
          PROVE  \A x \in Paths : u[x].kind = tree[x].kind /\ (tree[x].kind = "file" => u[x].id = tree[x].id)
      BY <1>1, <3>2, NodeFacts DEF TreeOk, Manager!Put, Manager!StillThere
    <3> QED BY <1>3, <3>1, <3>2
  <2>2. \A x \in Paths : tree[x].kind = "file" => Used(w, tree[x].id)
    BY <1>8, UsedStays DEF FilesOk, OwnIds
  <2>3. \A g \in Handlers : req[g].at = "copy" => Used(w, req[g].id)
    BY <1>8, UsedStays DEF FilesOk, OwnIds
  <2>4. \A x, y \in Paths : tree[x].kind = "file" /\ tree[y].kind = "file" /\ tree[x].id = tree[y].id => x = y
    BY DEF FilesOk, OwnIds
  <2> QED BY <1>9, <2>1, <2>2, <2>3, <2>4 DEF OwnIds
<1>11. ASSUME intactTree, ~contested PROVE Written(u, w)
  <2>1. Written(tree, req)
    BY <1>11 DEF FilesOk
  <2>2. \A g \in Handlers : req[g].at = "copy" /\ g # h => w[g].at = "copy" /\ w[g].id = req[g].id /\ At(w[g]) = At(req[g])
    BY <1>7
  <2>3. \A g, k \in Handlers : w[g].at = "copy" /\ w[k].at = "copy" /\ w[g].id = w[k].id => g = k
    BY <1>9, <2>1 DEF Written
  <2>4. CASE ~Manager!StillThere(r, p) /\ u = tree
    <3>1. ASSUME NEW x \in Paths, tree[x].kind = "file", tree[x].text = Manager!Part
          PROVE  \E g \in Handlers : w[g].at = "copy" /\ w[g].id = tree[x].id /\ At(w[g]) = x
      <4>1. PICK g \in Handlers : req[g].at = "copy" /\ req[g].id = tree[x].id /\ At(req[g]) = x
        BY <2>1, <3>1 DEF Written
      <4>2. g # h
        BY <2>4, <3>1, <4>1 DEF Manager!StillThere, r
      <4> QED BY <2>2, <4>1, <4>2
    <3>2. \A x \in Paths : tree[x].kind = "file" => tree[x].text # Manager!Garbled
      BY <2>1 DEF Written
    <3>3. \A g \in Handlers : w[g].at = "copy" =>
            (u[At(w[g])].kind = "file" /\ u[At(w[g])].id = w[g].id => u[At(w[g])].text = Manager!Part)
      BY <1>9, <2>1, <2>4 DEF Written
    <3> QED BY <2>3, <2>4, <3>1, <3>2, <3>3 DEF Written
  <2>5. ASSUME NEW y, Manager!StillThere(r, p), tree[p].text = Manager!Part => y = <<h, r.i>>,
               u = Manager!Put(p, Manager!File(r.id, y))
        PROVE  Written(u, w)
    <3>1. tree[p].kind = "file" /\ tree[p].id = r.id
      BY <2>5 DEF Manager!StillThere
    <3>2. tree[p].text = Manager!Part
      BY <1>1, <2>1, <3>1 DEF Written, r
    <3>3. y = <<h, r.i>> /\ y # Manager!Part /\ y # Manager!Garbled
      BY <1>1, <2>5, <3>2 DEF Manager!Part, Manager!Garbled
    <3>4. u[p] = Manager!File(r.id, y) /\ \A x \in Paths : x # p => u[x] = tree[x]
      BY <1>1, <2>5 DEF TreeOk, Manager!Put
    <3>5. u[p].kind = "file" /\ u[p].id = r.id /\ u[p].text = y
      BY <3>4, NodeFacts
    <3>6. ASSUME NEW x \in Paths, u[x].kind = "file"
          PROVE  /\ u[x].text # Manager!Garbled
                 /\ u[x].text = Manager!Part => \E g \in Handlers : w[g].at = "copy" /\ w[g].id = u[x].id /\ At(w[g]) = x
      <4>1. CASE x = p
        BY <3>3, <3>5, <4>1
      <4>2. CASE x # p
        <5>1. u[x] = tree[x] /\ tree[x].text # Manager!Garbled
          BY <2>1, <3>4, <3>6, <4>2 DEF Written
        <5>2. ASSUME tree[x].text = Manager!Part
              PROVE  \E g \in Handlers : w[g].at = "copy" /\ w[g].id = tree[x].id /\ At(w[g]) = x
          <6>1. PICK g \in Handlers : req[g].at = "copy" /\ req[g].id = tree[x].id /\ At(req[g]) = x
            BY <2>1, <3>6, <5>1, <5>2 DEF Written
          <6>2. g # h
            BY <4>2, <6>1 DEF r
          <6> QED BY <2>2, <6>1, <6>2
        <5> QED BY <5>1, <5>2
      <4> QED BY <4>1, <4>2
    <3>7. ASSUME NEW g \in Handlers, w[g].at = "copy", u[At(w[g])].kind = "file", u[At(w[g])].id = w[g].id
          PROVE  u[At(w[g])].text = Manager!Part
      <4>1. g # h /\ req[g].at = "copy" /\ w[g].id = req[g].id /\ At(w[g]) = At(req[g]) /\ At(req[g]) \in Paths
        BY <1>9, <3>7
      <4>2. req[g].id # r.id
        BY <1>1, <2>1, <4>1 DEF Written, r
      <4>3. At(req[g]) # p
        BY <3>5, <3>7, <4>1, <4>2
      <4> QED BY <2>1, <3>4, <3>7, <4>1, <4>3 DEF Written
    <3> QED BY <2>3, <3>6, <3>7 DEF Written
  <2> QED BY <1>3, <2>4, <2>5
<1>12. OwnIds(tree', req') /\ (intactTree' /\ ~contested' => Written(tree', req'))
  BY <1>2, <1>5, <1>10, <1>11 DEF w
<1> QED BY <1>12 DEF FilesOk

-----------------------------------------------------------------------------
(* FileManager: all the steps, and the theorem.                               *)

\* A step to another place is such a step.
LEMMA CalmTo ==
  ASSUME Requests, NEW h \in Handlers, NEW a, NEW u, Manager!Do(h, Manager!To(h, a), u),
         req[h].at # "copy", a # "copy", a \in Before => req[h].at \in Before,
         \A p \in Paths : u[p].kind = "file" => u[p] = tree[p]
  PROVE  Calm(h)
<1>1. Moved(req[h], Manager!To(h, a), a)
  BY MovedTo DEF Requests, RequestOk, ReqOk, Manager!To
<1> QED BY <1>1 DEF Calm, Moved

\* So is one of a download or of a removal.
LEMMA CalmTurned ==
  ASSUME Requests, NEW h \in Handlers, NEW s, NEW u, Manager!Do(h, s, u),
         NEW a, NEW x, NEW y, Turned(req[h], s, a, x, y), req[h].at # "copy", a \notin Before \cup {"copy"},
         \A p \in Paths : u[p].kind = "file" => u[p] = tree[p]
  PROVE  Calm(h)
BY DEF Calm, Turned

\* A node that is no file is put somewhere.
LEMMA NoFilePut ==
  ASSUME TreeOk(tree), NEW p, NEW n \in {Manager!Missing, Manager!Dir}
  PROVE  \A q \in Paths : Manager!Put(p, n)[q].kind = "file" => Manager!Put(p, n)[q] = tree[q]
BY NodeFacts DEF TreeOk, Manager!Put

\* The start of an upload opens no file, nor does making folders.
LEMMA CalmUploads ==
  ASSUME Requests, TreeOk(tree), NEW h \in Handlers, Manager!StartUpload(h) \/ Manager!Entry(h)
  PROVE  Calm(h)
<1>1. CASE Manager!StartUpload(h)
  <2>1. req[h].at = "asked"
    BY <1>1 DEF Manager!StartUpload
  <2>2. \/ Manager!Do(h, Manager!To(h, "refused"), tree)
        \/ Manager!Do(h, Manager!To(h, "entry"), Manager!Put(<< >>, Manager!Dir))
    BY <1>1 DEF Manager!StartUpload
  <2>3. \A q \in Paths : Manager!Put(<< >>, Manager!Dir)[q].kind = "file" => Manager!Put(<< >>, Manager!Dir)[q] = tree[q]
    BY NoFilePut
  <2>4. CASE Manager!Do(h, Manager!To(h, "refused"), tree)
    BY <2>1, <2>4, CalmTo DEF Before
  <2>5. CASE Manager!Do(h, Manager!To(h, "entry"), Manager!Put(<< >>, Manager!Dir))
    BY <2>1, <2>3, <2>5, CalmTo DEF Before
  <2> QED BY <2>2, <2>4, <2>5
<1>2. CASE Manager!Entry(h)
  <2> DEFINE r == req[h]
             p == Manager!Target(r, r.i)
  <2>1. r.at = "entry" /\ ReqOk(r) /\ r.kind = "upload"
    BY <1>2, KindOf DEF Requests, RequestOk, Manager!Entry
  <2>2. r.i \in Nat /\ Len(r.list) \in Nat
    BY <2>1, UploadFacts
  <2>3. \/ \E a \in {"ok", "refused", "failed"} : Manager!Do(h, Manager!To(h, a), tree)
        \/ /\ r.i <= Len(r.list) /\ r.list[r.i] # Manager!Illegal
           /\ \A q \in Manager!Above(p) : tree[q].kind # "file"
           /\ Manager!Do(h, Manager!To(h, "create"), Manager!Folders(p))
    <3>1. CASE r.i > Len(r.list)
      <4>1. ~(r.i <= Len(r.list))
        BY <2>2, <3>1
      <4>2. Manager!Do(h, Manager!To(h, IF r.list = << >> THEN "refused" ELSE "ok"), tree)
        BY <1>2, <3>1, <4>1 DEF Manager!Entry
      <4> QED BY <4>2
    <3>2. CASE r.i <= Len(r.list) /\ r.list[r.i] = Manager!Illegal
      <4>1. ~(r.i > Len(r.list))
        BY <2>2, <3>2
      <4>2. Manager!Do(h, Manager!To(h, "refused"), tree)
        BY <1>2, <3>2, <4>1 DEF Manager!Entry
      <4> QED BY <4>2
    <3>3. CASE r.i <= Len(r.list) /\ r.list[r.i] # Manager!Illegal
      <4>1. ~(r.i > Len(r.list))
        BY <2>2, <3>3
      <4>2. IF \E q \in Manager!Above(p) : tree[q].kind = "file"
            THEN Manager!Do(h, Manager!To(h, "failed"), tree)
            ELSE Manager!Do(h, Manager!To(h, "create"), Manager!Folders(p))
        BY <1>2, <3>3, <4>1 DEF Manager!Entry
      <4> QED BY <3>3, <4>2
    <3>4. r.i > Len(r.list) \/ r.i <= Len(r.list)
      BY <2>2
    <3> QED BY <3>1, <3>2, <3>3, <3>4
  <2>4. ASSUME NEW a \in {"ok", "refused", "failed"}, Manager!Do(h, Manager!To(h, a), tree) PROVE Calm(h)
    BY <2>1, <2>4, CalmTo DEF Before
  <2>5. CASE /\ r.i <= Len(r.list) /\ r.list[r.i] # Manager!Illegal
             /\ \A q \in Manager!Above(p) : tree[q].kind # "file"
             /\ Manager!Do(h, Manager!To(h, "create"), Manager!Folders(p))
    <3>1. p \in Paths
      BY <2>1, <2>5, UploadFacts
    <3> HIDE DEF p
    <3>2. \A q \in Paths : Manager!Folders(p)[q].kind = "file" => Manager!Folders(p)[q] = tree[q]
      BY <2>5, <3>1, FoldersOk
    <3> QED BY <2>1, <2>5, <3>2, CalmTo DEF Before
  <2> QED BY <2>3, <2>4, <2>5
<1> QED BY <1>1, <1>2

\* Reading writes nothing.
LEMMA CalmReads ==
  ASSUME Requests, TreeOk(tree), NEW h \in Handlers,
         \/ Manager!List(h) \/ Manager!StartDownload(h) \/ Manager!ReadFile(h) \/ Manager!StartDelete(h)
         \/ \E p \in Paths : \/ Manager!Walk(h, p)
                             \/ \E allowed \in BOOLEAN : Manager!OpenFolder(h, p, allowed)
  PROVE  Calm(h)
<1> DEFINE r == req[h]
<1>1. IsReq(r) /\ \A p \in Paths : tree[p] \in {Manager!Missing, Manager!Dir} \/ tree[p].kind = "file"
  BY NodeFacts DEF Requests, RequestOk, ReqOk, TreeOk
<1>2. r.path \in Paths /\ r.todo \subseteq Manager!Within(r.path)
  BY DEF Requests, RequestOk, ReqOk
<1>3. ASSUME NEW s, NEW a, NEW x, NEW y, Manager!Do(h, s, tree), Turned(r, s, a, x, y),
             r.at # "copy", a \notin Before \cup {"copy"}
      PROVE  Calm(h)
  BY <1>3, CalmTurned
<1>4. CASE Manager!List(h)
  <2>1. r.at = "asked" /\ \E a \in {"ok", "failed", "refused"} : Manager!Do(h, Manager!To(h, a), tree)
    BY <1>4 DEF Manager!List
  <2> QED BY <2>1, CalmTo DEF Before
<1>5. CASE Manager!StartDownload(h)
  <2>1. r.at = "asked" /\ (\/ \E a \in {"refused", "read"} : Manager!Do(h, Manager!To(h, a), tree)
                           \/ Manager!Do(h, [r EXCEPT !.at = "walk", !.todo = {r.path}], tree))
    BY <1>1, <1>2, <1>5, NodeFacts DEF Manager!StartDownload
  <2>2. Turned(r, [r EXCEPT !.at = "walk", !.todo = {r.path}], "walk", {r.path}, r.read)
    BY <1>1, TurnedTo
  <2>3. CASE \E a \in {"refused", "read"} : Manager!Do(h, Manager!To(h, a), tree)
    BY <2>1, <2>3, CalmTo DEF Before
  <2> QED BY <1>3, <2>1, <2>2, <2>3 DEF Before
<1>6. CASE Manager!StartDelete(h)
  <2>1. r.at = "asked" /\ (\/ \E a \in {"refused", "unlink"} : Manager!Do(h, Manager!To(h, a), tree)
                           \/ Manager!Do(h, [r EXCEPT !.at = "remove", !.todo = {r.path}], tree))
    BY <1>1, <1>2, <1>6, NodeFacts DEF Manager!StartDelete
  <2>2. Turned(r, [r EXCEPT !.at = "remove", !.todo = {r.path}], "remove", {r.path}, r.read)
    BY <1>1, TurnedTo
  <2>3. CASE \E a \in {"refused", "unlink"} : Manager!Do(h, Manager!To(h, a), tree)
    BY <2>1, <2>3, CalmTo DEF Before
  <2> QED BY <1>3, <2>1, <2>2, <2>3 DEF Before
<1>7. CASE Manager!ReadFile(h)
  <2> DEFINE y == {<<r.path, tree[r.path].text>>}
  <2>1. r.at = "read" /\ (\/ Manager!Do(h, Manager!To(h, "refused"), tree)
                          \/ Manager!Do(h, [r EXCEPT !.at = "ok", !.read = y], tree))
    BY <1>7 DEF Manager!ReadFile
  <2> HIDE DEF y
  <2>2. Turned(r, [r EXCEPT !.at = "ok", !.read = y], "ok", r.todo, y)
    BY <1>1, TurnedTo
  <2>3. CASE Manager!Do(h, Manager!To(h, "refused"), tree)
    BY <2>1, <2>3, CalmTo DEF Before
  <2> QED BY <1>3, <2>1, <2>2, <2>3 DEF Before
<1>8. ASSUME NEW p \in Paths, Manager!Walk(h, p) PROVE Calm(h)
  <2> DEFINE rest == r.todo \ {p}
             kids == rest \cup Manager!Children(p, tree)
             more == r.read \cup {<<p, tree[p].text>>}
  <2>1. PICK n : /\ \/ n = [r EXCEPT !.at = "cut", !.todo = {}]
                    \/ n = [r EXCEPT !.todo = kids]
                    \/ n = [r EXCEPT !.todo = rest, !.read = more]
                 /\ Manager!Do(h, IF n.at = "walk" /\ n.todo = {} THEN [n EXCEPT !.at = "ok"] ELSE n, tree)
    <3>1. CASE tree[p] = Manager!Missing
      BY <1>8, <3>1, NodeFacts DEF Manager!Walk
    <3>2. CASE tree[p] = Manager!Dir
      BY <1>8, <3>2, NodeFacts DEF Manager!Walk
    <3>3. CASE tree[p].kind = "file"
      BY <1>8, <3>3, NodeFacts DEF Manager!Walk
    <3> QED BY <1>1, <3>1, <3>2, <3>3
  <2>2. r.at = "walk"
    BY <1>8 DEF Manager!Walk
  <2> HIDE DEF rest, kids, more
  <2>3. PICK a \in {"cut", "walk"} : \E x, y : Turned(r, n, a, x, y)
    <3>1. /\ Turned(r, [r EXCEPT !.at = "cut", !.todo = {}], "cut", {}, r.read)
          /\ Turned(r, [r EXCEPT !.todo = kids], "walk", kids, r.read)
          /\ Turned(r, [r EXCEPT !.todo = rest, !.read = more], "walk", rest, more)
      BY <1>1, <2>2, TurnedTo
    <3> QED BY <2>1, <3>1
  <2>4. PICK x, y : Turned(r, n, a, x, y)
    BY <2>3
  <2>5. IsReq(n)
    BY <2>4 DEF Turned
  <2>6. Moved(n, [n EXCEPT !.at = "ok"], "ok")
    BY <2>5, MovedTo
  <2>7. Turned(r, [n EXCEPT !.at = "ok"], "ok", x, y)
    BY <2>4, <2>6 DEF Moved, Turned
  <2>8. Manager!Do(h, [n EXCEPT !.at = "ok"], tree) \/ Manager!Do(h, n, tree)
    BY <2>1
  <2> QED BY <1>3, <2>2, <2>4, <2>7, <2>8 DEF Before
<1>9. ASSUME NEW p \in Paths, NEW allowed \in BOOLEAN, Manager!OpenFolder(h, p, allowed) PROVE Calm(h)
  <2> DEFINE left == r.todo \cup IF allowed THEN Manager!Children(p, tree) ELSE {}
             read == r.read \cup {p}
             b    == r.denied \/ ~allowed
             q    == [r EXCEPT !.read = read, !.todo = left]
             s    == [q EXCEPT !.denied = b]
  <2>1. r.at = "remove" /\ Manager!Do(h, s, tree)
    <3>1. r.at = "remove" /\ Manager!Do(h, [r EXCEPT !.read = read, !.todo = left, !.denied = b], tree)
      BY <1>9 DEF Manager!OpenFolder
    <3>2. [r EXCEPT !.read = read, !.todo = left, !.denied = b] = s
      OBVIOUS
    <3> QED BY <3>1, <3>2
  <2> HIDE DEF left, read, b
  <2>2. Turned(r, s, "remove", left, read)
    <3>1. Turned(r, q, "remove", left, read)
      BY <1>1, <2>1, TurnedTo
    <3> HIDE DEF q
    <3> QED BY <3>1, TurnedDenied
  <2> HIDE DEF s
  <2> QED BY <1>3, <2>1, <2>2 DEF Before
<1> QED BY <1>4, <1>5, <1>6, <1>7, <1>8, <1>9

\* What is removed was there.
LEMMA CalmRemovals ==
  ASSUME Requests, TreeOk(tree), NEW h \in Handlers,
         Manager!Unlink(h) \/ \E p \in Paths : \E allowed \in BOOLEAN : Manager!RemoveNode(h, p, allowed)
  PROVE  Calm(h)
<1> DEFINE r == req[h]
<1>1. IsReq(r)
  BY DEF Requests, RequestOk, ReqOk
<1>2. \A p, q \in Paths : Manager!Put(p, Manager!Missing)[q].kind = "file" => Manager!Put(p, Manager!Missing)[q] = tree[q]
  BY NoFilePut
<1>3. CASE Manager!Unlink(h)
  <2>1. /\ r.at = "unlink" /\ r.path \in Paths
        /\ \/ Manager!Do(h, Manager!To(h, "failed"), tree)
           \/ Manager!Do(h, Manager!To(h, "ok"), Manager!Put(r.path, Manager!Missing))
    BY <1>3 DEF Manager!Unlink, Requests, RequestOk, ReqOk
  <2>2. CASE Manager!Do(h, Manager!To(h, "failed"), tree)
    BY <2>1, <2>2, CalmTo DEF Before
  <2>3. CASE Manager!Do(h, Manager!To(h, "ok"), Manager!Put(r.path, Manager!Missing))
    BY <1>2, <2>1, <2>3, CalmTo DEF Before
  <2> QED BY <2>1, <2>2, <2>3
<1>4. ASSUME NEW p \in Paths, NEW allowed \in BOOLEAN, Manager!RemoveNode(h, p, allowed) PROVE Calm(h)
  <2> DEFINE left == r.todo \ {p}
             b    == r.denied \/ ~allowed
  <2>1. r.at = "remove"
    BY <1>4 DEF Manager!RemoveNode
  <2>2. PICK a \in {"remove", "ok", "failed"}, u \in {Manager!Put(p, Manager!Missing), tree} :
          Manager!Do(h, [r EXCEPT !.at = a, !.todo = left, !.denied = b], u)
    BY <1>4 DEF Manager!RemoveNode
  <2> DEFINE q == [r EXCEPT !.at = a, !.todo = left]
             s == [q EXCEPT !.denied = b]
  <2>5. Manager!Do(h, s, u)
    <3>1. [r EXCEPT !.at = a, !.todo = left, !.denied = b] = s
      OBVIOUS
    <3> QED BY <2>2, <3>1
  <2> HIDE DEF left, b
  <2>3. Turned(r, s, a, left, r.read)
    <3>1. Turned(r, q, a, left, r.read)
      BY <1>1, TurnedTo
    <3> HIDE DEF q
    <3> QED BY <3>1, TurnedDenied
  <2> HIDE DEF s
  <2>4. \A f \in Paths : u[f].kind = "file" => u[f] = tree[f]
    BY <1>2
  <2> QED BY <2>1, <2>5, <2>3, <2>4, CalmTurned DEF Before
<1> QED BY <1>3, <1>4

\* What is denied opens no file.
LEMMA CalmDenials ==
  ASSUME Requests, TreeOk(tree), NEW h \in Handlers, Manager!Denied(h) \/ Manager!FolderDenied(h)
  PROVE  Calm(h)
<1> DEFINE r == req[h]
<1>1. ASSUME NEW a \in {"refused", "failed", "cut"}, NEW u, Manager!Do(h, Manager!DeniedTo(h, a), u),
             r.at # "copy", \A p \in Paths : u[p].kind = "file" => u[p] = tree[p]
      PROVE  Calm(h)
  <2>1. Moved(r, Manager!DeniedTo(h, a), a)
    BY DeniedMoves DEF Requests, RequestOk, ReqOk
  <2> QED BY <1>1, <2>1 DEF Calm, Moved, Before
<1>2. CASE Manager!Denied(h)
  <2>1. PICK a \in Manager!Denials(r) : Manager!Do(h, Manager!DeniedTo(h, a), tree)
    BY <1>2 DEF Manager!Denied
  <2>2. a \in {"refused", "failed", "cut"} /\ r.at # "copy"
    BY <2>1 DEF Manager!Denials
  <2> QED BY <1>1, <2>1, <2>2
<1>3. CASE Manager!FolderDenied(h)
  <2>1. PICK q \in Paths : /\ \A x \in Manager!Above(q) : tree[x].kind # "file"
                          /\ Manager!Do(h, Manager!DeniedTo(h, "failed"), Manager!Folders(q))
    BY <1>3 DEF Manager!FolderDenied, Manager!Above
  <2>2. \A p \in Paths : Manager!Folders(q)[p].kind = "file" => Manager!Folders(q)[p] = tree[p]
    BY <2>1, FoldersOk
  <2>3. r.at # "copy"
    BY <1>3 DEF Manager!FolderDenied
  <2> QED BY <1>1, <2>1, <2>2, <2>3
<1> QED BY <1>2, <1>3

\* A new request touches nothing.
LEMMA CalmAsk ==
  ASSUME Requests, TreeOk(tree), NEW h \in Handlers, NEW k, NEW p, NEW list, Manager!Ask(h, k, p, list)
  PROVE  Calm(h)
<1> DEFINE s == Manager!Asked(k, p, list)
<1>1. Manager!Do(h, s, tree) /\ req[h].at = "idle" /\ req[h].i = 1
  BY DEF Manager!Ask, Requests, RequestOk, ReqOk
<1>2. s.at = "asked" /\ s.i = 1
  BY DEF Manager!Asked
<1> HIDE DEF s
<1> QED BY <1>1, <1>2 DEF Calm, Before

\* Where nothing is said of the texts, the owners are enough.
LEMMA CrashKeepsFiles ==
  ASSUME Requests, TreeOk(tree), FilesOk, Manager!Crash \/ \E h \in Handlers : Manager!CopyFails(h)
  PROVE  FilesOk'
<1>1. tree' = tree /\ ~intactTree'
  BY DoFacts DEF Manager!Crash, Manager!CopyFails
<1>2. /\ \A g \in Handlers : req'[g].i = req[g].i /\ req'[g].id = req[g].id
      /\ \A g \in Handlers : req'[g].at = req[g].at \/ req'[g].at \in {"lost", "failed"}
  <2>0. \A g \in Handlers : IsReq(req[g])
    BY DEF Requests, RequestOk, ReqOk
  <2>1. CASE Manager!Crash
    <3>1. \A g \in Handlers : req'[g] = req[g] \/ req'[g] = Manager!To(g, "lost")
      BY <2>1 DEF Manager!Crash
    <3>2. \A g \in Handlers : Moved(req[g], Manager!To(g, "lost"), "lost")
      BY <2>0, MovedTo DEF Manager!To
    <3> QED BY <3>1, <3>2 DEF Moved
  <2>2. ASSUME NEW h \in Handlers, Manager!CopyFails(h)
        PROVE  /\ \A g \in Handlers : req'[g].i = req[g].i /\ req'[g].id = req[g].id
               /\ \A g \in Handlers : req'[g].at = req[g].at \/ req'[g].at \in {"lost", "failed"}
    <3>1. Manager!Do(h, Manager!To(h, "failed"), tree)
      BY <2>2 DEF Manager!CopyFails
    <3>2. Moved(req[h], Manager!To(h, "failed"), "failed")
      BY <2>0, MovedTo DEF Manager!To
    <3>3. req'[h] = Manager!To(h, "failed")
      BY <3>1, DoFacts
    <3>4. \A g \in Handlers \ {h} : req'[g].at = req[g].at /\ req'[g].i = req[g].i /\ req'[g].id = req[g].id
      BY <3>1, OthersAre
    <3> QED BY <3>2, <3>3, <3>4 DEF Moved
  <2> QED BY <2>1, <2>2
<1> DEFINE w == req'
<1>3. Advances(req, w)
  BY <1>2 DEF Advances, Reached, Before
<1>4. \A g \in Handlers : w[g].at = "copy" => req[g].at = "copy" /\ w[g].id = req[g].id
  BY <1>2
<1> HIDE DEF w
<1>5. OwnIds(tree, w)
  BY <1>3, <1>4, OwnStays DEF FilesOk
<1>6. OwnIds(tree', req')
  BY <1>1, <1>5 DEF w
<1> QED BY <1>1, <1>6 DEF FilesOk

\* All steps keep what is said of the files.
LEMMA FilesKept ==
  ASSUME Requests, TreeOk(tree), FilesOk, Manager!Next
  PROVE  FilesOk'
<1>1. CASE Manager!Crash
  BY <1>1, CrashKeepsFiles
<1>2. ASSUME NEW h \in Handlers, Manager!HandlerNext(h) PROVE FilesOk'
  <2>1. CASE Manager!Create(h)
    BY <2>1, CreateKeepsFiles
  <2>2. CASE Manager!Copy(h)
    BY <2>2, CopyKeepsFiles
  <2>3. CASE Manager!CopyFails(h)
    BY <2>3, CrashKeepsFiles
  <2>4. CASE \E p \in Paths : \/ \E list \in Lists : Manager!Ask(h, "upload", p, list)
                              \/ \E kind \in {"list", "download", "delete"} : Manager!Ask(h, kind, p, << >>)
    <3>1. Calm(h)
      BY <2>4, CalmAsk
    <3>2. intactTree' = intactTree /\ contested' = contested
      BY <2>4 DEF Manager!Ask
    <3> QED BY <3>1, <3>2, CalmKeeps
  <2>5. CASE Manager!StartUpload(h) \/ Manager!Entry(h)
    <3>1. intactTree' = intactTree /\ contested' = contested
      BY <2>5 DEF Manager!StartUpload, Manager!Entry
    <3> QED BY <2>5, <3>1, CalmUploads, CalmKeeps
  <2>6. CASE \/ Manager!List(h) \/ Manager!StartDownload(h) \/ Manager!ReadFile(h) \/ Manager!StartDelete(h)
             \/ \E p \in Paths : \/ Manager!Walk(h, p)
                                 \/ \E allowed \in BOOLEAN : Manager!OpenFolder(h, p, allowed)
    <3>1. intactTree' = intactTree /\ contested' = contested
      BY <2>6 DEF Manager!List, Manager!StartDownload, Manager!ReadFile, Manager!StartDelete, Manager!Walk,
                  Manager!OpenFolder
    <3> QED BY <2>6, <3>1, CalmReads, CalmKeeps
  <2>7. CASE Manager!Unlink(h) \/ \E p \in Paths : \E allowed \in BOOLEAN : Manager!RemoveNode(h, p, allowed)
    <3>1. intactTree' = intactTree /\ contested' = contested
      BY <2>7 DEF Manager!Unlink, Manager!RemoveNode
    <3> QED BY <2>7, <3>1, CalmRemovals, CalmKeeps
  <2>8. CASE Manager!Denied(h) \/ Manager!FolderDenied(h)
    <3>1. intactTree' = intactTree /\ contested' = contested
      BY <2>8 DEF Manager!Denied, Manager!FolderDenied
    <3> QED BY <2>8, <3>1, CalmDenials, CalmKeeps
  <2> QED BY <1>2, <2>1, <2>2, <2>3, <2>4, <2>5, <2>6, <2>7, <2>8 DEF Manager!HandlerNext
<1> QED BY <1>1, <1>2 DEF Manager!Next

-----------------------------------------------------------------------------

\* The inductive invariant.
FilesIInv == Requests /\ TreeOk(tree) /\ FilesOk

\* It holds at the beginning.
LEMMA FilesInitially ==
  ASSUME Manager!Init
  PROVE  FilesIInv
<1>1. tree \in Trees /\ req = [h \in Handlers |-> Manager!NewReq]
  BY DEF Manager!Init
<1>2. TreeOk(tree)
  <2>1. DOMAIN tree = Paths
    BY <1>1, TreesAssumption
  <2>2. \A p \in Paths : IsNode(tree[p])
    BY <1>1, TreesAssumption DEF IsNode
  <2>3. \A p, q \in Paths : Manager!IsStrictPrefix(q, p) /\ tree[p] # Manager!Missing => tree[q] = Manager!Dir
    BY <1>1, TreesAssumption
  <2> QED BY <2>1, <2>2, <2>3 DEF TreeOk
<1>3. \A p \in Paths : tree[p].kind = "file" =>
        tree[p].id \notin Handlers \X Nat /\ tree[p].text \notin {Manager!Part, Manager!Garbled}
  BY <1>1, TreesAssumption, NodeFacts
<1>4. \A p, q \in Paths : tree[p].kind = "file" /\ tree[q].kind = "file" /\ tree[p].id = tree[q].id => p = q
  BY <1>1, TreesAssumption
<1> DEFINE n == Manager!NewReq
<1>5. /\ IsReq(n) /\ n.kind = "none" /\ n.at = "idle" /\ n.i = 1 /\ n.path = << >> /\ n.todo = {} /\ n.read = {}
  <2> DEFINE a == Manager!Asked("none", << >>, << >>)
  <2>1. IsReq(a) /\ a.kind = "none" /\ a.i = 1 /\ a.path = << >> /\ a.todo = {} /\ a.read = {}
    BY DEF Manager!Asked, IsReq
  <2>2. n = [a EXCEPT !.at = "idle"]
    BY DEF Manager!NewReq
  <2> HIDE DEF a, n
  <2>3. Moved(a, n, "idle")
    BY <2>1, <2>2, MovedTo
  <2> QED BY <2>1, <2>3 DEF Moved
<1> HIDE DEF n
<1>6. \A h \in Handlers : req[h] = n
  BY <1>1 DEF n
<1>7. ReqOk(n)
  BY <1>5, PrefixOrder DEF ReqOk, States
<1>8. Requests
  BY <1>1, <1>5, <1>6, <1>7 DEF Requests, RequestOk, UploadOk, DownloadOk, RemovalOk
<1>9. OwnIds(tree, req)
  <2>1. \A p \in Paths : tree[p].kind = "file" => Used(req, tree[p].id)
    <3>1. \A h \in Handlers : \A j \in Nat : <<h, j>> \in Handlers \X Nat
      OBVIOUS
    <3>2. \A id : id \notin Handlers \X Nat => Used(req, id)
      BY <3>1 DEF Used
    <3> QED BY <1>3, <3>2
  <2>2. \A h \in Handlers : req[h].at # "copy"
    BY <1>5, <1>6
  <2> QED BY <1>4, <2>1, <2>2 DEF OwnIds
<1>10. Written(tree, req)
  BY <1>3, <1>5, <1>6 DEF Written
<1> QED BY <1>2, <1>8, <1>9, <1>10 DEF FilesIInv, FilesOk

\* The promise of an upload as FileManager states it.
LEMMA StoredIs ==
  ASSUME NEW h \in Handlers, ReqOk(req[h]), req[h].kind = "upload", NEW n, StoredIn(tree, req[h], h, n, req[h].i)
  PROVE  Manager!Stored(req[h], h, n)
<1>1. DOMAIN req[h].list = 1..Len(req[h].list) /\ Len(req[h].list) \in Nat /\ req[h].i \in Nat
  BY UploadFacts
<1>2. \A j \in 1..req[h].i : j <= Len(req[h].list) => j \in DOMAIN req[h].list /\ j <= req[h].i
  BY <1>1
<1> QED BY <1>2 DEF StoredIn, Manager!Stored

\* The invariant is enough.
LEMMA FilesImply ==
  ASSUME FilesIInv
  PROVE  Manager!ManagedFilesInv
<1>1. Requests /\ TreeOk(tree) /\ FilesOk /\ \A h \in Handlers : RequestOk(tree, req[h], h) /\ ReqOk(req[h])
  BY DEF FilesIInv, Requests, RequestOk
<1>2. Manager!FileManagerTypeOK
  <2>1. \A p \in Paths : tree[p].kind \in {"missing", "dir", "file"}
    BY <1>1, NodeFacts DEF TreeOk
  <2>2. \A p \in Paths \ {<< >>} : tree[p] # Manager!Missing => tree[Manager!Front(p)] = Manager!Dir
    BY <1>1, FrontIs DEF TreeOk
  <2>3. \A h \in Handlers : req[h].at \in Manager!Over \cup {"asked", "entry", "create", "copy", "walk", "read",
                                                             "remove", "unlink"}
    BY <1>1 DEF ReqOk, States, Manager!Over
  <2>4. \A h \in Handlers : req[h].at \in {"create", "copy"} => Manager!Target(req[h], req[h].i) \in Paths
    BY <1>1, CopyingFacts DEF At
  <2>5. \A h \in Handlers : req[h].todo \subseteq Manager!Within(req[h].path)
    BY <1>1 DEF ReqOk
  <2> QED BY <2>1, <2>2, <2>3, <2>4, <2>5 DEF Manager!FileManagerTypeOK
<1>3. Manager!UploadIsStored
  <2> SUFFICES ASSUME NEW h \in Handlers, req[h].kind = "upload", req[h].clean
               PROVE  /\ req[h].at = "ok" => Manager!Stored(req[h], h, Len(req[h].list))
                      /\ req[h].at = "failed" => Manager!Stored(req[h], h, req[h].i - 1)
    BY DEF Manager!UploadIsStored
  <2>1. /\ req[h].at = "ok" => StoredIn(tree, req[h], h, Len(req[h].list), req[h].i)
        /\ req[h].at = "failed" => StoredIn(tree, req[h], h, req[h].i - 1, req[h].i)
    BY <1>1 DEF RequestOk, UploadOk
  <2> QED BY <1>1, <2>1, StoredIs
<1>4. Manager!DownloadIsWhole
  <2>1. \A h \in Handlers : FilesIn(tree, req[h].path) = Manager!FilesUnder(req[h].path)
    BY DEF FilesIn, Manager!FilesUnder
  <2> QED BY <1>1, <2>1 DEF RequestOk, DownloadOk, Manager!DownloadIsWhole
<1>5. Manager!RemovalIsWhole
  BY <1>1 DEF RequestOk, RemovalOk, Manager!RemovalIsWhole
<1>6. Manager!FilesAreWhole
  BY <1>1 DEF FilesOk, Written, Manager!FilesAreWhole, Manager!Quiet, Manager!Over
<1> QED BY <1>2, <1>3, <1>4, <1>5, <1>6 DEF Manager!ManagedFilesInv

\* The other areas leave it alone.
LEMMA FilesUnchanged ==
  ASSUME FilesIInv, UNCHANGED managerVars
  PROVE  FilesIInv'
<1>1. tree' = tree /\ req' = req /\ intactTree' = intactTree /\ contested' = contested
  BY DEF managerVars
<1> QED BY <1>1 DEF FilesIInv, Requests, FilesOk

\* An accepted upload is stored, an archive that came to its end is the folder, a removal
\* that answers ok leaves nothing, each unless somebody else changed what it is about; an
\* archive is cut short and a removal fails only after such a change or an error of the
\* operating system; and no file stays half written while no copy fails and no two
\* uploads write one file (web.go:1063, 1090, 1136, 1147, 1168).
THEOREM ManagedFilesKeepPromises == DirectoriesSpec => []ManagedFilesInv
<1> DEFINE I == area = "files" => FilesIInv
<1>1. DirectoriesInit => I
  BY FilesInitially DEF DirectoriesInit
<1>2. I /\ [DirectoriesNext]_<<area, vars, managerVars, outputVars>> => I'
  <2> SUFFICES ASSUME I, [DirectoriesNext]_<<area, vars, managerVars, outputVars>>, area' = "files"
               PROVE  FilesIInv'
    OBVIOUS
  <2>1. CASE area = "files" /\ Manager!Next
    BY <2>1, RequestsKept, FilesKept DEF FilesIInv
  <2>2. CASE area' = area /\ UNCHANGED managerVars
    BY <2>2, FilesUnchanged
  <2> QED BY <2>1, <2>2 DEF DirectoriesNext
<1>3. I => ManagedFilesInv
  BY FilesImply DEF ManagedFilesInv
<1> QED BY <1>1, <1>2, <1>3, PTL DEF DirectoriesSpec

-----------------------------------------------------------------------------
(* Profiles: texts.                                                           *)

\* A text with a line that is not blank has a first one.
LEMMA FirstLine ==
  ASSUME NEW ls \in Seq(TextLine), \E i \in DOMAIN ls : ls[i].kind # "blank"
  PROVE  \E i \in DOMAIN ls : ls[i].kind # "blank" /\ \A j \in 1..(i - 1) : ls[j].kind = "blank"
<1>1. DOMAIN ls = 1..Len(ls) /\ Len(ls) \in Nat
  BY LenProperties
<1> DEFINE U == {i \in 1..Len(ls) : ls[i].kind # "blank"}
<1>2. U \subseteq Nat /\ U # {}
  BY <1>1
<1>3. PICK i \in U : \A j \in U : ~(<<j, i>> \in OpToRel(<, Nat))
  <2> HIDE DEF U
  <2> QED BY <1>2, NatLessThanWellFounded, WFMin
<1>4. \A j \in U : ~(j < i)
  BY <1>2, <1>3 DEF OpToRel
<1>5. \A j \in 1..(i - 1) : ls[j].kind = "blank"
  BY <1>1, <1>4
<1> QED BY <1>1, <1>5

\* What is taken off a text are the blank lines at its head.
LEMMA TrimmedFacts ==
  ASSUME NEW ls \in Seq(TextLine)
  PROVE  /\ Trimmed(ls) \in Seq(TextLine)
         /\ Trimmed(ls) # << >> => Trimmed(ls)[1].kind # "blank"
<1>1. CASE \A i \in DOMAIN ls : ls[i].kind = "blank"
  BY <1>1, EmptySeq DEF Trimmed
<1>2. CASE \E i \in DOMAIN ls : ls[i].kind # "blank"
  <2> DEFINE k == CHOOSE i \in DOMAIN ls : ls[i].kind # "blank" /\ \A j \in 1..(i - 1) : ls[j].kind = "blank"
  <2>1. k \in DOMAIN ls /\ ls[k].kind # "blank"
    BY <1>2, FirstLine
  <2>2. Trimmed(ls) = SubSeq(ls, k, Len(ls))
    BY <1>2 DEF Trimmed
  <2> HIDE DEF k
  <2>3. Len(ls) \in Nat /\ k \in 1..Len(ls) /\ \A i \in k..Len(ls) : ls[i] \in TextLine
    BY <2>1, LenProperties, ElementOfSeq
  <2>4. /\ SubSeq(ls, k, Len(ls)) \in Seq(TextLine)
        /\ \A i \in 1..(Len(ls) - k + 1) : SubSeq(ls, k, Len(ls))[i] = ls[k + i - 1]
    BY <2>3, SubSeqProperties
  <2>5. 1 \in 1..(Len(ls) - k + 1) /\ k + 1 - 1 = k
    BY <2>3
  <2> QED BY <2>1, <2>2, <2>4, <2>5
<1> QED BY <1>1, <1>2

\* A text that begins with something stays as it is.
LEMMA TrimmedStays ==
  ASSUME NEW ls \in Seq(TextLine), ls # << >> => ls[1].kind # "blank"
  PROVE  Trimmed(ls) = ls
<1>1. DOMAIN ls = 1..Len(ls) /\ Len(ls) \in Nat /\ (ls # << >> => Len(ls) # 0)
  BY LenProperties, EmptySeq
<1>2. CASE ls = << >>
  BY <1>2, <1>1, EmptySeq DEF Trimmed
<1>3. CASE ls # << >>
  <2> DEFINE First(i) == i \in DOMAIN ls /\ ls[i].kind # "blank" /\ \A j \in 1..(i - 1) : ls[j].kind = "blank"
  <2> DEFINE k == CHOOSE i \in DOMAIN ls : ls[i].kind # "blank" /\ \A j \in 1..(i - 1) : ls[j].kind = "blank"
  <2>1. First(1)
    BY <1>1, <1>3
  <2>2. k \in DOMAIN ls /\ ls[k].kind # "blank" /\ \A j \in 1..(k - 1) : ls[j].kind = "blank"
    BY <2>1
  <2>3. Trimmed(ls) = SubSeq(ls, k, Len(ls))
    BY <2>1 DEF Trimmed
  <2> HIDE DEF k
  <2>4. k = 1
    BY <1>1, <1>3, <2>2
  <2> QED BY <2>3, <2>4, SubSeqFull
<1> QED BY <1>2, <1>3

\* Taken off once, they are off.
LEMMA TrimmedTwice ==
  ASSUME NEW ls \in Seq(TextLine)
  PROVE  Trimmed(Trimmed(ls)) = Trimmed(ls)
BY TrimmedFacts, TrimmedStays

-----------------------------------------------------------------------------

Descriptions == [head : Words, more : Seq(TextLine)]

\* A description is a word and more lines, a text is lines.
IsView(v) ==
  /\ v = View(v.desc, v.text) /\ v.desc \in Descriptions
  /\ v.text \in Seq(TextLine) /\ Trimmed(v.text) = v.text

\* The parts of a description.
LEMMA DescTyped ==
  /\ \A w \in Words, m \in Seq(TextLine) :
       Desc(w, m) \in Descriptions /\ Desc(w, m).head = w /\ Desc(w, m).more = m
  /\ \A d \in Descriptions : d = Desc(d.head, d.more) /\ d.head \in Words /\ d.more \in Seq(TextLine)
  /\ NoDesc \in Descriptions /\ NoDesc.head = "" /\ NoDesc.more = << >>
<1>1. \A w \in Words, m \in Seq(TextLine) :
        Desc(w, m) \in Descriptions /\ Desc(w, m).head = w /\ Desc(w, m).more = m
  BY DEF Desc, Descriptions
<1>2. \A d \in Descriptions : d = Desc(d.head, d.more) /\ d.head \in Words /\ d.more \in Seq(TextLine)
  BY DEF Desc, Descriptions
<1>3. "" \in Words /\ << >> \in Seq(TextLine)
  BY TextsAssumption, EmptySeq
<1> QED BY <1>1, <1>2, <1>3 DEF NoDesc

\* The head of a text that begins with a description, and the rest.
LEMMA HeadOf ==
  ASSUME NEW ls \in Seq(TextLine)
  PROVE  Described(ls) => Head(ls) \in TextLine /\ Tail(ls) \in Seq(TextLine)
BY HeadTailProperties DEF Described

\* What is shown, put together.
LEMMA ViewTyped ==
  ASSUME NEW d \in Descriptions, NEW t \in Seq(TextLine), Trimmed(t) = t
  PROVE  IsView(View(d, t)) /\ View(d, t).desc = d /\ View(d, t).text = t
BY DEF View, IsView

\* What a file shows.
LEMMA SplitTyped ==
  ASSUME NEW ls \in Seq(TextLine)
  PROVE  IsView(SplitDesc(ls))
<1>1. CASE Described(ls)
  <2>1. Head(ls).of \in Words /\ Tail(ls) \in Seq(TextLine)
    BY <1>1, HeadOf DEF TextLine
  <2> DEFINE d == Desc(TrimSpace[Head(ls).of], << >>)
  <2>2. SplitDesc(ls) = View(d, Trimmed(Tail(ls)))
    BY <1>1 DEF SplitDesc
  <2>3. Trimmed(Tail(ls)) \in Seq(TextLine) /\ Trimmed(Trimmed(Tail(ls))) = Trimmed(Tail(ls))
    BY <2>1, TrimmedFacts, TrimmedTwice
  <2>4. d \in Descriptions
    <3>1. TrimSpace[Head(ls).of] \in Words /\ << >> \in Seq(TextLine)
      BY <2>1, TextsAssumption, EmptySeq
    <3> QED BY <3>1, DescTyped
  <2> HIDE DEF d
  <2>5. IsView(View(d, Trimmed(Tail(ls))))
    BY <2>3, <2>4, ViewTyped
  <2> QED BY <2>2, <2>5
<1>2. CASE ~Described(ls)
  <2>1. SplitDesc(ls) = View(NoDesc, Trimmed(ls))
    BY <1>2 DEF SplitDesc
  <2>2. Trimmed(ls) \in Seq(TextLine) /\ Trimmed(Trimmed(ls)) = Trimmed(ls)
    BY TrimmedFacts, TrimmedTwice
  <2>3. IsView(View(NoDesc, Trimmed(ls)))
    BY <2>2, DescTyped, ViewTyped
  <2> QED BY <2>1, <2>3
<1> QED BY <1>1, <1>2

\* What a save takes for its description and its text.
LEMMA AcceptedTyped ==
  ASSUME NEW d \in Descriptions, NEW ls \in Seq(TextLine)
  PROVE  IsView(Accepted(d, ls))
<1> DEFINE s == SplitDesc(ls)
           e == IF d = NoDesc THEN s.desc ELSE d
<1>1. IsView(s)
  BY SplitTyped
<1>2. Accepted(d, ls) = View(e, s.text)
  BY DEF Accepted
<1> HIDE DEF s
<1>3. e \in Descriptions
  BY <1>1 DEF IsView
<1>4. s.text \in Seq(TextLine) /\ Trimmed(s.text) = s.text
  BY <1>1 DEF IsView
<1> HIDE DEF e
<1>5. IsView(View(e, s.text))
  BY <1>3, <1>4, ViewTyped
<1> QED BY <1>2, <1>5

\* A description before a text.
LEMMA LineBefore ==
  ASSUME NEW d \in Words, NEW t \in Seq(TextLine)
  PROVE  LET ls == <<DescLine(d)>> \o t IN
         /\ ls \in Seq(TextLine) /\ ls # << >> /\ Head(ls) = DescLine(d) /\ Tail(ls) = t
         /\ Len(ls) = Len(t) + 1 /\ ls[1] = DescLine(d) /\ \A i \in 1..Len(t) : ls[i + 1] = t[i]
<1> DEFINE one == <<DescLine(d)>>
           ls == one \o t
<1>1. DescLine(d) \in TextLine
  BY DEF DescLine, Line, TextLine
<1>2. one \in Seq(TextLine) /\ Len(one) = 1 /\ one[1] = DescLine(d)
  <2>1. one = Append(<< >>, DescLine(d))
    OBVIOUS
  <2>2. << >> \in Seq(TextLine) /\ Len(<< >>) = 0
    BY EmptySeq
  <2>3. \A x \in TextLine : /\ Append(<< >>, x) \in Seq(TextLine)
                            /\ Len(Append(<< >>, x)) = Len(<< >>) + 1
                            /\ Append(<< >>, x)[Len(<< >>) + 1] = x
    BY <2>2, AppendProperties
  <2>4. \A x \in TextLine : /\ Append(<< >>, x) \in Seq(TextLine)
                            /\ Len(Append(<< >>, x)) = 1 /\ Append(<< >>, x)[1] = x
    BY <2>2, <2>3
  <2> HIDE DEF one
  <2> QED BY <1>1, <2>1, <2>4
<1> HIDE DEF one
<1>3. Len(t) \in Nat
  BY LenProperties
<1>4. /\ ls \in Seq(TextLine) /\ Len(ls) = 1 + Len(t)
      /\ \A i \in 1..(1 + Len(t)) : ls[i] = IF i <= 1 THEN one[i] ELSE t[i - 1]
  <2>1. /\ one \o t \in Seq(TextLine) /\ Len(one \o t) = Len(one) + Len(t)
        /\ \A i \in 1..(Len(one) + Len(t)) : (one \o t)[i] = IF i <= Len(one) THEN one[i] ELSE t[i - Len(one)]
    BY <1>2, ConcatProperties
  <2> QED BY <1>2, <2>1
<1> HIDE DEF ls
<1>5. ls[1] = DescLine(d)
  <2>1. 1 \in 1..(1 + Len(t)) /\ 1 <= 1
    BY <1>3
  <2>2. ls[1] = one[1]
    BY <1>4, <2>1
  <2> QED BY <1>2, <2>2
<1>6. \A i \in 1..Len(t) : ls[i + 1] = t[i]
  <2> SUFFICES ASSUME NEW i \in 1..Len(t) PROVE ls[i + 1] = t[i]
    OBVIOUS
  <2>1. i + 1 \in 1..(1 + Len(t)) /\ ~(i + 1 <= 1) /\ (i + 1) - 1 = i
    BY <1>3
  <2> QED BY <1>4, <2>1
<1>7. ls # << >>
  <2>1. Len(<< >>) = 0 /\ Len(ls) # 0
    BY <1>3, <1>4, EmptySeq
  <2> QED BY <2>1
<1>8. /\ Tail(ls) \in Seq(TextLine) /\ Len(Tail(ls)) = Len(ls) - 1
      /\ \A i \in 1..Len(Tail(ls)) : Tail(ls)[i] = ls[i + 1]
  BY <1>4, <1>7, HeadTailProperties
<1>9. Tail(ls) = t
  BY <1>3, <1>4, <1>6, <1>8, SeqEqual
<1>10. Head(ls) = ls[1]
  BY <1>4, <1>7
<1>11. /\ ls \in Seq(TextLine) /\ ls # << >> /\ Head(ls) = DescLine(d) /\ Tail(ls) = t
       /\ Len(ls) = Len(t) + 1 /\ ls[1] = DescLine(d) /\ \A i \in 1..Len(t) : ls[i + 1] = t[i]
  <2>1. Len(ls) = Len(t) + 1
    BY <1>3, <1>4
  <2>2. Head(ls) = DescLine(d)
    BY <1>5, <1>10
  <2> QED BY <1>4, <1>5, <1>6, <1>7, <1>9, <2>1, <2>2
<1> QED BY <1>11 DEF ls, one

\* A description before a text is no harm to it.
LEMMA TextAfter ==
  ASSUME NEW j \in Seq(TextLine), NEW t \in Seq(TextLine), j[1].kind = "desc",
         Len(j) = Len(t) + 1, \A i \in 1..Len(t) : j[i + 1] = t[i], HasText(t)
  PROVE  HasText(j)
<1>1. DOMAIN j = 1..(Len(t) + 1) /\ DOMAIN t = 1..Len(t) /\ Len(t) \in Nat
  BY LenProperties
<1>2. 1 \in DOMAIN j /\ j[1].kind # "blank" /\ j[1].kind # "wrong"
  BY <1>1
<1>3. ASSUME NEW i \in DOMAIN j, i # 1 PROVE j[i].kind # "wrong"
  <2>1. i - 1 \in 1..Len(t) /\ (i - 1) + 1 = i
    BY <1>1, <1>3
  <2>2. j[i] = t[i - 1] /\ i - 1 \in DOMAIN t
    BY <1>1, <2>1
  <2> QED BY <2>2 DEF HasText
<1> QED BY <1>2, <1>3 DEF HasText

\* What a save writes shows what it announces, and has a text if the description has
\* no further lines.
LEMMA JoinedShows ==
  ASSUME NEW d \in Descriptions, NEW ls \in Seq(TextLine)
  PROVE  LET v == Accepted(d, ls) IN
         /\ Joined(d, ls) \in Seq(TextLine)
         /\ Shows(Joined(d, ls), v)
         /\ Probe(v) /\ v.desc.more = << >> => HasText(Joined(d, ls))
<1> DEFINE v == Accepted(d, ls)
<1>1. IsView(v)
  BY AcceptedTyped
<1>2. Joined(d, ls) =
        IF v.desc = NoDesc THEN v.text ELSE <<DescLine(v.desc.head)>> \o (v.desc.more \o v.text)
  BY DEF Joined
<1> HIDE DEF v
<1>3. CASE v.desc = NoDesc
  <2>1. Joined(d, ls) = v.text
    BY <1>2, <1>3
  <2>2. Shows(v.text, v)
    BY <1>1, <1>3 DEF Shows, Mistaken, SplitDesc, IsView
  <2> QED BY <1>1, <2>1, <2>2 DEF IsView, Probe, HasText, v
<1>4. CASE v.desc # NoDesc
  <2> DEFINE w == v.desc.head
             t == v.desc.more \o v.text
             j == <<DescLine(w)>> \o t
  <2>1. Joined(d, ls) = j
    BY <1>2, <1>4
  <2>2. /\ v.desc \in Descriptions /\ v.text \in Seq(TextLine) /\ w \in Words
        /\ v.desc.more \in Seq(TextLine) /\ v.desc = Desc(w, v.desc.more)
    BY <1>1, DescTyped DEF IsView
  <2>3. t \in Seq(TextLine)
    BY <2>2, ConcatProperties
  <2>4. v.desc.more = << >> => t = v.text
    BY <2>2, ConcatEmptySeq
  <2> HIDE DEF t, w
  <2>5. /\ j \in Seq(TextLine) /\ j # << >> /\ Head(j) = DescLine(w) /\ Tail(j) = t
        /\ Len(j) = Len(t) + 1 /\ j[1] = DescLine(w) /\ \A i \in 1..Len(t) : j[i + 1] = t[i]
    BY <2>2, <2>3, LineBefore
  <2> HIDE DEF j
  <2>6. DescLine(w).kind = "desc" /\ DescLine(w).of = w
    BY DEF DescLine, Line
  <2>7. SplitDesc(j) = View(Desc(TrimSpace[w], << >>), Trimmed(t))
    BY <2>5, <2>6 DEF SplitDesc, Described
  <2>8. ASSUME Tidy(v.desc) PROVE SplitDesc(j) = v
    <3>1. v.desc.more = << >> /\ TrimSpace[w] = w
      BY <2>8 DEF Tidy, w
    <3>2. Trimmed(t) = v.text /\ Desc(TrimSpace[w], << >>) = v.desc
      BY <1>1, <2>2, <2>4, <3>1 DEF IsView
    <3> QED BY <1>1, <2>7, <3>2 DEF IsView
  <2>9. ASSUME Probe(v), v.desc.more = << >> PROVE HasText(j)
    <3>1. HasText(t)
      BY <2>4, <2>9 DEF Probe, HasText
    <3>2. j[1].kind = "desc"
      BY <2>5, <2>6
    <3> QED BY <2>3, <2>5, <3>1, <3>2, TextAfter
  <2> QED BY <2>1, <2>5, <2>8, <2>9 DEF Shows, v
<1> QED BY <1>3, <1>4

-----------------------------------------------------------------------------
(* Profiles: what holds of a request and of a profile.                        *)

IsOp(o) ==
  /\ o = Op(o.kind, o.name, o.new, o.lines, o.promise, o.whole)
  /\ o.kind = "copy" => o.new # o.name

\* What a request is about to write shows what it promises, and is some YAML if a save
\* has looked at it.
RequestFits(c) ==
  /\ IsOp(op[c])
  /\ at[c] # "idle" => op[c].name \in Names /\ op[c].new \in Names
  /\ at[c] = "read" => op[c].kind = "copy"
  /\ at[c] \in {"truncate", "write"} =>
       /\ op[c].lines \in Seq(TextLine) /\ Shows(op[c].lines, op[c].promise)
       /\ op[c].whole \in BOOLEAN /\ (op[c].whole => HasText(op[c].lines))

\* A profile that two were not writing at once has one writer at most, is empty and
\* promised to nobody then; any other shows what was promised of it.
ProfileFits(n) ==
  /\ dir[n].is \in {"missing", "text"} /\ dir[n].lines \in Seq(TextLine)
  /\ dir[n].is = "missing" <=> dir[n] = Missing
  /\ dir[n] # Missing => dir[n] = File(dir[n].lines)
  /\ BeingWritten(n) => dir[n] # Missing
  /\ n \notin mixed =>
     /\ told[n] # Nothing => dir[n] # Missing /\ Shows(dir[n].lines, told[n])
     /\ \A c \in Clients : WritesTo(c, n) =>
          /\ dir[n].lines = << >> /\ told[n] = Nothing
          /\ \A b \in Clients : WritesTo(b, n) => b = c
     /\ n \notin odd /\ dir[n] # Missing /\ ~BeingWritten(n) => HasText(dir[n].lines)

Requested == \A c \in Clients : RequestFits(c)
Profiled  == \A n \in Names : ProfileFits(n)

Standing == {"idle", "read", "truncate", "write", "lost"}

ProfilesTyped ==
  /\ DOMAIN dir = Names /\ DOMAIN told = Names
  /\ at \in [Clients -> Standing]
  /\ DOMAIN op = Clients /\ DOMAIN form = Pages
  /\ \A p \in Pages : form[p].desc \in Descriptions /\ form[p].text \in Seq(TextLine)
  /\ mixed \subseteq Names /\ odd \subseteq Names

\* The inductive invariant.
ProfilesIInv == ProfilesTyped /\ Requested /\ Profiled

\* What a step does not touch goes on fitting.
LEMMA RequestStays ==
  ASSUME NEW c \in Clients, RequestFits(c), at'[c] = at[c], op'[c] = op[c]
  PROVE  RequestFits(c)'
BY DEF RequestFits

\* So does a profile whose writers stay the same.
LEMMA ProfileStays ==
  ASSUME NEW n \in Names, ProfileFits(n), dir'[n] = dir[n], told'[n] = told[n],
         n \in mixed' <=> n \in mixed, n \in odd' <=> n \in odd,
         \A c \in Clients : WritesTo(c, n)' <=> WritesTo(c, n)
  PROVE  ProfileFits(n)'
<1>1. BeingWritten(n)' <=> BeingWritten(n)
  BY DEF BeingWritten
<1> QED BY <1>1 DEF ProfileFits

\* A request that has nothing in its hands.
LEMMA NoOpFits == IsOp(NoOp)
BY DEF NoOp, Op, IsOp

\* What a file is.
LEMMA FileFields ==
  /\ Missing.is = "missing" /\ Missing.lines = << >>
  /\ \A ls : File(ls).is = "text" /\ File(ls).lines = ls /\ File(ls) # Missing
BY DEF Missing, File

\* What is left of a failed write is lines.
LEMMA FragmentsTyped == Fragments \subseteq Seq(TextLine)
<1>1. "" \in Words
  BY TextsAssumption
<1>2. ASSUME NEW x \in TextLine PROVE <<x>> \in Seq(TextLine)
  OBVIOUS
<1>3. Line("rest", "") \in TextLine /\ Line("wrong", "") \in TextLine
  BY <1>1 DEF Line, TextLine
<1> QED BY <1>2, <1>3 DEF Fragments

-----------------------------------------------------------------------------
(* Profiles: the steps.                                                       *)

\* A step that only one request takes part in, and no profile.
LEMMA AskFits ==
  ASSUME ProfilesIInv, NEW c \in Clients, RequestFits(c)', UNCHANGED <<dir, told, mixed, odd>>,
         \A b \in Clients \ {c} : at'[b] = at[b] /\ op'[b] = op[b],
         at[c] # "write", at'[c] # "write"
  PROVE  Requested' /\ Profiled'
<1>1. Requested'
  BY RequestStays DEF ProfilesIInv, Requested
<1>2. \A n \in Names, b \in Clients : WritesTo(b, n)' <=> WritesTo(b, n)
  BY DEF WritesTo
<1>3. Profiled'
  BY <1>2, ProfileStays DEF ProfilesIInv, Profiled
<1> QED BY <1>1, <1>3

\* A save.
LEMMA SaveFits ==
  ASSUME ProfilesIInv, NEW c \in Clients, NEW n \in Names, NEW v,
         v.desc \in Descriptions, v.text \in Seq(TextLine), Save(c, n, v)
  PROVE  ProfilesIInv'
<1> DEFINE p == Accepted(v.desc, v.text)
           ls == Joined(v.desc, v.text)
           wh == p.desc.more = << >>
<1>1. ls \in Seq(TextLine) /\ Shows(ls, p) /\ (wh => HasText(ls)) /\ wh \in BOOLEAN
  BY JoinedShows DEF Save
<1>2. op' = [op EXCEPT ![c] = Op("save", n, n, ls, p, wh)]
  BY DEF Save
<1> HIDE DEF ls, p, wh
<1>3. at' = [at EXCEPT ![c] = "truncate"] /\ at[c] = "idle" /\ UNCHANGED <<dir, form, told, mixed, odd>>
  BY DEF Save, Idle
<1>4. at'[c] = "truncate" /\ op'[c] = Op("save", n, n, ls, p, wh)
  BY <1>2, <1>3 DEF ProfilesIInv, ProfilesTyped
<1>5. \A b \in Clients \ {c} : at'[b] = at[b] /\ op'[b] = op[b]
  BY <1>2, <1>3 DEF ProfilesIInv, ProfilesTyped
<1>6. /\ IsOp(op'[c]) /\ op'[c].name = n /\ op'[c].new = n /\ op'[c].lines = ls
      /\ op'[c].promise = p /\ op'[c].whole = wh
  <2> DEFINE w == op'[c]
  <2>1. w = Op("save", n, n, ls, p, wh)
    BY <1>4
  <2> HIDE DEF w
  <2>2. IsOp(w) /\ w.name = n /\ w.new = n /\ w.lines = ls /\ w.promise = p /\ w.whole = wh
    BY <2>1 DEF Op, IsOp
  <2> QED BY <2>2 DEF w
<1>7. RequestFits(c)'
  BY <1>1, <1>4, <1>6 DEF RequestFits
<1>8. Requested' /\ Profiled'
  BY <1>3, <1>4, <1>5, <1>7, AskFits
<1>9. ProfilesTyped'
  BY <1>2, <1>3 DEF ProfilesIInv, ProfilesTyped, Standing
<1> QED BY <1>8, <1>9 DEF ProfilesIInv

\* The editor.
LEMMA EditFits ==
  ASSUME ProfilesIInv, NEW p \in Pages, NEW n \in Names, Edit(p, n)
  PROVE  ProfilesIInv'
<1> DEFINE v == SplitDesc(dir[n].lines)
<1>1. IsView(v)
  BY SplitTyped DEF ProfilesIInv, Profiled, ProfileFits
<1>2. form' = [form EXCEPT ![p] = v] /\ UNCHANGED <<dir, at, op, told, mixed, odd>>
  BY DEF Edit
<1> HIDE DEF v
<1>3. form'[p] = v /\ (\A q \in Pages \ {p} : form'[q] = form[q]) /\ DOMAIN form' = Pages
  BY <1>2 DEF ProfilesIInv, ProfilesTyped
<1>4. \A q \in Pages : form'[q].desc \in Descriptions /\ form'[q].text \in Seq(TextLine)
  BY <1>1, <1>3 DEF ProfilesIInv, ProfilesTyped, IsView
<1>5. Requested'
  BY <1>2, RequestStays DEF ProfilesIInv, Requested
<1>6. \A m \in Names, b \in Clients : WritesTo(b, m)' <=> WritesTo(b, m)
  BY <1>2 DEF WritesTo
<1>7. Profiled'
  BY <1>2, <1>6, ProfileStays DEF ProfilesIInv, Profiled
<1>8. ProfilesTyped'
  BY <1>2, <1>3, <1>4 DEF ProfilesIInv, ProfilesTyped
<1> QED BY <1>5, <1>7, <1>8 DEF ProfilesIInv

\* A copy is asked for.
LEMMA CopyFits ==
  ASSUME ProfilesIInv, NEW c \in Clients, NEW n \in Names, NEW new \in Names, Copy(c, n, new)
  PROVE  ProfilesIInv'
<1>1. /\ op' = [op EXCEPT ![c] = Op("copy", n, new, <<>>, Nothing, TRUE)] /\ at' = [at EXCEPT ![c] = "read"]
      /\ at[c] = "idle" /\ new # n /\ UNCHANGED <<dir, form, told, mixed, odd>>
  BY DEF Copy, Idle
<1>2. at'[c] = "read" /\ op'[c] = Op("copy", n, new, <<>>, Nothing, TRUE)
  BY <1>1 DEF ProfilesIInv, ProfilesTyped
<1>3. \A b \in Clients \ {c} : at'[b] = at[b] /\ op'[b] = op[b]
  BY <1>1 DEF ProfilesIInv, ProfilesTyped
<1>4. IsOp(op'[c]) /\ op'[c].name = n /\ op'[c].new = new /\ op'[c].kind = "copy"
  <2> DEFINE w == op'[c]
  <2>1. w = Op("copy", n, new, <<>>, Nothing, TRUE) /\ new # n
    BY <1>1, <1>2
  <2> HIDE DEF w
  <2>2. IsOp(w) /\ w.name = n /\ w.new = new /\ w.kind = "copy"
    BY <2>1 DEF Op, IsOp
  <2> QED BY <2>2 DEF w
<1>5. RequestFits(c)'
  BY <1>2, <1>4 DEF RequestFits
<1>6. Requested' /\ Profiled'
  BY <1>1, <1>2, <1>3, <1>5, AskFits
<1>7. ProfilesTyped'
  BY <1>1 DEF ProfilesIInv, ProfilesTyped, Standing
<1> QED BY <1>6, <1>7 DEF ProfilesIInv

\* A request that is over has nothing in its hands.
LEMMA DoneFits ==
  ASSUME ProfilesIInv, NEW c \in Clients, Done(c)
  PROVE  /\ at'[c] = "idle" /\ RequestFits(c)'
         /\ \A b \in Clients \ {c} : at'[b] = at[b] /\ op'[b] = op[b]
         /\ at' \in [Clients -> Standing] /\ DOMAIN op' = Clients
<1>1. at' = [at EXCEPT ![c] = "idle"] /\ op' = [op EXCEPT ![c] = NoOp]
  BY DEF Done
<1>2. IsOp(NoOp)
  BY NoOpFits
<1>3. at \in [Clients -> Standing] /\ DOMAIN op = Clients
  BY DEF ProfilesIInv, ProfilesTyped
<1>4. at'[c] = "idle" /\ op'[c] = NoOp
  BY <1>1, <1>3
<1>5. RequestFits(c)'
  BY <1>2, <1>4 DEF RequestFits
<1>6. at' \in [Clients -> Standing]
  BY <1>1, <1>3 DEF Standing
<1> QED BY <1>1, <1>3, <1>4, <1>5, <1>6

\* It reads what it copies.
LEMMA ReadSourceFits ==
  ASSUME ProfilesIInv, NEW c \in Clients, ReadSource(c)
  PROVE  ProfilesIInv'
<1> DEFINE n == op[c].name
<1>1. at[c] = "read" /\ UNCHANGED <<dir, form, told, mixed, odd>>
  BY DEF ReadSource
<1>2. /\ RequestFits(c) /\ n \in Names /\ op[c].new \in Names /\ op[c].new # n
  BY <1>1 DEF ProfilesIInv, Requested, RequestFits, IsOp
<1>3. CASE dir[n] = Missing
  <2>1. Done(c)
    BY <1>1, <1>3 DEF ReadSource
  <2>2. /\ at'[c] = "idle" /\ RequestFits(c)'
        /\ \A b \in Clients \ {c} : at'[b] = at[b] /\ op'[b] = op[b]
        /\ at' \in [Clients -> Standing] /\ DOMAIN op' = Clients
    BY <2>1, DoneFits
  <2>3. Requested' /\ Profiled'
    BY <1>1, <2>2, AskFits
  <2>4. ProfilesTyped'
    BY <1>1, <2>2 DEF ProfilesIInv, ProfilesTyped
  <2> QED BY <2>3, <2>4 DEF ProfilesIInv
<1>4. CASE dir[n] # Missing
  <2> DEFINE ls == dir[n].lines
             v == SplitDesc(ls)
             wh == n \notin mixed \cup odd /\ ~BeingWritten(n)
  <2>1. at' = [at EXCEPT ![c] = "truncate"] /\ op' = [op EXCEPT ![c] = Op("copy", n, op[c].new, ls, v, wh)]
    BY <1>1, <1>4 DEF ReadSource
  <2>2. ProfileFits(n)
    BY <1>2 DEF ProfilesIInv, Profiled
  <2>3. ls \in Seq(TextLine) /\ Shows(ls, v) /\ wh \in BOOLEAN
    BY <2>2 DEF ProfileFits, Shows
  <2>4. wh => HasText(ls)
    BY <1>4, <2>2 DEF ProfileFits
  <2> HIDE DEF ls, v, wh
  <2>5. at'[c] = "truncate" /\ op'[c] = Op("copy", n, op[c].new, ls, v, wh)
    BY <2>1 DEF ProfilesIInv, ProfilesTyped
  <2>6. \A b \in Clients \ {c} : at'[b] = at[b] /\ op'[b] = op[b]
    BY <2>1 DEF ProfilesIInv, ProfilesTyped
  <2>7. /\ IsOp(op'[c]) /\ op'[c].name = n /\ op'[c].new = op[c].new /\ op'[c].lines = ls
        /\ op'[c].promise = v /\ op'[c].whole = wh
    <3> DEFINE w == op'[c]
               m == op[c].new
    <3>1. w = Op("copy", n, m, ls, v, wh) /\ m # n
      BY <1>2, <2>5
    <3> HIDE DEF w, m, n
    <3>2. IsOp(w) /\ w.name = n /\ w.new = m /\ w.lines = ls /\ w.promise = v /\ w.whole = wh
      BY <3>1 DEF Op, IsOp
    <3> QED BY <3>2 DEF w, m
  <2>8. RequestFits(c)'
    BY <1>2, <2>3, <2>4, <2>5, <2>7 DEF RequestFits
  <2>9. Requested' /\ Profiled'
    BY <1>1, <2>5, <2>6, <2>8, AskFits
  <2>10. ProfilesTyped'
    BY <1>1, <2>1 DEF ProfilesIInv, ProfilesTyped, Standing
  <2> QED BY <2>9, <2>10 DEF ProfilesIInv
<1> QED BY <1>3, <1>4

\* The file is opened, or not.
LEMMA TruncateFits ==
  ASSUME ProfilesIInv, NEW c \in Clients, Truncate(c)
  PROVE  ProfilesIInv'
<1>1. at[c] = "truncate" /\ RequestFits(c) /\ op[c].new \in Names /\ UNCHANGED <<form, odd>>
  BY DEF Truncate, ProfilesIInv, Requested, RequestFits
<1>2. CASE Done(c) /\ UNCHANGED <<dir, told, mixed>>
  <2>1. /\ at'[c] = "idle" /\ RequestFits(c)'
        /\ \A b \in Clients \ {c} : at'[b] = at[b] /\ op'[b] = op[b]
        /\ at' \in [Clients -> Standing] /\ DOMAIN op' = Clients
    BY <1>2, DoneFits
  <2>2. Requested' /\ Profiled'
    BY <1>1, <1>2, <2>1, AskFits
  <2>3. ProfilesTyped'
    BY <1>1, <1>2, <2>1 DEF ProfilesIInv, ProfilesTyped
  <2> QED BY <2>2, <2>3 DEF ProfilesIInv
<1>3. CASE ~(Done(c) /\ UNCHANGED <<dir, told, mixed>>)
  <2>0. PICK m \in Names : op[c].new = m
    BY <1>1
  <2>1. /\ dir' = [dir EXCEPT ![m] = File(<<>>)] /\ told' = [told EXCEPT ![m] = Nothing]
        /\ at' = [at EXCEPT ![c] = "write"] /\ op' = op
        /\ mixed' = IF Shared(c, m) THEN mixed \cup {m} ELSE mixed \ {m}
    BY <1>3, <2>0 DEF Truncate
  <2>2. at'[c] = "write" /\ \A b \in Clients \ {c} : at'[b] = at[b]
    BY <2>1 DEF ProfilesIInv, ProfilesTyped
  <2>3. dir'[m] = File(<<>>) /\ told'[m] = Nothing /\ \A n \in Names \ {m} : dir'[n] = dir[n] /\ told'[n] = told[n]
    BY <1>1, <2>1 DEF ProfilesIInv, ProfilesTyped
  <2>4. /\ \A n \in Names \ {m} : n \in mixed' <=> n \in mixed
        /\ m \notin mixed' => ~Shared(c, m)
        /\ mixed' \subseteq Names
    BY <2>1 DEF ProfilesIInv, ProfilesTyped
  <2>5. RequestFits(c)'
    BY <1>1, <2>1, <2>2 DEF RequestFits
  <2>6. Requested'
    BY <1>1, <2>1, <2>2, <2>5, RequestStays DEF ProfilesIInv, Requested
  <2>7. ASSUME NEW n \in Names, n # m PROVE ProfileFits(n)'
    <3>1. \A b \in Clients : WritesTo(b, n)' <=> WritesTo(b, n)
      BY <1>1, <2>0, <2>1, <2>2, <2>7 DEF WritesTo
    <3> QED BY <1>1, <2>3, <2>4, <2>7, <3>1, ProfileStays DEF ProfilesIInv, Profiled
  <2>8. ProfileFits(m)'
    <3>1. m \notin mixed' => \A b \in Clients : WritesTo(b, m)' => b = c
      BY <2>1, <2>2, <2>4 DEF Shared, WritesTo
    <3>2. BeingWritten(m)'
      BY <2>0, <2>1, <2>2 DEF WritesTo, BeingWritten
    <3>3. dir'[m].is = "text" /\ dir'[m].lines = << >> /\ dir'[m] # Missing /\ << >> \in Seq(TextLine)
      BY <2>3, FileFields, EmptySeq
    <3> QED BY <2>3, <3>1, <3>2, <3>3 DEF ProfileFits
  <2>9. ProfilesTyped'
    BY <1>1, <2>1, <2>4 DEF ProfilesIInv, ProfilesTyped, Standing
  <2> QED BY <2>6, <2>7, <2>8, <2>9 DEF ProfilesIInv, Profiled
<1> QED BY <1>2, <1>3

\* The text is written.
LEMMA WriteFits ==
  ASSUME ProfilesIInv, NEW c \in Clients, Write(c)
  PROVE  ProfilesIInv'
<1>0. at[c] = "write" /\ RequestFits(c)
  BY DEF Write, ProfilesIInv, Requested
<1>a. PICK m \in Names : op[c].new = m
  BY <1>0 DEF RequestFits
<1> DEFINE ls == op[c].lines
           wh == op[c].whole
           pr == op[c].promise
<1>1. /\ UNCHANGED <<form, mixed>> /\ Done(c) /\ told' = [told EXCEPT ![m] = pr]
      /\ odd' = IF wh THEN odd \ {m} ELSE odd \cup {m}
  BY <1>0, <1>a DEF Write
<1>2. ls \in Seq(TextLine) /\ Shows(ls, pr) /\ (wh => HasText(ls)) /\ wh \in BOOLEAN
  BY <1>0 DEF RequestFits
<1>3. ProfileFits(m) /\ WritesTo(c, m)
  BY <1>0, <1>a DEF ProfilesIInv, Profiled, WritesTo
<1>4. PICK f : /\ f \in {ls} \cup (IF dir[m].lines = << >> THEN {} ELSE Fragments)
               /\ dir' = [dir EXCEPT ![m] = File(f)]
  BY <1>a DEF Write
<1> HIDE DEF ls, wh, pr
<1>5. f \in Seq(TextLine) /\ (dir[m].lines = << >> => f = ls)
  BY <1>2, <1>4, FragmentsTyped
<1>6. /\ dir'[m] = File(f) /\ told'[m] = pr
      /\ \A n \in Names \ {m} : dir'[n] = dir[n] /\ told'[n] = told[n]
  BY <1>1, <1>4 DEF ProfilesIInv, ProfilesTyped
<1>7. /\ (wh => m \notin odd') /\ (~wh => m \in odd') /\ odd' \subseteq Names
      /\ \A n \in Names \ {m} : n \in odd' <=> n \in odd
  BY <1>1, <1>2 DEF ProfilesIInv, ProfilesTyped
<1>8. /\ at'[c] = "idle" /\ RequestFits(c)'
      /\ \A b \in Clients \ {c} : at'[b] = at[b] /\ op'[b] = op[b]
      /\ at' \in [Clients -> Standing] /\ DOMAIN op' = Clients
  BY <1>1, DoneFits
<1>9. Requested'
  BY <1>8, RequestStays DEF ProfilesIInv, Requested
<1>10. ASSUME NEW n \in Names, n # m PROVE ProfileFits(n)'
  <2>1. \A b \in Clients : WritesTo(b, n)' <=> WritesTo(b, n)
    BY <1>0, <1>a, <1>8, <1>10 DEF WritesTo
  <2> QED BY <1>1, <1>6, <1>7, <1>10, <2>1, ProfileStays DEF ProfilesIInv, Profiled
<1>11. ProfileFits(m)'
  <2>1. dir'[m].is = "text" /\ dir'[m].lines = f /\ dir'[m] # Missing /\ dir'[m] = File(f)
    BY <1>6, FileFields
  <2>2. ASSUME m \notin mixed' PROVE f = ls /\ \A b \in Clients : ~WritesTo(b, m)'
    <3>1. dir[m].lines = << >> /\ \A b \in Clients : WritesTo(b, m) => b = c
      BY <1>1, <1>3, <2>2 DEF ProfileFits
    <3>2. \A b \in Clients : ~WritesTo(b, m)'
      BY <1>8, <3>1 DEF WritesTo
    <3> QED BY <1>5, <3>1, <3>2
  <2>3. /\ dir'[m].is \in {"missing", "text"} /\ dir'[m].lines \in Seq(TextLine)
        /\ dir'[m].is = "missing" <=> dir'[m] = Missing
        /\ dir'[m] # Missing => dir'[m] = File(dir'[m].lines)
    BY <1>5, <2>1
  <2>4. ASSUME m \notin mixed' PROVE Shows(dir'[m].lines, told'[m])
    BY <1>2, <1>6, <2>1, <2>2, <2>4
  <2>5. ASSUME m \notin mixed', m \notin odd' PROVE HasText(dir'[m].lines)
    BY <1>2, <1>7, <2>1, <2>2, <2>5
  <2> QED BY <2>1, <2>2, <2>3, <2>4, <2>5 DEF ProfileFits
<1>12. ProfilesTyped'
  BY <1>1, <1>4, <1>7, <1>8 DEF ProfilesIInv, ProfilesTyped
<1> QED BY <1>9, <1>10, <1>11, <1>12 DEF ProfilesIInv, Profiled

\* Or it is not.
LEMMA WriteFailsFits ==
  ASSUME ProfilesIInv, NEW c \in Clients, WriteFails(c)
  PROVE  ProfilesIInv'
<1>0. at[c] = "write" /\ RequestFits(c)
  BY DEF WriteFails, ProfilesIInv, Requested
<1>a. PICK m \in Names : op[c].new = m
  BY <1>0 DEF RequestFits
<1>1. UNCHANGED <<form, told, mixed>> /\ Done(c) /\ odd' = odd \cup {m}
  BY <1>0, <1>a DEF WriteFails
<1>2. ProfileFits(m) /\ WritesTo(c, m) /\ BeingWritten(m)
  BY <1>0, <1>a DEF ProfilesIInv, Profiled, WritesTo, BeingWritten
<1>3. PICK f : f \in {dir[m].lines} \cup Fragments /\ dir' = [dir EXCEPT ![m] = File(f)]
  BY <1>a DEF WriteFails
<1>4. f \in Seq(TextLine)
  BY <1>2, <1>3, FragmentsTyped DEF ProfileFits
<1>5. dir'[m] = File(f) /\ \A n \in Names \ {m} : dir'[n] = dir[n]
  BY <1>3 DEF ProfilesIInv, ProfilesTyped
<1>6. /\ at'[c] = "idle" /\ RequestFits(c)'
      /\ \A b \in Clients \ {c} : at'[b] = at[b] /\ op'[b] = op[b]
      /\ at' \in [Clients -> Standing] /\ DOMAIN op' = Clients
  BY <1>1, DoneFits
<1>7. Requested'
  BY <1>6, RequestStays DEF ProfilesIInv, Requested
<1>8. ASSUME NEW n \in Names, n # m PROVE ProfileFits(n)'
  <2>1. \A b \in Clients : WritesTo(b, n)' <=> WritesTo(b, n)
    BY <1>0, <1>a, <1>6, <1>8 DEF WritesTo
  <2> QED BY <1>1, <1>5, <1>8, <2>1, ProfileStays DEF ProfilesIInv, Profiled
<1>9. ProfileFits(m)'
  <2>1. dir'[m].is = "text" /\ dir'[m].lines = f /\ dir'[m] # Missing /\ dir'[m] = File(f)
    BY <1>5, FileFields
  <2>2. m \in odd' /\ told'[m] = told[m]
    BY <1>1
  <2>3. ASSUME m \notin mixed' PROVE told'[m] = Nothing /\ \A b \in Clients : ~WritesTo(b, m)'
    <3>1. told[m] = Nothing /\ \A b \in Clients : WritesTo(b, m) => b = c
      BY <1>1, <1>2, <2>3 DEF ProfileFits
    <3>2. \A b \in Clients : ~WritesTo(b, m)'
      BY <1>6, <3>1 DEF WritesTo
    <3> QED BY <2>2, <3>1, <3>2
  <2> QED BY <1>4, <2>1, <2>2, <2>3 DEF ProfileFits
<1>10. ProfilesTyped'
  BY <1>1, <1>3, <1>6 DEF ProfilesIInv, ProfilesTyped
<1> QED BY <1>7, <1>8, <1>9, <1>10 DEF ProfilesIInv, Profiled

\* A removal.
LEMMA DeleteFits ==
  ASSUME ProfilesIInv, NEW c \in Clients, NEW m \in Names, Delete(c, m)
  PROVE  ProfilesIInv'
<1>1. /\ dir' = [dir EXCEPT ![m] = Missing] /\ told' = [told EXCEPT ![m] = Nothing]
      /\ at' = [b \in Clients |-> IF WritesTo(b, m) THEN "lost" ELSE at[b]]
      /\ mixed' = mixed \ {m} /\ odd' = odd \ {m} /\ UNCHANGED <<op, form>>
  BY DEF Delete
<1>2. dir'[m] = Missing /\ told'[m] = Nothing /\ \A n \in Names \ {m} : dir'[n] = dir[n] /\ told'[n] = told[n]
  BY <1>1 DEF ProfilesIInv, ProfilesTyped
<1>3. ASSUME NEW b \in Clients
      PROVE  RequestFits(b)' /\ \A n \in Names : WritesTo(b, n)' <=> WritesTo(b, n) /\ n # m
  <2>1. RequestFits(b) /\ op'[b] = op[b]
    BY <1>1 DEF ProfilesIInv, Requested
  <2>2. CASE WritesTo(b, m)
    <3>1. at'[b] = "lost" /\ at[b] = "write" /\ op[b].new = m
      BY <1>1, <2>2 DEF WritesTo
    <3> QED BY <2>1, <3>1 DEF RequestFits, WritesTo
  <2>3. CASE ~WritesTo(b, m)
    <3>1. at'[b] = at[b]
      BY <1>1, <2>3
    <3>2. RequestFits(b)'
      BY <2>1, <3>1, RequestStays
    <3> QED BY <2>1, <2>3, <3>1, <3>2 DEF WritesTo
  <2> QED BY <2>2, <2>3
<1>4. ASSUME NEW n \in Names, n # m PROVE ProfileFits(n)'
  <2>1. \A b \in Clients : WritesTo(b, n)' <=> WritesTo(b, n)
    BY <1>3, <1>4
  <2> QED BY <1>1, <1>2, <1>4, <2>1, ProfileStays DEF ProfilesIInv, Profiled
<1>5. ProfileFits(m)'
  <2>1. \A b \in Clients : ~WritesTo(b, m)'
    BY <1>3
  <2>2. ~BeingWritten(m)'
    BY <2>1 DEF BeingWritten
  <2> QED BY <1>2, <2>1, <2>2, FileFields, EmptySeq DEF ProfileFits
<1>6. ProfilesTyped'
  <2>1. at' \in [Clients -> Standing]
    BY <1>1 DEF ProfilesIInv, ProfilesTyped, Standing
  <2> QED BY <1>1, <2>1 DEF ProfilesIInv, ProfilesTyped
<1> QED BY <1>3, <1>4, <1>5, <1>6 DEF ProfilesIInv, Requested, Profiled

\* The end of a write into a file that has no name any more.
LEMMA WriteLostFits ==
  ASSUME ProfilesIInv, NEW c \in Clients, WriteLost(c)
  PROVE  ProfilesIInv'
<1>1. at[c] = "lost" /\ Done(c) /\ UNCHANGED <<dir, form, told, mixed, odd>>
  BY DEF WriteLost
<1>2. /\ at'[c] = "idle" /\ RequestFits(c)'
      /\ \A b \in Clients \ {c} : at'[b] = at[b] /\ op'[b] = op[b]
      /\ at' \in [Clients -> Standing] /\ DOMAIN op' = Clients
  BY <1>1, DoneFits
<1>3. Requested' /\ Profiled'
  BY <1>1, <1>2, AskFits
<1>4. ProfilesTyped'
  BY <1>1, <1>2 DEF ProfilesIInv, ProfilesTyped
<1> QED BY <1>3, <1>4 DEF ProfilesIInv

-----------------------------------------------------------------------------

\* The invariant holds at the beginning.
LEMMA ProfilesInitially ==
  ASSUME Init
  PROVE  ProfilesIInv
<1>1. /\ dir = [n \in Names |-> Missing] /\ told = [n \in Names |-> Nothing]
      /\ at = [c \in Clients |-> "idle"] /\ op = [c \in Clients |-> NoOp] /\ form = [p \in Pages |-> Nothing]
      /\ mixed = {} /\ odd = {}
  BY DEF Init
<1>2. ASSUME NEW c \in Clients PROVE RequestFits(c)
  <2>1. at[c] = "idle" /\ op[c] = NoOp
    BY <1>1
  <2>2. IsOp(NoOp)
    BY NoOpFits
  <2> QED BY <2>1, <2>2 DEF RequestFits
<1>3. ASSUME NEW n \in Names PROVE ProfileFits(n)
  <2>1. dir[n] = Missing /\ told[n] = Nothing /\ \A c \in Clients : ~WritesTo(c, n)
    BY <1>1 DEF WritesTo
  <2>2. ~BeingWritten(n)
    BY <2>1 DEF BeingWritten
  <2> QED BY <2>1, <2>2, FileFields, EmptySeq DEF ProfileFits
<1>4. \A p \in Pages : form[p].desc \in Descriptions /\ form[p].text \in Seq(TextLine)
  <2>1. Nothing.desc = NoDesc /\ Nothing.text = << >> /\ << >> \in Seq(TextLine)
    BY EmptySeq DEF Nothing, View
  <2> QED BY <1>1, <2>1, DescTyped
<1>5. ProfilesTyped
  BY <1>1, <1>4 DEF ProfilesTyped, Standing
<1> QED BY <1>2, <1>3, <1>5 DEF ProfilesIInv, Requested, Profiled

\* Every step keeps it.
LEMMA ProfilesStep ==
  ASSUME ProfilesIInv, Next
  PROVE  ProfilesIInv'
<1>1. CASE \E p \in Pages, n \in Names : Edit(p, n)
  BY <1>1, EditFits
<1>2. CASE \E c \in Clients : ClientNext(c)
  <2>1. PICK c \in Clients : ClientNext(c)
    BY <1>2
  <2>2. CASE \E n \in Names, v \in Sent : Save(c, n, v)
    <3>1. PICK n \in Names, v \in Sent : Save(c, n, v)
      BY <2>2
    <3>2. v.desc \in Descriptions /\ v.text \in Seq(TextLine)
      BY TextsAssumption DEF Descriptions
    <3> QED BY <3>1, <3>2, SaveFits
  <2>3. CASE \E n \in Names, p \in Pages : form[p] # Nothing /\ Save(c, n, form[p])
    <3>1. PICK n \in Names, p \in Pages : Save(c, n, form[p])
      BY <2>3
    <3>2. form[p].desc \in Descriptions /\ form[p].text \in Seq(TextLine)
      BY DEF ProfilesIInv, ProfilesTyped
    <3> QED BY <3>1, <3>2, SaveFits
  <2>4. CASE \E n \in Names : Delete(c, n)
    BY <2>4, DeleteFits
  <2>5. CASE \E n, new \in Names : Copy(c, n, new)
    BY <2>5, CopyFits
  <2>6. CASE ReadSource(c) \/ Truncate(c) \/ Write(c) \/ WriteFails(c) \/ WriteLost(c)
    BY <2>6, ReadSourceFits, TruncateFits, WriteFits, WriteFailsFits, WriteLostFits
  <2> QED BY <2>1, <2>2, <2>3, <2>4, <2>5, <2>6 DEF ClientNext
<1> QED BY <1>1, <1>2 DEF Next

\* It is enough.
LEMMA ProfilesImply ==
  ASSUME ProfilesIInv
  PROVE  ProfilesInv
<1>1. Requested /\ Profiled /\ ProfilesTyped
  BY DEF ProfilesIInv
<1>2. ProfilesTypeOK
  <2>1. at \in [Clients -> {"idle", "read", "truncate", "write", "lost"}]
    BY <1>1 DEF ProfilesTyped, Standing
  <2>2. \A c \in Clients : /\ at[c] = "read" => op[c].kind = "copy"
                           /\ op[c].kind = "copy" => op[c].new # op[c].name
    BY <1>1 DEF Requested, RequestFits, IsOp
  <2>3. \A c \in Clients : at[c] = "write" => dir[op[c].new] # Missing
    <3> SUFFICES ASSUME NEW c \in Clients, at[c] = "write" PROVE dir[op[c].new] # Missing
      OBVIOUS
    <3>1. PICK m \in Names : op[c].new = m
      BY <1>1 DEF Requested, RequestFits
    <3>2. BeingWritten(m)
      BY <3>1 DEF BeingWritten, WritesTo
    <3> QED BY <1>1, <3>1, <3>2 DEF Profiled, ProfileFits
  <2>4. \A n \in Names : dir[n].is \in {"missing", "text"}
    BY <1>1 DEF Profiled, ProfileFits
  <2> QED BY <1>1, <2>1, <2>2, <2>3, <2>4 DEF ProfilesTypeOK, ProfilesTyped
<1>3. SavedIsShown
  BY <1>1 DEF SavedIsShown, Profiled, ProfileFits
<1>4. EveryProfileHasText
  BY <1>1 DEF EveryProfileHasText, Profiled, ProfileFits
<1> QED BY <1>2, <1>3, <1>4 DEF ProfilesInv

\* The other areas leave it alone.
LEMMA ProfilesUnchanged ==
  ASSUME ProfilesIInv, UNCHANGED vars
  PROVE  ProfilesIInv'
<1>1. dir' = dir /\ at' = at /\ op' = op /\ form' = form /\ told' = told /\ mixed' = mixed /\ odd' = odd
  BY DEF vars
<1>2. \A n \in Names, c \in Clients : WritesTo(c, n)' <=> WritesTo(c, n)
  BY <1>1 DEF WritesTo
<1>3. Requested'
  BY <1>1, RequestStays DEF ProfilesIInv, Requested
<1>4. Profiled'
  BY <1>1, <1>2, ProfileStays DEF ProfilesIInv, Profiled
<1> QED BY <1>1, <1>3, <1>4 DEF ProfilesIInv, ProfilesTyped

\* A profile that was saved or copied shows what the answer promised, if its description
\* has one line without blanks around it, whatever others do or did to it, unless they
\* write it at once; and has its text, if no write failed (web.go:527, 533, 544, 598).
THEOREM ProfilesKeepPromises == DirectoriesSpec => []ProfilesInv
<1> DEFINE I == ProfilesIInv
<1>1. DirectoriesInit => I
  BY ProfilesInitially DEF DirectoriesInit
<1>2. I /\ [DirectoriesNext]_<<area, vars, managerVars, outputVars>> => I'
  BY ProfilesStep, ProfilesUnchanged DEF DirectoriesNext
<1>3. I => ProfilesInv
  BY ProfilesImply
<1> QED BY <1>1, <1>2, <1>3, PTL DEF DirectoriesSpec

-----------------------------------------------------------------------------
(* Artifacts: the sheet.                                                      *)

\* Induction over the numbers, of a set in place of a predicate.
LEMMA NatInd ==
  ASSUME NEW T, 0 \in T, \A n \in Nat : n \in T => n + 1 \in T
  PROVE  \A n \in Nat : n \in T
<1> SUFFICES ASSUME \E n \in Nat : n \notin T PROVE FALSE
  OBVIOUS
<1> DEFINE U == Nat \ T
<1>1. U \subseteq Nat /\ U # {}
  OBVIOUS
<1>2. PICK x \in U : \A y \in U : ~(<<y, x>> \in OpToRel(<, Nat))
  BY <1>1, NatLessThanWellFounded, WFMin
<1>3. \A y \in U : ~(y < x)
  BY <1>1, <1>2 DEF OpToRel
<1>4. x # 0
  OBVIOUS
<1>5. x - 1 \in Nat /\ x - 1 < x /\ (x - 1) + 1 = x
  BY <1>4
<1> QED BY <1>3, <1>5

\* The hosts and the steps of a run are lists.
LEMMA HostFacts ==
  ASSUME NEW r \in Runs
  PROVE  /\ Len(HostsOf[r]) \in Nat /\ DOMAIN HostsOf[r] = 1..Len(HostsOf[r])
         /\ \A h \in DOMAIN HostsOf[r] :
              /\ Len(Outputs!Steps(r, h)) \in Nat
              /\ DOMAIN Outputs!Steps(r, h) = 1..Len(Outputs!Steps(r, h))
              /\ Outputs!Steps(r, h) # << >> => Len(Outputs!Steps(r, h)) # 0
<1> DEFINE S == [name : Seq(STRING), command : BOOLEAN, ran : BOOLEAN]
           H == [name : Seq(STRING), ip : Seq(STRING), steps : Seq(S)]
<1>1. HostsOf[r] \in Seq(H)
  BY RunsAssumption
<1>2. ASSUME NEW h \in DOMAIN HostsOf[r] PROVE Outputs!Steps(r, h) \in Seq(S)
  <2> HIDE DEF S
  <2>1. h \in 1..Len(HostsOf[r])
    BY <1>1, LenProperties
  <2>2. HostsOf[r][h] \in H
    BY <1>1, <2>1, ElementOfSeq
  <2> QED BY <2>2 DEF Outputs!Steps
<1> HIDE DEF S, H
<1> QED BY <1>1, <1>2, LenProperties, EmptySeq

\* A sheet holds each row of S once, in their order, from the second row on.
IsSheet(w, S) ==
  /\ w = [next |-> w.next, cells |-> w.cells]
  /\ w.next \in Nat /\ w.next >= 2 /\ DOMAIN w.cells = 2..(w.next - 1)
  /\ {w.cells[n] : n \in DOMAIN w.cells} = S
  /\ \A m, n \in DOMAIN w.cells : m < n => Outputs!Before(w.cells[m], w.cells[n])

\* A row that comes after the others goes under them.
LEMMA AddKeeps ==
  ASSUME NEW w, NEW S, IsSheet(w, S), NEW x, \A y \in S : Outputs!Before(y, x)
  PROVE  IsSheet(Outputs!Add(w, x), S \cup {x})
<1> DEFINE k == w.next
           c == w.cells
           d == Outputs!Put(c, k, x)
           v == Outputs!Add(w, x)
<1>1. k \in Nat /\ k >= 2 /\ DOMAIN c = 2..(k - 1)
  BY DEF IsSheet
<1>2. v = [next |-> k + 1, cells |-> d]
  BY DEF Outputs!Add
<1>3. d = [n \in DOMAIN c \cup {k} |-> IF n = k THEN x ELSE c[n]]
  BY DEF Outputs!Put
<1>4. {c[n] : n \in DOMAIN c} = S /\ \A m, n \in DOMAIN c : m < n => Outputs!Before(c[m], c[n])
  BY DEF IsSheet
<1> HIDE DEF k, c, d, v
<1>5. DOMAIN c \cup {k} = 2..k
  BY <1>1
<1>6. DOMAIN d = 2..k /\ d[k] = x /\ \A n \in DOMAIN c : d[n] = c[n] /\ n < k
  BY <1>1, <1>3, <1>5
<1>7. v.next = k + 1 /\ v.cells = d /\ v = [next |-> v.next, cells |-> v.cells]
  BY <1>2
<1>8. k + 1 \in Nat /\ k + 1 >= 2 /\ (k + 1) - 1 = k
  BY <1>1
<1>9. {d[n] : n \in DOMAIN d} = S \cup {x}
  <2>1. \A n \in DOMAIN d : n = k \/ n \in DOMAIN c
    BY <1>1, <1>6
  <2>2. \A n \in DOMAIN c : n \in DOMAIN d
    BY <1>1, <1>6
  <2>3. k \in DOMAIN d
    BY <1>1, <1>6
  <2> QED BY <1>4, <1>6, <2>1, <2>2, <2>3
<1>10. ASSUME NEW m \in DOMAIN d, NEW n \in DOMAIN d, m < n PROVE Outputs!Before(d[m], d[n])
  <2>1. m \in DOMAIN c
    BY <1>1, <1>6, <1>10
  <2>2. CASE n = k
    BY <1>4, <1>6, <2>1, <2>2
  <2>3. CASE n # k
    <3>1. n \in DOMAIN c
      BY <1>1, <1>6, <2>3
    <3> QED BY <1>4, <1>6, <1>10, <2>1, <3>1
  <2> QED BY <2>2, <2>3
<1>11. IsSheet(v, S \cup {x})
  BY <1>6, <1>7, <1>8, <1>9, <1>10 DEF IsSheet
<1> QED BY <1>11 DEF v

\* The loop over the steps of a host, as far as m.
StepsUpto(f, r, h, w, m) ==
  f = [s \in 0..m |-> IF s = 0 THEN w
                      ELSE IF s \in Outputs!Results(r, h) THEN Outputs!Add(f[s - 1], <<h, s>>) ELSE f[s - 1]]

\* The steps of a host that have a result, as far as m.
Ran(r, h, m) == {<<h, s>> : s \in Outputs!Results(r, h) \cap 1..m}

\* Its values.
LEMMA StepsValue ==
  ASSUME NEW f, NEW r, NEW h, NEW w, NEW m \in Nat, StepsUpto(f, r, h, w, m)
  PROVE  /\ f[0] = w
         /\ \A s \in Nat : s < m =>
              f[s + 1] = IF s + 1 \in Outputs!Results(r, h) THEN Outputs!Add(f[s], <<h, s + 1>>) ELSE f[s]
<1>1. \A s \in 0..m : f[s] = IF s = 0 THEN w
                      ELSE IF s \in Outputs!Results(r, h) THEN Outputs!Add(f[s - 1], <<h, s>>) ELSE f[s - 1]
  BY DEF StepsUpto
<1>2. f[0] = w
  <2>1. 0 \in 0..m
    OBVIOUS
  <2> QED BY <1>1, <2>1
<1>3. ASSUME NEW s \in Nat, s < m
      PROVE  f[s + 1] = IF s + 1 \in Outputs!Results(r, h) THEN Outputs!Add(f[s], <<h, s + 1>>) ELSE f[s]
  <2>1. s + 1 \in 0..m /\ s + 1 # 0 /\ (s + 1) - 1 = s
    BY <1>3
  <2> QED BY <1>1, <2>1
<1> QED BY <1>2, <1>3

\* It exists, for any number of steps.
LEMMA StepsExist ==
  ASSUME NEW r, NEW h, NEW w
  PROVE  \A m \in Nat : \E f : StepsUpto(f, r, h, w, m)
<1> DEFINE T == {m \in Nat : \E f : StepsUpto(f, r, h, w, m)}
<1>1. 0 \in T
  <2>1. StepsUpto([s \in 0..0 |-> w], r, h, w, 0)
    BY DEF StepsUpto
  <2> QED BY <2>1
<1>2. ASSUME NEW m \in Nat, m \in T PROVE m + 1 \in T
  <2>1. PICK f : StepsUpto(f, r, h, w, m)
    BY <1>2
  <2> DEFINE last == IF m + 1 \in Outputs!Results(r, h) THEN Outputs!Add(f[m], <<h, m + 1>>) ELSE f[m]
             g == [s \in 0..(m + 1) |-> IF s = m + 1 THEN last ELSE f[s]]
  <2>2. \A s \in 0..m : f[s] = IF s = 0 THEN w
                      ELSE IF s \in Outputs!Results(r, h) THEN Outputs!Add(f[s - 1], <<h, s>>) ELSE f[s - 1]
    BY <2>1 DEF StepsUpto
  <2>3. \A s \in 0..(m + 1) : g[s] = IF s = 0 THEN w
                      ELSE IF s \in Outputs!Results(r, h) THEN Outputs!Add(g[s - 1], <<h, s>>) ELSE g[s - 1]
    BY <2>2
  <2>4. StepsUpto(g, r, h, w, m + 1)
    BY <2>3 DEF StepsUpto
  <2> QED BY <2>4
<1> HIDE DEF T
<1>3. \A m \in Nat : m \in T
  BY <1>1, <1>2, NatInd
<1> QED BY <1>3 DEF T

\* One step more.
LEMMA RanMore ==
  ASSUME NEW r, NEW h, NEW m \in Nat
  PROVE  Ran(r, h, m + 1) = IF m + 1 \in Outputs!Results(r, h) THEN Ran(r, h, m) \cup {<<h, m + 1>>} ELSE Ran(r, h, m)
<1>1. 1..(m + 1) = (1..m) \cup {m + 1}
  OBVIOUS
<1> QED BY <1>1 DEF Ran

\* It adds them to the sheet.
LEMMA StepsFill ==
  ASSUME NEW r, NEW h \in Nat, NEW w, NEW S, IsSheet(w, S), \A y \in S : y[1] < h,
         NEW n \in Nat, NEW f, StepsUpto(f, r, h, w, n)
  PROVE  IsSheet(f[n], S \cup Ran(r, h, n))
<1> DEFINE T == {m \in Nat : m <= n => IsSheet(f[m], S \cup Ran(r, h, m))}
<1>1. 0 \in T
  <2>1. S \cup Ran(r, h, 0) = S
    BY DEF Ran
  <2> QED BY <2>1, StepsValue
<1>2. ASSUME NEW m \in Nat, m \in T PROVE m + 1 \in T
  <2> SUFFICES ASSUME m + 1 <= n PROVE IsSheet(f[m + 1], S \cup Ran(r, h, m + 1))
    OBVIOUS
  <2> DEFINE R == Ran(r, h, m)
  <2>1. /\ IsSheet(f[m], S \cup R)
        /\ f[m + 1] = IF m + 1 \in Outputs!Results(r, h) THEN Outputs!Add(f[m], <<h, m + 1>>) ELSE f[m]
    BY <1>2, StepsValue
  <2>2. CASE m + 1 \in Outputs!Results(r, h)
    <3>1. ASSUME NEW y \in S \cup R PROVE Outputs!Before(y, <<h, m + 1>>)
      <4>1. CASE y \in S
        BY <4>1 DEF Outputs!Before
      <4>2. CASE y \in R
        <5>1. PICK s \in 1..m : y = <<h, s>>
          BY <4>2 DEF Ran
        <5> QED BY <5>1 DEF Outputs!Before
      <4> QED BY <3>1, <4>1, <4>2
    <3> HIDE DEF R
    <3>2. IsSheet(Outputs!Add(f[m], <<h, m + 1>>), (S \cup R) \cup {<<h, m + 1>>})
      BY <2>1, <3>1, AddKeeps
    <3>3. (S \cup R) \cup {<<h, m + 1>>} = S \cup Ran(r, h, m + 1)
      BY <2>2, RanMore DEF R
    <3>4. f[m + 1] = Outputs!Add(f[m], <<h, m + 1>>)
      BY <2>1, <2>2
    <3> QED BY <3>2, <3>3, <3>4
  <2>3. CASE m + 1 \notin Outputs!Results(r, h)
    <3>1. Ran(r, h, m + 1) = R
      BY <2>3, RanMore
    <3>2. f[m + 1] = f[m]
      BY <2>1, <2>3
    <3> QED BY <2>1, <3>1, <3>2
  <2> QED BY <2>2, <2>3
<1> HIDE DEF T
<1>3. n \in T
  BY <1>1, <1>2, NatInd
<1> QED BY <1>3 DEF T

\* The rows of the hosts up to the one at m.
MeantUpto(r, m) == {x \in Outputs!Meant(r) : x[1] <= m}

\* The rows of a host.
MeantOf(r, h) ==
  IF Outputs!Steps(r, h) = << >> THEN {<<h, 0>>} ELSE Ran(r, h, Len(Outputs!Steps(r, h)))

\* One host more.
LEMMA MeantHosts ==
  ASSUME NEW r \in Runs, NEW m \in Nat, m < Len(HostsOf[r])
  PROVE  /\ MeantUpto(r, m + 1) = MeantUpto(r, m) \cup MeantOf(r, m + 1)
         /\ \A y \in MeantUpto(r, m) : y[1] < m + 1
<1>1. m + 1 \in DOMAIN HostsOf[r] /\ DOMAIN HostsOf[r] \subseteq Nat
  BY HostFacts
<1> DEFINE Of(h) == IF Outputs!Steps(r, h) = << >> THEN {<<h, 0>>}
                    ELSE {<<h, s>> : s \in Outputs!Results(r, h)}
<1>2. Outputs!Meant(r) = UNION {Of(h) : h \in DOMAIN HostsOf[r]}
  BY DEF Outputs!Meant
<1>3. \A h \in DOMAIN HostsOf[r] : Of(h) = MeantOf(r, h) /\ \A x \in Of(h) : x[1] = h
  <2> SUFFICES ASSUME NEW h \in DOMAIN HostsOf[r] PROVE Of(h) = MeantOf(r, h) /\ \A x \in Of(h) : x[1] = h
    OBVIOUS
  <2>1. DOMAIN Outputs!Steps(r, h) = 1..Len(Outputs!Steps(r, h))
    BY HostFacts
  <2>2. Of(h) = MeantOf(r, h)
    BY <2>1 DEF MeantOf, Ran, Outputs!Results
  <2>3. \A x \in Of(h) : x[1] = h
    OBVIOUS
  <2> QED BY <2>2, <2>3
<1> HIDE DEF Of
<1>4. \A x : x \in Outputs!Meant(r) <=> \E h \in DOMAIN HostsOf[r] : x \in MeantOf(r, h)
  BY <1>2, <1>3
<1>5. \A h \in DOMAIN HostsOf[r] : \A x \in MeantOf(r, h) : x[1] = h
  BY <1>3
<1>6. \A x \in Outputs!Meant(r) : x[1] \in Nat
  BY <1>1, <1>4, <1>5
<1>7. ASSUME NEW x \in MeantUpto(r, m + 1) PROVE x \in MeantUpto(r, m) \cup MeantOf(r, m + 1)
  <2>1. x \in Outputs!Meant(r) /\ x[1] <= m + 1 /\ x[1] \in Nat
    BY <1>6 DEF MeantUpto
  <2>2. PICK h \in DOMAIN HostsOf[r] : x \in MeantOf(r, h)
    BY <1>4, <2>1
  <2>3. x[1] = h
    BY <1>5, <2>2
  <2>4. x[1] <= m \/ h = m + 1
    BY <2>1, <2>3
  <2> QED BY <2>1, <2>2, <2>4 DEF MeantUpto
<1>8. ASSUME NEW x \in MeantOf(r, m + 1) PROVE x \in MeantUpto(r, m + 1)
  <2>1. x \in Outputs!Meant(r) /\ x[1] = m + 1
    BY <1>1, <1>4, <1>5
  <2> QED BY <2>1 DEF MeantUpto
<1>9. MeantUpto(r, m) \subseteq MeantUpto(r, m + 1) /\ \A y \in MeantUpto(r, m) : y[1] < m + 1
  BY <1>6 DEF MeantUpto
<1> QED BY <1>7, <1>8, <1>9

\* A host is added to the sheet.
LEMMA HostFills ==
  ASSUME NEW r \in Runs, NEW h \in DOMAIN HostsOf[r], NEW w, NEW S, IsSheet(w, S), \A y \in S : y[1] < h
  PROVE  IsSheet(Outputs!WithHost(r, h, w), S \cup MeantOf(r, h))
<1>1. h \in Nat /\ Len(Outputs!Steps(r, h)) \in Nat
  BY HostFacts
<1>2. CASE Outputs!Steps(r, h) = << >>
  <2>1. Outputs!WithHost(r, h, w) = Outputs!Add(w, <<h, 0>>) /\ MeantOf(r, h) = {<<h, 0>>}
    BY <1>2 DEF Outputs!WithHost, MeantOf
  <2>2. \A y \in S : Outputs!Before(y, <<h, 0>>)
    BY DEF Outputs!Before
  <2>3. IsSheet(Outputs!Add(w, <<h, 0>>), S \cup {<<h, 0>>})
    BY <2>2, AddKeeps
  <2> QED BY <2>1, <2>3
<1>3. CASE Outputs!Steps(r, h) # << >>
  <2> DEFINE n == Len(Outputs!Steps(r, h))
             u == CHOOSE f : StepsUpto(f, r, h, w, n)
  <2>1. Outputs!WithHost(r, h, w) = u[n]
    BY <1>3 DEF Outputs!WithHost, Outputs!WithSteps, StepsUpto
  <2>2. MeantOf(r, h) = Ran(r, h, n)
    BY <1>3 DEF MeantOf
  <2>3. StepsUpto(u, r, h, w, n)
    BY <1>1, StepsExist
  <2> HIDE DEF u
  <2>4. IsSheet(u[n], S \cup Ran(r, h, n))
    BY <1>1, <2>3, StepsFill
  <2> QED BY <2>1, <2>2, <2>4
<1> QED BY <1>2, <1>3

\* The loop over the hosts.
HostsUpto(f, r, m) ==
  f = [h \in 0..m |-> IF h = 0 THEN [next |-> 2, cells |-> << >>] ELSE Outputs!WithHost(r, h, f[h - 1])]

\* Its values.
LEMMA HostsValue ==
  ASSUME NEW f, NEW r, NEW m \in Nat, HostsUpto(f, r, m)
  PROVE  /\ f[0] = [next |-> 2, cells |-> << >>]
         /\ \A h \in Nat : h < m => f[h + 1] = Outputs!WithHost(r, h + 1, f[h])
<1>1. \A h \in 0..m : f[h] = IF h = 0 THEN [next |-> 2, cells |-> << >>] ELSE Outputs!WithHost(r, h, f[h - 1])
  BY DEF HostsUpto
<1>2. f[0] = [next |-> 2, cells |-> << >>]
  BY <1>1
<1>3. ASSUME NEW h \in Nat, h < m PROVE f[h + 1] = Outputs!WithHost(r, h + 1, f[h])
  <2>1. h + 1 \in 0..m /\ h + 1 # 0 /\ (h + 1) - 1 = h
    BY <1>3
  <2> QED BY <1>1, <2>1
<1> QED BY <1>2, <1>3

\* It exists, for any number of hosts.
LEMMA HostsExist ==
  ASSUME NEW r
  PROVE  \A m \in Nat : \E f : HostsUpto(f, r, m)
<1> DEFINE T == {m \in Nat : \E f : HostsUpto(f, r, m)}
<1>1. 0 \in T
  <2>1. HostsUpto([h \in 0..0 |-> [next |-> 2, cells |-> << >>]], r, 0)
    BY DEF HostsUpto
  <2> QED BY <2>1
<1>2. ASSUME NEW m \in Nat, m \in T PROVE m + 1 \in T
  <2>1. PICK f : HostsUpto(f, r, m)
    BY <1>2
  <2> DEFINE g == [h \in 0..(m + 1) |-> IF h = m + 1 THEN Outputs!WithHost(r, m + 1, f[m]) ELSE f[h]]
  <2>2. \A h \in 0..m : f[h] = IF h = 0 THEN [next |-> 2, cells |-> << >>] ELSE Outputs!WithHost(r, h, f[h - 1])
    BY <2>1 DEF HostsUpto
  <2>3. \A h \in 0..(m + 1) : g[h] = IF h = 0 THEN [next |-> 2, cells |-> << >>] ELSE Outputs!WithHost(r, h, g[h - 1])
    BY <2>2
  <2>4. HostsUpto(g, r, m + 1)
    BY <2>3 DEF HostsUpto
  <2> QED BY <2>4
<1> HIDE DEF T
<1>3. \A m \in Nat : m \in T
  BY <1>1, <1>2, NatInd
<1> QED BY <1>3 DEF T

\* The workbook of a run has the rows that are meant.
LEMMA RowsAreMeant ==
  ASSUME NEW r \in Runs
  PROVE  IsSheet(Outputs!Rows(r), Outputs!Meant(r))
<1> DEFINE n == Len(HostsOf[r])
           u == CHOOSE f : HostsUpto(f, r, n)
<1>1. n \in Nat /\ DOMAIN HostsOf[r] = 1..n
  BY HostFacts
<1>2. Outputs!Rows(r) = u[n]
  BY DEF Outputs!Rows, HostsUpto
<1>3. HostsUpto(u, r, n)
  BY <1>1, HostsExist
<1> HIDE DEF u
<1> DEFINE T == {m \in Nat : m <= n => IsSheet(u[m], MeantUpto(r, m))}
<1>4. \A x \in Outputs!Meant(r) : x[1] \in 1..n
  <2> SUFFICES ASSUME NEW x \in Outputs!Meant(r) PROVE x[1] \in 1..n
    OBVIOUS
  <2>1. PICK h \in DOMAIN HostsOf[r] :
          x \in IF Outputs!Steps(r, h) = << >> THEN {<<h, 0>>}
                ELSE {<<h, s>> : s \in Outputs!Results(r, h)}
    BY DEF Outputs!Meant
  <2>2. x[1] = h
    BY <2>1
  <2> QED BY <1>1, <2>2
<1>5. 0 \in T
  <2>1. MeantUpto(r, 0) = {}
    BY <1>1, <1>4 DEF MeantUpto
  <2> DEFINE w == [next |-> 2, cells |-> << >>]
  <2>2. w.next = 2 /\ w.cells = << >> /\ w = [next |-> w.next, cells |-> w.cells]
    OBVIOUS
  <2>3. DOMAIN << >> = {} /\ 2..(2 - 1) = {}
    OBVIOUS
  <2>4. u[0] = w
    BY <1>1, <1>3, HostsValue
  <2> HIDE DEF w
  <2>5. IsSheet(w, {})
    BY <2>2, <2>3 DEF IsSheet
  <2> QED BY <2>1, <2>4, <2>5
<1>6. ASSUME NEW m \in Nat, m \in T PROVE m + 1 \in T
  <2> SUFFICES ASSUME m + 1 <= n PROVE IsSheet(u[m + 1], MeantUpto(r, m + 1))
    OBVIOUS
  <2>1. m < n /\ m + 1 \in DOMAIN HostsOf[r]
    BY <1>1
  <2>2. IsSheet(u[m], MeantUpto(r, m)) /\ u[m + 1] = Outputs!WithHost(r, m + 1, u[m])
    BY <1>1, <1>3, <1>6, <2>1, HostsValue
  <2>3. /\ MeantUpto(r, m + 1) = MeantUpto(r, m) \cup MeantOf(r, m + 1)
        /\ \A y \in MeantUpto(r, m) : y[1] < m + 1
    BY <2>1, MeantHosts
  <2> DEFINE k == m + 1
             M == MeantUpto(r, m)
             w == u[m]
  <2>4. k \in DOMAIN HostsOf[r] /\ IsSheet(w, M) /\ \A y \in M : y[1] < k
    BY <2>1, <2>2, <2>3
  <2> HIDE DEF k, M, w
  <2>5. IsSheet(Outputs!WithHost(r, k, w), M \cup MeantOf(r, k))
    BY <2>4, HostFills
  <2> QED BY <2>2, <2>3, <2>5 DEF k, M, w
<1> HIDE DEF T
<1>7. n \in T
  BY <1>1, <1>5, <1>6, NatInd
<1>8. MeantUpto(r, n) = Outputs!Meant(r)
  BY <1>1, <1>4 DEF MeantUpto
<1> QED BY <1>1, <1>2, <1>7, <1>8 DEF T

-----------------------------------------------------------------------------
(* Artifacts: the name of a workbook.                                         *)

\* Of so many names one more than there are workbooks, one is free.
LEMMA SomeFree ==
  ASSUME IsFiniteSet(DOMAIN books), NEW r
  PROVE  \E n \in 0..Cardinality(DOMAIN books) : Outputs!Path(r, n) \notin DOMAIN books
<1> DEFINE D == DOMAIN books
           c == Cardinality(D)
           f == [n \in 0..c |-> Outputs!Path(r, n)]
<1> SUFFICES ASSUME \A n \in 0..c : Outputs!Path(r, n) \in D PROVE FALSE
  OBVIOUS
<1>1. c \in Nat
  BY FS_CardinalityType
<1>2. IsFiniteSet(0..c) /\ Cardinality(0..c) = c + 1
  BY <1>1, FS_Interval
<1>3. f \in [0..c -> D]
  OBVIOUS
<1>4. \A m, n \in 0..c : f[m] = f[n] => m = n
  <2>1. \A n : Outputs!Path(r, n).number = n
    BY DEF Outputs!Path
  <2> QED BY <2>1
<1> HIDE DEF f, D
<1> HIDE DEF c
<1>5. Cardinality(D) < Cardinality(0..c)
  BY <1>1, <1>2 DEF c
<1>6. \E m, n \in 0..c : m # n /\ f[m] = f[n]
  BY <1>2, <1>3, <1>5, FS_PigeonHole DEF D
<1> QED BY <1>4, <1>6

\* The number of a workbook is the first that is free.
LEMMA FreeIsFree ==
  ASSUME IsFiniteSet(DOMAIN books), NEW r
  PROVE  Outputs!Path(r, Outputs!Free(r)) \notin DOMAIN books
<1> DEFINE c == Cardinality(DOMAIN books)
           U == {n \in 0..c : Outputs!Path(r, n) \notin DOMAIN books}
<1>1. c \in Nat
  BY FS_CardinalityType
<1>2. U \subseteq Nat /\ U # {}
  BY <1>1, SomeFree
<1>3. PICK n \in U : \A m \in U : ~(<<m, n>> \in OpToRel(<, Nat))
  <2> HIDE DEF U
  <2> QED BY <1>2, NatLessThanWellFounded, WFMin
<1>4. \A m \in U : ~(m < n)
  BY <1>2, <1>3 DEF OpToRel
<1>5. n \in 0..c /\ Outputs!Path(r, n) \notin DOMAIN books
  OBVIOUS
<1>6. \A m \in 0..(n - 1) : Outputs!Path(r, m) \in DOMAIN books
  BY <1>1, <1>4, <1>5
<1> HIDE DEF U
<1>7. \E k \in 0..c : Outputs!Path(r, k) \notin DOMAIN books /\ \A m \in 0..(k - 1) : Outputs!Path(r, m) \in DOMAIN books
  BY <1>5, <1>6
<1> DEFINE k0 == CHOOSE k \in 0..c : Outputs!Path(r, k) \notin DOMAIN books /\ \A m \in 0..(k - 1) : Outputs!Path(r, m) \in DOMAIN books
<1>8. Outputs!Free(r) = k0
  <2>1. Outputs!Cardinality(DOMAIN books) = c
    BY DEF Outputs!Cardinality, Cardinality
  <2> HIDE DEF c
  <2> QED BY <2>1 DEF Outputs!Free
<1>9. Outputs!Path(r, k0) \notin DOMAIN books
  BY <1>7, Zenon
<1> HIDE DEF k0
<1> QED BY <1>8, <1>9

-----------------------------------------------------------------------------
(* Artifacts: the invariant.                                                  *)

Stages == {"idle", "testing", "saving", "done", "failed"}

OutputsTyped ==
  /\ beside \in BOOLEAN /\ clock \in Outputs!Seconds
  /\ stage \in [Runs -> Stages] /\ folder \in [Runs -> Outputs!Seconds]
  /\ DOMAIN todo = Runs /\ DOMAIN book = Runs
  /\ \A r \in Runs : todo[r] \subseteq Outputs!Commands(r) /\ (stage[r] # "testing" => todo[r] = {})
  /\ \A k \in DOMAIN logs : k[1] \in Outputs!Seconds
  /\ IsFiniteSet(DOMAIN books)

\* With one run at a time, the name a run has chosen is free until it is used.
BooksOwn ==
  ~beside =>
    /\ \A q, r \in Runs : Outputs!Active(q) /\ Outputs!Active(r) => q = r
    /\ \A r \in Runs : stage[r] = "saving" => book[r] \notin DOMAIN books
    /\ \A r \in Runs : stage[r] = "done" => book[r] \in DOMAIN books /\ books[book[r]].run = r

\* A log that is not there is still to be written, was lost, or its file was another's.
Logged(r, x) ==
  LET key == <<folder[r], Outputs!LogName(r, x[1], x[2])>> IN
  /\ key \in DOMAIN logs
  /\ \E y \in Outputs!Commands(r) :
       /\ logs[key] = <<r, y[1], y[2]>>
       /\ Outputs!LogName(r, y[1], y[2]) = Outputs!LogName(r, x[1], x[2])

Sharing(r) == \E q \in Runs \ {r} : stage[q] # "idle" /\ folder[q] = folder[r]

LogsKept ==
  \A r \in Runs : stage[r] # "idle" =>
    \A x \in Outputs!Commands(r) :
      x \in todo[r] \/ <<r, x[1], x[2]>> \in lost \/ Sharing(r) \/ Logged(r, x)

\* The inductive invariant.
OutputsIInv == OutputsTyped /\ BooksOwn /\ Outputs!BookIsWhole /\ LogsKept

-----------------------------------------------------------------------------
(* Artifacts: the names of logs.                                              *)

\* What two sequences with an element between them consist of.
LEMMA WithBetween ==
  ASSUME NEW S, NEW a \in Seq(S), NEW b \in Seq(S), NEW x \in S
  PROVE  LET w == a \o <<x>> \o b IN
         /\ w \in Seq(S) /\ Len(w) = Len(a) + 1 + Len(b)
         /\ \A i \in 1..Len(a) : w[i] = a[i]
         /\ w[Len(a) + 1] = x
         /\ \A i \in 1..Len(b) : w[Len(a) + 1 + i] = b[i]
<1> DEFINE d == <<x>>
           u == a \o d
           w == u \o b
<1>1. Len(a) \in Nat /\ Len(b) \in Nat
  BY LenProperties
<1>2. d \in Seq(S) /\ Len(d) = 1 /\ d[1] = x
  OBVIOUS
<1> HIDE DEF d
<1>3. /\ u \in Seq(S) /\ Len(u) = Len(a) + 1
      /\ \A i \in 1..(Len(a) + 1) : u[i] = IF i <= Len(a) THEN a[i] ELSE d[i - Len(a)]
  <2>1. /\ a \o d \in Seq(S) /\ Len(a \o d) = Len(a) + Len(d)
        /\ \A i \in 1..(Len(a) + Len(d)) : (a \o d)[i] = IF i <= Len(a) THEN a[i] ELSE d[i - Len(a)]
    BY <1>2, ConcatProperties
  <2> QED BY <1>2, <2>1
<1>4. \A i \in 1..Len(a) : u[i] = a[i]
  <2>1. \A i \in 1..Len(a) : i \in 1..(Len(a) + 1) /\ i <= Len(a)
    BY <1>1
  <2> HIDE DEF u
  <2> QED BY <1>3, <2>1
<1>5. u[Len(a) + 1] = x
  <2> DEFINE i == Len(a) + 1
  <2>1. i \in 1..(Len(a) + 1) /\ ~(i <= Len(a)) /\ i - Len(a) = 1
    BY <1>1
  <2> HIDE DEF i, u
  <2>2. u[i] = d[i - Len(a)]
    BY <1>3, <2>1
  <2>3. u[i] = x
    BY <1>2, <2>1, <2>2
  <2> QED BY <2>3 DEF i
<1> HIDE DEF u
<1>6. /\ w \in Seq(S) /\ Len(w) = Len(a) + 1 + Len(b)
      /\ \A i \in 1..(Len(a) + 1 + Len(b)) : w[i] = IF i <= Len(a) + 1 THEN u[i] ELSE b[i - (Len(a) + 1)]
  <2>1. u \in Seq(S)
    BY <1>3
  <2> HIDE DEF w
  <2>2. /\ u \o b \in Seq(S) /\ Len(u \o b) = Len(u) + Len(b)
        /\ \A i \in 1..(Len(u) + Len(b)) : (u \o b)[i] = IF i <= Len(u) THEN u[i] ELSE b[i - Len(u)]
    BY <2>1, ConcatProperties
  <2>3. w = u \o b
    BY DEF w
  <2> QED BY <1>3, <2>2, <2>3
<1> HIDE DEF w
<1>7. \A i \in 1..Len(a) : w[i] = a[i]
  <2>1. \A i \in 1..Len(a) : i \in 1..(Len(a) + 1 + Len(b)) /\ i <= Len(a) + 1
    BY <1>1
  <2> QED BY <1>4, <1>6, <2>1
<1>8. w[Len(a) + 1] = x
  <2>1. Len(a) + 1 \in 1..(Len(a) + 1 + Len(b)) /\ Len(a) + 1 <= Len(a) + 1
    BY <1>1
  <2>2. w[Len(a) + 1] = u[Len(a) + 1]
    BY <1>6, <2>1
  <2> QED BY <1>5, <2>2
<1>9. \A i \in 1..Len(b) : w[Len(a) + 1 + i] = b[i]
  <2> SUFFICES ASSUME NEW i \in 1..Len(b) PROVE w[Len(a) + 1 + i] = b[i]
    OBVIOUS
  <2> DEFINE k == Len(a) + 1 + i
  <2>1. k \in 1..(Len(a) + 1 + Len(b)) /\ ~(k <= Len(a) + 1) /\ k - (Len(a) + 1) = i
    BY <1>1
  <2> HIDE DEF k
  <2>2. w[k] = b[k - (Len(a) + 1)]
    BY <1>6, <2>1
  <2>3. w[k] = b[i]
    BY <2>1, <2>2
  <2> QED BY <2>3 DEF k
<1>10. a \o <<x>> \o b = w
  BY DEF w, u, d
<1> QED BY <1>6, <1>7, <1>8, <1>9, <1>10

\* What the names of files consist of.
Underscore == "_"
Unknown    == "unknown"
Pieces     == STRING \cup {Underscore, Unknown}

\* The names of the code, with the pieces it puts in by name.
LEMMA NamesOfCode ==
  /\ Underscore \in Pieces /\ Unknown \in Pieces
  /\ \A a, b : Outputs!Joined(a, b) = a \o <<Underscore>> \o b
  /\ \A name : Outputs!Sanitize(name) =
                 IF name = << >> THEN <<Unknown>>
                 ELSE [i \in DOMAIN name |->
                         IF name[i] \in Outputs!Dangerous THEN Underscore ELSE name[i]]
<1>1. Underscore \in Pieces /\ Unknown \in Pieces
  BY Zenon DEF Pieces
<1>2. \A a, b : Outputs!Joined(a, b) = a \o <<Underscore>> \o b
  BY ZenonT(30) DEF Underscore, Outputs!Joined
<1>3. \A name : Outputs!Sanitize(name) =
                 IF name = << >> THEN <<Unknown>>
                 ELSE [i \in DOMAIN name |->
                         IF name[i] \in Outputs!Dangerous THEN Underscore ELSE name[i]]
  BY ZenonT(30) DEF Underscore, Unknown, Outputs!Sanitize
<1> QED BY <1>1, <1>2, <1>3

\* The first x tells where the first sequence ends, if there is none in it.
LEMMA ApartAtFirst ==
  ASSUME NEW S, NEW x \in S,
         NEW a \in Seq(S), NEW b \in Seq(S), NEW c \in Seq(S), NEW d \in Seq(S),
         \A i \in DOMAIN a : a[i] # x, \A i \in DOMAIN c : c[i] # x,
         a \o <<x>> \o b = c \o <<x>> \o d
  PROVE  a = c /\ b = d
<1> DEFINE w == a \o <<x>> \o b
           v == c \o <<x>> \o d
<1>1. /\ Len(a) \in Nat /\ Len(b) \in Nat /\ Len(c) \in Nat /\ Len(d) \in Nat
      /\ DOMAIN a = 1..Len(a) /\ DOMAIN c = 1..Len(c)
  BY LenProperties
<1>2. /\ Len(w) = Len(a) + 1 + Len(b)
      /\ \A i \in 1..Len(a) : w[i] = a[i]
      /\ w[Len(a) + 1] = x
      /\ \A i \in 1..Len(b) : w[Len(a) + 1 + i] = b[i]
  BY WithBetween
<1>3. /\ Len(v) = Len(c) + 1 + Len(d)
      /\ \A i \in 1..Len(c) : v[i] = c[i]
      /\ v[Len(c) + 1] = x
      /\ \A i \in 1..Len(d) : v[Len(c) + 1 + i] = d[i]
  BY WithBetween
<1>4. v = w
  OBVIOUS
<1> HIDE DEF w, v
<1>5. ~(Len(a) < Len(c))
  <2> SUFFICES ASSUME Len(a) < Len(c) PROVE FALSE
    OBVIOUS
  <2>1. Len(a) + 1 \in 1..Len(c)
    BY <1>1
  <2> QED BY <1>1, <1>2, <1>3, <1>4, <2>1
<1>6. ~(Len(c) < Len(a))
  <2> SUFFICES ASSUME Len(c) < Len(a) PROVE FALSE
    OBVIOUS
  <2>1. Len(c) + 1 \in 1..Len(a)
    BY <1>1
  <2> QED BY <1>1, <1>2, <1>3, <1>4, <2>1
<1>7. Len(a) = Len(c) /\ Len(b) = Len(d)
  <2>1. Len(a) = Len(c)
    <3> DEFINE m == Len(a)
               n == Len(c)
    <3>1. m \in Nat /\ n \in Nat /\ ~(m < n) /\ ~(n < m)
      BY <1>1, <1>5, <1>6
    <3> HIDE DEF m, n
    <3>2. m = n
      BY <3>1
    <3> QED BY <3>2 DEF m, n
  <2>2. Len(a) + 1 + Len(b) = Len(c) + 1 + Len(d)
    BY <1>2, <1>3, <1>4
  <2> QED BY <1>1, <2>1, <2>2
<1>8. a = c
  <2>1. \A i \in 1..Len(a) : a[i] = c[i]
    BY <1>2, <1>3, <1>4, <1>7
  <2> QED BY <1>7, <2>1, SeqEqual
<1>9. b = d
  <2>1. \A i \in 1..Len(b) : b[i] = d[i]
    BY <1>2, <1>3, <1>4, <1>7
  <2> QED BY <1>7, <2>1, SeqEqual
<1> QED BY <1>8, <1>9

\* A sequence over a set is one over a larger set.
LEMMA SeqWidens ==
  ASSUME NEW A, NEW B, A \subseteq B, NEW s \in Seq(A)
  PROVE  s \in Seq(B)
<1>1. /\ Len(s) \in Nat /\ DOMAIN s = 1..Len(s) /\ s = [i \in 1..Len(s) |-> s[i]]
      /\ \A i \in 1..Len(s) : s[i] \in A
  BY LenProperties, ElementOfSeq
<1>2. s \in [1..Len(s) -> B]
  BY <1>1
<1> QED BY <1>1, <1>2

\* A joined name is a name.
LEMMA JoinedTyped ==
  ASSUME NEW a \in Seq(Pieces), NEW b \in Seq(Pieces)
  PROVE  Outputs!Joined(a, b) \in Seq(Pieces)
<1>1. a \o <<Underscore>> \o b \in Seq(Pieces)
  BY NamesOfCode, WithBetween
<1>2. Outputs!Joined(a, b) = a \o <<Underscore>> \o b
  BY NamesOfCode
<1> QED BY <1>1, <1>2

\* Joined names tell the first and the second apart, if no first one has an underscore.
LEMMA JoinedApart ==
  ASSUME NEW a \in Seq(Pieces), NEW b \in Seq(Pieces), NEW c \in Seq(Pieces), NEW d \in Seq(Pieces),
         \A i \in DOMAIN a : a[i] # Underscore, \A i \in DOMAIN c : c[i] # Underscore,
         Outputs!Joined(a, b) = Outputs!Joined(c, d)
  PROVE  a = c /\ b = d
<1>1. a \o <<Underscore>> \o b = c \o <<Underscore>> \o d
  BY NamesOfCode
<1>2. Underscore \in Pieces
  BY NamesOfCode
<1> QED BY <1>1, <1>2, ApartAtFirst, ZenonT(60)

\* A name made the name of a file is one.
LEMMA SanitizeTyped ==
  ASSUME NEW name \in Seq(Pieces)
  PROVE  Outputs!Sanitize(name) \in Seq(Pieces)
<1>1. DOMAIN name = 1..Len(name) /\ Len(name) \in Nat /\ \A i \in 1..Len(name) : name[i] \in Pieces
  BY LenProperties, ElementOfSeq
<1>2. Underscore \in Pieces /\ Unknown \in Pieces
  BY NamesOfCode
<1>3. <<Unknown>> \in Seq(Pieces)
  BY <1>2
<1> DEFINE w == [i \in DOMAIN name |-> IF name[i] \in Outputs!Dangerous THEN Underscore ELSE name[i]]
<1>4. w \in [1..Len(name) -> Pieces]
  BY <1>1, <1>2
<1>5. Outputs!Sanitize(name) = IF name = << >> THEN <<Unknown>> ELSE w
  BY NamesOfCode
<1> HIDE DEF w
<1>6. w \in Seq(Pieces)
  BY <1>1, <1>4
<1> QED BY <1>3, <1>5, <1>6

\* Two steps with one log may be taken for one another.
LEMMA SameLogConfused ==
  ASSUME NEW r \in Runs, NEW x \in Outputs!Commands(r), NEW y \in Outputs!Commands(r),
         Outputs!LogName(r, y[1], y[2]) = Outputs!LogName(r, x[1], x[2])
  PROVE  Outputs!Confused(r, x, y)
<1> DEFINE P(z) == Outputs!Parts(r, z)
<1>1. ASSUME NEW z \in Outputs!Commands(r)
      PROVE  /\ P(z)[1] \in Seq(Pieces) /\ P(z)[2] \in Seq(Pieces) /\ P(z)[3] \in Seq(Pieces)
             /\ P(z) = <<P(z)[1], P(z)[2], P(z)[3]>>
             /\ Outputs!LogName(r, z[1], z[2]) = Outputs!Joined(P(z)[1], Outputs!Joined(P(z)[2], P(z)[3]))
  <2> DEFINE S == [name : Seq(STRING), command : BOOLEAN, ran : BOOLEAN]
             H == [name : Seq(STRING), ip : Seq(STRING), steps : Seq(S)]
             host == HostsOf[r][z[1]]
  <2>1. PICK h \in DOMAIN HostsOf[r] : \E n \in DOMAIN Outputs!Steps(r, h) : z = <<h, n>>
    BY DEF Outputs!Commands
  <2>2. z[1] \in DOMAIN HostsOf[r] /\ z[2] \in DOMAIN Outputs!Steps(r, z[1])
    BY <2>1
  <2>3. HostsOf[r] \in Seq(H)
    BY RunsAssumption
  <2> HIDE DEF S
  <2>4. host \in H
    <3> HIDE DEF H
    <3>1. z[1] \in 1..Len(HostsOf[r])
      BY <2>2, <2>3, LenProperties
    <3> QED BY <2>3, <3>1, ElementOfSeq
  <2>5. host.name \in Seq(STRING) /\ host.ip \in Seq(STRING) /\ host.steps \in Seq(S)
    BY <2>4
  <2>6. z[2] \in 1..Len(host.steps)
    BY <2>2, <2>5, LenProperties DEF Outputs!Steps
  <2>7. host.steps[z[2]] \in S
    BY <2>5, <2>6, ElementOfSeq
  <2>8. host.steps[z[2]].name \in Seq(STRING)
    BY <2>7 DEF S
  <2>9. /\ P(z)[1] = Outputs!Sanitize(host.name) /\ P(z)[2] = Outputs!Sanitize(host.ip)
        /\ P(z)[3] = Outputs!Sanitize(host.steps[z[2]].name) /\ P(z) = <<P(z)[1], P(z)[2], P(z)[3]>>
    BY DEF Outputs!Parts
  <2>10. Outputs!LogName(r, z[1], z[2]) = Outputs!Joined(P(z)[1], Outputs!Joined(P(z)[2], P(z)[3]))
    BY <2>9 DEF Outputs!LogName, Outputs!Steps
  <2> HIDE DEF host, H
  <2>11. STRING \subseteq Pieces
    BY DEF Pieces
  <2>12. /\ host.name \in Seq(Pieces) /\ host.ip \in Seq(Pieces)
         /\ host.steps[z[2]].name \in Seq(Pieces)
    BY <2>5, <2>8, <2>11, SeqWidens
  <2> QED BY <2>9, <2>10, <2>12, SanitizeTyped
<1> SUFFICES ASSUME ~Outputs!Blurred(r, x), ~Outputs!Blurred(r, y) PROVE P(x) = P(y)
  BY DEF Outputs!Confused
<1>2. /\ \A i \in DOMAIN P(x)[1] : P(x)[1][i] # Underscore
      /\ \A i \in DOMAIN P(x)[2] : P(x)[2][i] # Underscore
      /\ \A i \in DOMAIN P(y)[1] : P(y)[1][i] # Underscore
      /\ \A i \in DOMAIN P(y)[2] : P(y)[2][i] # Underscore
  BY DEF Outputs!Blurred, Underscore
<1> HIDE DEF P
<1>3. /\ Outputs!Joined(P(x)[2], P(x)[3]) \in Seq(Pieces)
      /\ Outputs!Joined(P(y)[2], P(y)[3]) \in Seq(Pieces)
  BY <1>1, JoinedTyped
<1> DEFINE u(z) == Outputs!Joined(P(z)[2], P(z)[3])
<1>4. Outputs!Joined(P(x)[1], u(x)) = Outputs!Joined(P(y)[1], u(y))
  BY <1>1
<1>5. P(x)[1] = P(y)[1] /\ u(x) = u(y)
  <2>1. /\ P(x)[1] \in Seq(Pieces) /\ u(x) \in Seq(Pieces)
        /\ P(y)[1] \in Seq(Pieces) /\ u(y) \in Seq(Pieces)
    BY <1>1, <1>3
  <2> HIDE DEF u
  <2> QED BY <1>2, <1>4, <2>1, JoinedApart
<1>6. P(x)[2] = P(y)[2] /\ P(x)[3] = P(y)[3]
  BY <1>1, <1>2, <1>5, JoinedApart
<1> QED BY <1>1, <1>5, <1>6

-----------------------------------------------------------------------------
(* Artifacts: the steps.                                                      *)

\* Runs that go on sharing a directory.
LEMMA SharingStays ==
  ASSUME NEW r \in Runs, Sharing(r), \A q \in Runs : stage[q] # "idle" => stage'[q] # "idle" /\ folder'[q] = folder[q],
         folder'[r] = folder[r]
  PROVE  Sharing(r)'
BY DEF Sharing

\* Nothing is written, and no run begins.
LEMMA LogsStay ==
  ASSUME LogsKept, UNCHANGED <<folder, todo, lost, logs>>,
         \A q \in Runs : stage[q] = "idle" <=> stage'[q] = "idle"
  PROVE  LogsKept'
<1> SUFFICES ASSUME NEW r \in Runs, stage'[r] # "idle", NEW x \in Outputs!Commands(r)
             PROVE  x \in todo'[r] \/ <<r, x[1], x[2]>> \in lost' \/ Sharing(r)' \/ Logged(r, x)'
  BY DEF LogsKept
<1>1. x \in todo[r] \/ <<r, x[1], x[2]>> \in lost \/ Sharing(r) \/ Logged(r, x)
  BY DEF LogsKept
<1>2. Sharing(r) => Sharing(r)'
  BY SharingStays
<1>3. Logged(r, x) => Logged(r, x)'
  BY DEF Logged
<1> QED BY <1>1, <1>2, <1>3

\* The clock goes on.
LEMMA TickKeeps ==
  ASSUME OutputsIInv, Outputs!Tick
  PROVE  OutputsIInv'
<1>1. /\ clock < MaxClock /\ clock' = clock + 1
      /\ beside' = beside /\ stage' = stage /\ folder' = folder /\ todo' = todo /\ lost' = lost /\ logs' = logs
      /\ book' = book /\ books' = books
  BY DEF Outputs!Tick
<1>2. clock' \in Outputs!Seconds
  BY <1>1, RunsAssumption DEF OutputsIInv, OutputsTyped, Outputs!Seconds
<1>3. OutputsTyped'
  BY <1>1, <1>2 DEF OutputsIInv, OutputsTyped
<1>4. BooksOwn' /\ Outputs!BookIsWhole'
  BY <1>1 DEF OutputsIInv, BooksOwn, Outputs!Active, Outputs!BookIsWhole
<1>5. LogsKept'
  BY <1>1, LogsStay DEF OutputsIInv
<1> QED BY <1>3, <1>4, <1>5 DEF OutputsIInv

\* A run begins, when no other is active or beside others.
LEMMA BeginKeeps ==
  ASSUME OutputsIInv, NEW r \in Runs, Outputs!Begin(r)
  PROVE  OutputsIInv'
<1>1. /\ stage[r] = "idle" /\ (~beside => \A q \in Runs : ~Outputs!Active(q))
      /\ stage' = [stage EXCEPT ![r] = "testing"] /\ folder' = [folder EXCEPT ![r] = clock]
      /\ todo' = [todo EXCEPT ![r] = Outputs!Commands(r)]
      /\ beside' = beside /\ clock' = clock /\ lost' = lost /\ logs' = logs /\ book' = book /\ books' = books
  BY DEF Outputs!Begin
<1>2. OutputsTyped
  BY DEF OutputsIInv
<1>3. /\ stage'[r] = "testing" /\ folder'[r] = clock /\ todo'[r] = Outputs!Commands(r)
      /\ \A q \in Runs \ {r} : stage'[q] = stage[q] /\ folder'[q] = folder[q] /\ todo'[q] = todo[q]
  BY <1>1, <1>2 DEF OutputsTyped
<1>4. OutputsTyped'
  <2>1. stage' \in [Runs -> Stages] /\ folder' \in [Runs -> Outputs!Seconds]
    BY <1>1, <1>2 DEF OutputsTyped, Stages
  <2>2. \A q \in Runs : todo'[q] \subseteq Outputs!Commands(q) /\ (stage'[q] # "testing" => todo'[q] = {})
    BY <1>2, <1>3 DEF OutputsTyped
  <2> QED BY <1>1, <1>2, <2>1, <2>2 DEF OutputsTyped
<1>5. BooksOwn'
  <2> SUFFICES ASSUME ~beside
               PROVE  /\ \A p, q \in Runs : Outputs!Active(p)' /\ Outputs!Active(q)' => p = q
                      /\ \A q \in Runs : stage'[q] = "saving" => book[q] \notin DOMAIN books
                      /\ \A q \in Runs : stage'[q] = "done" => book[q] \in DOMAIN books /\ books[book[q]].run = q
    BY <1>1 DEF BooksOwn
  <2>1. \A q \in Runs \ {r} : ~Outputs!Active(q)'
    BY <1>1, <1>3 DEF Outputs!Active
  <2>2. \A q \in Runs : stage'[q] \in {"saving", "done"} => stage[q] = stage'[q]
    BY <1>3
  <2>3. BooksOwn
    BY DEF OutputsIInv
  <2> QED BY <2>1, <2>2, <2>3 DEF BooksOwn
<1>6. Outputs!BookIsWhole'
  BY <1>1 DEF OutputsIInv, Outputs!BookIsWhole
<1>7. LogsKept'
  <2> SUFFICES ASSUME NEW q \in Runs, stage'[q] # "idle", NEW x \in Outputs!Commands(q)
               PROVE  x \in todo'[q] \/ <<q, x[1], x[2]>> \in lost' \/ Sharing(q)' \/ Logged(q, x)'
    BY DEF LogsKept
  <2>1. CASE q = r
    BY <1>3, <2>1
  <2>2. CASE q # r
    <3>1. stage[q] # "idle" /\ folder'[q] = folder[q] /\ todo'[q] = todo[q]
      BY <1>3, <2>2
    <3>2. x \in todo[q] \/ <<q, x[1], x[2]>> \in lost \/ Sharing(q) \/ Logged(q, x)
      BY <3>1 DEF OutputsIInv, LogsKept
    <3>3. Sharing(q) => Sharing(q)'
      BY <1>1, <1>3, <3>1, SharingStays
    <3>4. Logged(q, x) => Logged(q, x)'
      BY <1>1, <3>1 DEF Logged
    <3> QED BY <1>1, <3>1, <3>2, <3>3, <3>4
  <2> QED BY <2>1, <2>2
<1> QED BY <1>4, <1>5, <1>6, <1>7 DEF OutputsIInv

\* A log is written, over one that has its name, or lost.
LEMMA WriteLogKeeps ==
  ASSUME OutputsIInv, NEW r \in Runs, Outputs!WriteLog(r)
  PROVE  OutputsIInv'
<1>1. PICK x \in todo[r] :
        /\ todo' = [todo EXCEPT ![r] = todo[r] \ {x}]
        /\ \/ /\ logs' = Outputs!Put(logs, <<folder[r], Outputs!LogName(r, x[1], x[2])>>, <<r, x[1], x[2]>>)
              /\ lost' = lost
           \/ lost' = lost \cup {<<r, x[1], x[2]>>} /\ logs' = logs
  BY DEF Outputs!WriteLog
<1>2. /\ stage[r] = "testing" /\ beside' = beside /\ clock' = clock /\ stage' = stage /\ folder' = folder
      /\ book' = book /\ books' = books
  BY DEF Outputs!WriteLog
<1>3. OutputsTyped /\ x \in Outputs!Commands(r)
  BY DEF OutputsIInv, OutputsTyped
<1>4. todo'[r] = todo[r] \ {x} /\ \A q \in Runs \ {r} : todo'[q] = todo[q]
  BY <1>1, <1>3 DEF OutputsTyped
<1> DEFINE key == <<folder[r], Outputs!LogName(r, x[1], x[2])>>
           mine == <<r, x[1], x[2]>>
<1> HIDE DEF key, mine
<1>a. \/ logs' = Outputs!Put(logs, key, mine) /\ lost' = lost
      \/ lost' = lost \cup {mine} /\ logs' = logs
  BY <1>1 DEF key, mine
<1>b. \/ /\ DOMAIN logs' = DOMAIN logs \cup {key} /\ logs'[key] = mine
         /\ \A k \in DOMAIN logs : k # key => logs'[k] = logs[k]
         /\ lost' = lost
      \/ logs' = logs /\ lost' = lost \cup {mine}
  BY <1>a DEF Outputs!Put
<1> USE DEF key, mine
<1>5. \/ /\ DOMAIN logs' = DOMAIN logs \cup {key} /\ logs'[key] = <<r, x[1], x[2]>>
         /\ \A k \in DOMAIN logs : k # key => logs'[k] = logs[k]
         /\ lost' = lost
      \/ logs' = logs /\ lost' = lost \cup {<<r, x[1], x[2]>>}
  BY <1>b
<1>6. key[1] \in Outputs!Seconds
  BY <1>3 DEF OutputsTyped
<1>7. OutputsTyped'
  <2>1. \A k \in DOMAIN logs' : k[1] \in Outputs!Seconds
    BY <1>3, <1>5, <1>6 DEF OutputsTyped
  <2>2. \A q \in Runs : todo'[q] \subseteq Outputs!Commands(q) /\ (stage'[q] # "testing" => todo'[q] = {})
    BY <1>2, <1>3, <1>4 DEF OutputsTyped
  <2> QED BY <1>1, <1>2, <1>3, <2>1, <2>2 DEF OutputsTyped
<1>c. BooksOwn'
  BY <1>2 DEF OutputsIInv, BooksOwn, Outputs!Active
<1>8. Outputs!BookIsWhole'
  BY <1>2 DEF OutputsIInv, Outputs!BookIsWhole
<1>9. LogsKept'
  <2> SUFFICES ASSUME NEW q \in Runs, stage'[q] # "idle", NEW y \in Outputs!Commands(q)
               PROVE  y \in todo'[q] \/ <<q, y[1], y[2]>> \in lost' \/ Sharing(q)' \/ Logged(q, y)'
    BY DEF LogsKept
  <2>1. y \in todo[q] \/ <<q, y[1], y[2]>> \in lost \/ Sharing(q) \/ Logged(q, y)
    BY <1>2 DEF OutputsIInv, LogsKept
  <2>2. Sharing(q) => Sharing(q)'
    BY <1>2, SharingStays
  <2>3. y \in todo[q] => y \in todo'[q] \/ <<q, y[1], y[2]>> \in lost' \/ Logged(q, y)'
    <3>1. CASE q = r /\ y = x
      <4>1. CASE logs' = logs /\ lost' = lost \cup {<<r, x[1], x[2]>>}
        BY <3>1, <4>1
      <4>2. CASE key \in DOMAIN logs' /\ logs'[key] = <<r, x[1], x[2]>>
        <5>1. Logged(r, x)'
          BY <1>2, <1>3, <4>2 DEF Logged
        <5> QED BY <3>1, <5>1
      <4> QED BY <1>5, <4>1, <4>2
    <3>2. CASE ~(q = r /\ y = x)
      BY <1>4, <3>2
    <3> QED BY <3>1, <3>2
  <2>4. Logged(q, y) => Logged(q, y)' \/ Sharing(q)'
    <3> SUFFICES ASSUME Logged(q, y) PROVE Logged(q, y)' \/ Sharing(q)'
      OBVIOUS
    <3> DEFINE own == <<folder[q], Outputs!LogName(q, y[1], y[2])>>
    <3>1. own \in DOMAIN logs /\ \E z \in Outputs!Commands(q) :
            /\ logs[own] = <<q, z[1], z[2]>>
            /\ Outputs!LogName(q, z[1], z[2]) = Outputs!LogName(q, y[1], y[2])
      BY DEF Logged
    <3>2. CASE logs'[own] = logs[own] /\ own \in DOMAIN logs'
      BY <1>2, <3>1, <3>2 DEF Logged
    <3>3. CASE own = key /\ logs'[own] = <<r, x[1], x[2]>> /\ own \in DOMAIN logs'
      <4>1. folder[q] = folder[r] /\ Outputs!LogName(q, y[1], y[2]) = Outputs!LogName(r, x[1], x[2])
        BY <3>3
      <4>2. CASE q = r
        BY <1>2, <1>3, <3>3, <4>1, <4>2 DEF Logged
      <4>3. CASE q # r
        BY <1>2, <4>1, <4>3 DEF Sharing
      <4> QED BY <4>2, <4>3
    <3>4. \/ logs'[own] = logs[own] /\ own \in DOMAIN logs'
          \/ own = key /\ logs'[own] = <<r, x[1], x[2]>> /\ own \in DOMAIN logs'
      <4> HIDE DEF own, key, mine
      <4> QED BY <1>b, <3>1 DEF mine
    <3> QED BY <3>2, <3>3, <3>4
  <2>5. <<q, y[1], y[2]>> \in lost => <<q, y[1], y[2]>> \in lost'
    BY <1>5
  <2> QED BY <2>1, <2>2, <2>3, <2>4, <2>5
<1> QED BY <1>7, <1>8, <1>9, <1>c DEF OutputsIInv

\* The name a run chooses is free.
LEMMA NameBookKeeps ==
  ASSUME OutputsIInv, NEW r \in Runs, Outputs!NameBook(r)
  PROVE  OutputsIInv'
<1> DEFINE p == Outputs!Path(r, Outputs!Free(r))
<1>1. /\ stage[r] = "testing" /\ todo[r] = {} /\ stage' = [stage EXCEPT ![r] = "saving"]
      /\ book' = [book EXCEPT ![r] = p]
      /\ beside' = beside /\ clock' = clock /\ folder' = folder /\ todo' = todo /\ lost' = lost /\ logs' = logs
      /\ books' = books
  BY DEF Outputs!NameBook
<1>2. OutputsTyped /\ BooksOwn /\ LogsKept
  BY DEF OutputsIInv
<1>3. p \notin DOMAIN books
  BY <1>2, FreeIsFree DEF OutputsTyped
<1> HIDE DEF p
<1>4. /\ stage'[r] = "saving" /\ book'[r] = p
      /\ \A q \in Runs \ {r} : stage'[q] = stage[q] /\ book'[q] = book[q]
  BY <1>1, <1>2 DEF OutputsTyped
<1>5. OutputsTyped'
  <2>1. stage' \in [Runs -> Stages]
    BY <1>1, <1>2 DEF OutputsTyped, Stages
  <2>2. \A q \in Runs : todo'[q] \subseteq Outputs!Commands(q) /\ (stage'[q] # "testing" => todo'[q] = {})
    BY <1>1, <1>2, <1>4 DEF OutputsTyped
  <2> QED BY <1>1, <1>2, <2>1, <2>2 DEF OutputsTyped
<1>6. BooksOwn'
  <2>1. \A q \in Runs : Outputs!Active(q)' <=> Outputs!Active(q)
    BY <1>1, <1>4 DEF Outputs!Active
  <2>2. ~beside => \A q \in Runs : stage'[q] = "saving" => book'[q] \notin DOMAIN books'
    BY <1>1, <1>2, <1>3, <1>4 DEF BooksOwn
  <2>3. ~beside => \A q \in Runs : stage'[q] = "done" => book'[q] \in DOMAIN books' /\ books'[book'[q]].run = q
    BY <1>1, <1>2, <1>4 DEF BooksOwn
  <2> QED BY <1>1, <1>2, <2>1, <2>2, <2>3 DEF BooksOwn
<1>7. Outputs!BookIsWhole'
  BY <1>1 DEF OutputsIInv, Outputs!BookIsWhole
<1>8. LogsKept'
  BY <1>1, <1>2, <1>4, LogsStay
<1> QED BY <1>5, <1>6, <1>7, <1>8 DEF OutputsIInv

\* The workbook is written under the name that was chosen.
LEMMA SaveBookKeeps ==
  ASSUME OutputsIInv, NEW r \in Runs, Outputs!SaveBook(r)
  PROVE  OutputsIInv'
<1> DEFINE w == Outputs!Rows(r)
           b == [run |-> r, cells |-> w.cells, last |-> w.next - 1]
<1>1. /\ stage[r] = "saving"
      /\ beside' = beside /\ clock' = clock /\ folder' = folder /\ todo' = todo /\ lost' = lost /\ logs' = logs
  BY DEF Outputs!SaveBook
<1>2. OutputsTyped /\ BooksOwn /\ LogsKept /\ Outputs!BookIsWhole
  BY DEF OutputsIInv
<1>3. IsSheet(w, Outputs!Meant(r))
  BY RowsAreMeant
<1> HIDE DEF w
<1>4. b.run = r /\ b.cells = w.cells /\ b.last = w.next - 1
  OBVIOUS
<1>5. CASE stage' = [stage EXCEPT ![r] = "done"] /\ books' = Outputs!Put(books, book[r], b) /\ book' = book
  <2> HIDE DEF b
  <2>a. books' = Outputs!Put(books, book[r], b)
    BY <1>5
  <2>1. /\ DOMAIN books' = DOMAIN books \cup {book[r]} /\ books'[book[r]] = b
        /\ \A p \in DOMAIN books : p # book[r] => books'[p] = books[p]
    BY <2>a DEF Outputs!Put
  <2>2. stage'[r] = "done" /\ \A q \in Runs \ {r} : stage'[q] = stage[q]
    BY <1>2, <1>5 DEF OutputsTyped
  <2>3. OutputsTyped'
    <3>1. stage' \in [Runs -> Stages]
      BY <1>2, <1>5 DEF OutputsTyped, Stages
    <3>2. IsFiniteSet(DOMAIN books')
      BY <1>2, <2>1, FS_AddElement DEF OutputsTyped
    <3>3. \A q \in Runs : todo'[q] \subseteq Outputs!Commands(q) /\ (stage'[q] # "testing" => todo'[q] = {})
      BY <1>1, <1>2, <2>2 DEF OutputsTyped
    <3> QED BY <1>1, <1>2, <1>5, <3>1, <3>2, <3>3 DEF OutputsTyped
  <2>4. BooksOwn'
    <3> SUFFICES ASSUME ~beside
                 PROVE  /\ \A p, q \in Runs : Outputs!Active(p)' /\ Outputs!Active(q)' => p = q
                        /\ \A q \in Runs : stage'[q] = "saving" => book'[q] \notin DOMAIN books'
                        /\ \A q \in Runs : stage'[q] = "done" =>
                             book'[q] \in DOMAIN books' /\ books'[book'[q]].run = q
      BY <1>1 DEF BooksOwn
    <3>1. \A q \in Runs \ {r} : ~Outputs!Active(q)
      BY <1>1, <1>2 DEF BooksOwn, Outputs!Active
    <3>2. \A q \in Runs : Outputs!Active(q)' => Outputs!Active(q)
      BY <1>1, <2>2 DEF Outputs!Active
    <3>3. \A q \in Runs \ {r} : stage'[q] # "saving"
      BY <2>2, <3>1 DEF Outputs!Active
    <3>4. ASSUME NEW q \in Runs, stage'[q] = "done" PROVE book'[q] \in DOMAIN books' /\ books'[book'[q]].run = q
      <4>1. CASE q = r
        BY <1>4, <1>5, <2>1, <4>1
      <4>2. CASE q # r
        <5>1. book[q] \in DOMAIN books /\ books[book[q]].run = q
          BY <1>2, <2>2, <3>4, <4>2 DEF BooksOwn
        <5>2. book[r] \notin DOMAIN books
          BY <1>1, <1>2 DEF BooksOwn
        <5> QED BY <1>5, <2>1, <5>1, <5>2
      <4> QED BY <4>1, <4>2
    <3> QED BY <1>2, <2>2, <3>2, <3>3, <3>4 DEF BooksOwn
  <2>5. Outputs!BookIsWhole'
    <3>1. ASSUME NEW p \in DOMAIN books'
          PROVE  /\ DOMAIN books'[p].cells = 2..books'[p].last
                 /\ {books'[p].cells[n] : n \in DOMAIN books'[p].cells} = Outputs!Meant(books'[p].run)
                 /\ \A m, n \in DOMAIN books'[p].cells : m < n => Outputs!Before(books'[p].cells[m], books'[p].cells[n])
      <4>1. CASE p = book[r]
        <5>1. books'[p] = b
          BY <2>1, <4>1
        <5>2. /\ DOMAIN b.cells = 2..b.last /\ {b.cells[n] : n \in DOMAIN b.cells} = Outputs!Meant(b.run)
              /\ \A m, n \in DOMAIN b.cells : m < n => Outputs!Before(b.cells[m], b.cells[n])
          BY <1>3, <1>4 DEF IsSheet
        <5> QED BY <5>1, <5>2
      <4>2. CASE p # book[r]
        <5>1. p \in DOMAIN books /\ books'[p] = books[p]
          BY <2>1, <4>2
        <5> QED BY <1>2, <5>1 DEF Outputs!BookIsWhole
      <4> QED BY <4>1, <4>2
    <3> QED BY <3>1 DEF Outputs!BookIsWhole
  <2>6. LogsKept'
    <3>1. \A q \in Runs : stage[q] = "idle" <=> stage'[q] = "idle"
      BY <1>1, <2>2
    <3> QED BY <1>1, <1>2, <3>1, LogsStay
  <2> QED BY <2>3, <2>4, <2>5, <2>6 DEF OutputsIInv
<1>6. CASE stage' = [stage EXCEPT ![r] = "failed"] /\ book' = [book EXCEPT ![r] = Outputs!NoBook] /\ books' = books
  <2>2. stage'[r] = "failed" /\ \A q \in Runs \ {r} : stage'[q] = stage[q] /\ book'[q] = book[q]
    BY <1>2, <1>6 DEF OutputsTyped
  <2>3. OutputsTyped'
    <3>1. stage' \in [Runs -> Stages]
      BY <1>2, <1>6 DEF OutputsTyped, Stages
    <3>2. \A q \in Runs : todo'[q] \subseteq Outputs!Commands(q) /\ (stage'[q] # "testing" => todo'[q] = {})
      BY <1>1, <1>2, <2>2 DEF OutputsTyped
    <3> QED BY <1>1, <1>2, <1>6, <3>1, <3>2 DEF OutputsTyped
  <2>4. BooksOwn'
    <3>1. \A q \in Runs : Outputs!Active(q)' => Outputs!Active(q)
      BY <1>1, <2>2 DEF Outputs!Active
    <3>2. \A q \in Runs : stage'[q] \in {"saving", "done"} => stage[q] = stage'[q] /\ book'[q] = book[q]
      BY <2>2
    <3> QED BY <1>1, <1>2, <1>6, <3>1, <3>2 DEF BooksOwn
  <2>5. Outputs!BookIsWhole'
    BY <1>2, <1>6 DEF Outputs!BookIsWhole
  <2>6. LogsKept'
    <3>1. \A q \in Runs : stage[q] = "idle" <=> stage'[q] = "idle"
      BY <1>1, <2>2
    <3> QED BY <1>1, <1>2, <3>1, LogsStay
  <2> QED BY <2>3, <2>4, <2>5, <2>6 DEF OutputsIInv
<1> QED BY <1>5, <1>6 DEF Outputs!SaveBook, w

-----------------------------------------------------------------------------

\* The invariant holds at first,
LEMMA OutputsInitially ==
  ASSUME Outputs!Init
  PROVE  OutputsIInv
<1>1. /\ beside \in BOOLEAN /\ clock = 0
      /\ stage = [r \in Runs |-> "idle"] /\ folder = [r \in Runs |-> 0] /\ todo = [r \in Runs |-> {}]
      /\ logs = << >> /\ book = [r \in Runs |-> Outputs!NoBook] /\ books = << >>
  BY DEF Outputs!Init
<1>2. DOMAIN << >> = {}
  OBVIOUS
<1>3. 0 \in Outputs!Seconds
  BY RunsAssumption DEF Outputs!Seconds
<1>4. OutputsTyped
  BY <1>1, <1>2, <1>3, FS_EmptySet DEF OutputsTyped, Stages
<1>5. \A r \in Runs : stage[r] = "idle"
  BY <1>1
<1>6. BooksOwn
  BY <1>5 DEF BooksOwn, Outputs!Active
<1>7. Outputs!BookIsWhole
  BY <1>1, <1>2 DEF Outputs!BookIsWhole
<1>8. LogsKept
  BY <1>5 DEF LogsKept
<1> QED BY <1>4, <1>6, <1>7, <1>8 DEF OutputsIInv

\* after every step,
LEMMA OutputsStep ==
  ASSUME OutputsIInv, Outputs!Next
  PROVE  OutputsIInv'
BY TickKeeps, BeginKeeps, WriteLogKeeps, NameBookKeeps, SaveBookKeeps DEF Outputs!Next

\* and the properties follow from it.
LEMMA OutputsImply ==
  ASSUME OutputsIInv
  PROVE  Outputs!ArtifactsInv
<1>1. OutputsTyped /\ BooksOwn /\ Outputs!BookIsWhole /\ LogsKept
  BY DEF OutputsIInv
<1>2. Outputs!ArtifactsTypeOK
  BY <1>1 DEF OutputsTyped, Stages, Outputs!ArtifactsTypeOK
<1>3. Outputs!BookIsOwn
  BY <1>1 DEF BooksOwn, Outputs!BookIsOwn
<1>4. Outputs!LogsAreThere
  <2> SUFFICES ASSUME NEW r \in Runs, stage[r] \in {"saving", "done", "failed"}, NEW x \in Outputs!Commands(r)
               PROVE  LET key == <<folder[r], Outputs!LogName(r, x[1], x[2])>> IN
                      \/ <<r, x[1], x[2]>> \in lost
                      \/ \E q \in Runs \ {r} : stage[q] # "idle" /\ folder[q] = folder[r]
                      \/ key \in DOMAIN logs /\ \E y \in Outputs!Commands(r) :
                           logs[key] = <<r, y[1], y[2]>> /\ Outputs!Confused(r, x, y)
    BY DEF Outputs!LogsAreThere
  <2>1. stage[r] # "idle" /\ todo[r] = {}
    BY <1>1 DEF OutputsTyped
  <2>2. <<r, x[1], x[2]>> \in lost \/ Sharing(r) \/ Logged(r, x)
    BY <1>1, <2>1 DEF LogsKept
  <2>3. \A y \in Outputs!Commands(r) :
          Outputs!LogName(r, y[1], y[2]) = Outputs!LogName(r, x[1], x[2]) => Outputs!Confused(r, x, y)
    BY SameLogConfused
  <2> QED BY <2>2, <2>3 DEF Sharing, Logged
<1> QED BY <1>1, <1>2, <1>3, <1>4 DEF Outputs!ArtifactsInv

\* and while the directories stay as they are,
LEMMA OutputsUnchanged ==
  ASSUME OutputsIInv, UNCHANGED outputVars
  PROVE  OutputsIInv'
<1>1. /\ beside' = beside /\ clock' = clock /\ stage' = stage /\ folder' = folder /\ todo' = todo /\ lost' = lost
      /\ logs' = logs /\ book' = book /\ books' = books
  BY DEF outputVars
<1>2. OutputsTyped'
  BY <1>1 DEF OutputsIInv, OutputsTyped
<1>4. BooksOwn'
  BY <1>1 DEF OutputsIInv, BooksOwn, Outputs!Active
<1>5. Outputs!BookIsWhole'
  BY <1>1 DEF OutputsIInv, Outputs!BookIsWhole
<1>3. LogsKept'
  BY <1>1, LogsStay DEF OutputsIInv
<1> QED BY <1>2, <1>3, <1>4, <1>5 DEF OutputsIInv

\* With one run at a time a workbook is that of its run, with a row for every result and
\* none over another, and every log is there that was not lost, nor in a file that another
\* run of the same second wrote, nor a step it may be taken for: one whose names are the
\* same as files, or with an underscore in a host's name or address (output.go:289, 424,
\* sshcheck.go:1137).
THEOREM ArtifactsAreComplete == DirectoriesSpec => []ArtifactsInv
<1> DEFINE I == OutputsIInv
<1>1. DirectoriesInit => I
  BY OutputsInitially DEF DirectoriesInit
<1>2. I /\ [DirectoriesNext]_<<area, vars, managerVars, outputVars>> => I'
  BY OutputsStep, OutputsUnchanged DEF DirectoriesNext
<1>3. I => ArtifactsInv
  BY OutputsImply DEF ArtifactsInv
<1> QED BY <1>1, <1>2, <1>3, PTL DEF DirectoriesSpec
=============================================================================
