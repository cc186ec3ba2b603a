---------------------------- MODULE FileOpsProofs ----------------------------
(***************************************************************************)
(* Theorems about FileOps, for any calls, paths, contents and trees.       *)
(***************************************************************************)
EXTENDS FileOps, SequenceTheorems, TLAPS

Path == Seq(STRING)

(* Paths.                                                                  *)

LEMMA UnderSelf ==
  ASSUME NEW p \in Path
  PROVE  Under(p, p)
  BY DEF Path, Under, IsPrefix

LEMMA UnderMeans ==
  ASSUME NEW p \in Path, NEW q \in Path
  PROVE  Under(p, q) <=> Len(q) <= Len(p) /\ \A i \in 1 .. Len(q) : p[i] = q[i]
<1> DEFINE a == SubSeq(q, 1, Len(q))
           b == SubSeq(p, 1, Len(q))
<1>1. a \in Path /\ Len(a) = Len(q) /\ \A i \in 1 .. Len(q) : a[i] = q[i]
  BY DEF Path
<1>2. ASSUME Len(q) <= Len(p)
      PROVE  b \in Path /\ Len(b) = Len(q) /\ \A i \in 1 .. Len(q) : b[i] = p[i]
  BY <1>2 DEF Path
<1>3. ASSUME Len(q) <= Len(p)
      PROVE  a = b <=> \A i \in 1 .. Len(q) : p[i] = q[i]
  BY <1>1, <1>2, <1>3 DEF Path
<1>4. QED
  BY <1>3 DEF Under, IsPrefix, Path

LEMMA UnderTransitive ==
  ASSUME NEW p \in Path, NEW q \in Path, NEW r \in Path,
         Under(p, q), Under(q, r)
  PROVE  Under(p, r)
  BY UnderMeans DEF Path

LEMMA BeginningFacts ==
  ASSUME NEW p \in Path, NEW n \in Nat, n <= Len(p)
  PROVE  /\ SubSeq(p, 1, n) \in Path /\ Len(SubSeq(p, 1, n)) = n
         /\ \A i \in 1 .. n : SubSeq(p, 1, n)[i] = p[i]
<1>1. \A i \in 1 .. n : p[i] \in STRING
  BY ElementOfSeq DEF Path
<1>2. /\ SubSeq(p, 1, n) \in Seq(STRING)
      /\ Len(SubSeq(p, 1, n)) = IF 1 <= n THEN n - 1 + 1 ELSE 0
      /\ \A i \in 1 .. n - 1 + 1 : SubSeq(p, 1, n)[i] = p[1 + i - 1]
  BY <1>1, SubSeqProperties
<1>3. QED
  BY <1>2 DEF Path

LEMMA FrontFacts ==
  ASSUME NEW p \in Path, p # <<>>
  PROVE  /\ Front(p) \in Path /\ Len(Front(p)) = Len(p) - 1
         /\ \A i \in 1 .. Len(p) - 1 : Front(p)[i] = p[i]
         /\ \A q \in Path : Under(Front(p), q) => Under(p, q)
<1>1. /\ Front(p) \in Path /\ Len(Front(p)) = Len(p) - 1
      /\ \A i \in 1 .. Len(p) - 1 : Front(p)[i] = p[i]
  <2>1. Len(p) \in Nat \ {0}
    BY EmptySeq DEF Path
  <2>2. Len(p) - 1 \in Nat /\ Len(p) - 1 <= Len(p)
    BY <2>1
  <2>3. QED
    BY <2>2, BeginningFacts DEF Front
<1>2. ASSUME NEW q \in Path, Under(Front(p), q) PROVE Under(p, q)
  BY <1>1, <1>2, UnderMeans DEF Path
<1>3. QED
  BY <1>1, <1>2

LEMMA AncestorFacts ==
  ASSUME NEW p \in Path
  PROVE  /\ p \in Ancestors(p) /\ Ancestors(p) \subseteq Path
         /\ \A a \in Ancestors(p) : a # <<>> => Front(a) \in Ancestors(p)
         /\ p # <<>> => Ancestors(Front(p)) \subseteq Ancestors(p)
<1>1. p = SubSeq(p, 1, Len(p)) /\ Len(p) \in 0 .. Len(p)
  BY DEF Path
<1>2. \A n \in 0 .. Len(p) : /\ SubSeq(p, 1, n) \in Path
                             /\ Len(SubSeq(p, 1, n)) = n
                             /\ \A i \in 1 .. n : SubSeq(p, 1, n)[i] = p[i]
  BY DEF Path
<1>3. ASSUME NEW n \in 0 .. Len(p), SubSeq(p, 1, n) # <<>>
      PROVE  Front(SubSeq(p, 1, n)) = SubSeq(p, 1, n - 1) /\ n - 1 \in 0 .. Len(p)
  <2>1. n # 0
    BY <1>2, <1>3 DEF Path
  <2>2. n - 1 \in 0 .. Len(p)
    BY <2>1 DEF Path
  <2>3. SubSeq(p, 1, n) \in Path /\ Len(SubSeq(p, 1, n)) = n
    BY <1>2
  <2>4. SubSeq(SubSeq(p, 1, n), 1, n - 1) = SubSeq(p, 1, n - 1)
    <3> DEFINE a == SubSeq(SubSeq(p, 1, n), 1, n - 1)
               b == SubSeq(p, 1, n - 1)
    <3>1. a \in Path /\ Len(a) = n - 1 /\ \A i \in 1 .. n - 1 : a[i] = p[i]
      BY <1>2, <2>2, <2>3 DEF Path
    <3>2. b \in Path /\ Len(b) = n - 1 /\ \A i \in 1 .. n - 1 : b[i] = p[i]
      BY <1>2, <2>2
    <3> HIDE DEF a, b
    <3>3. a = b
      BY <3>1, <3>2, SeqEqual DEF Path
    <3>4. QED
      BY <3>3 DEF a, b
  <2>5. QED
    BY <2>2, <2>3, <2>4 DEF Front
<1>4. ASSUME p # <<>>, NEW n \in 0 .. Len(Front(p))
      PROVE  SubSeq(Front(p), 1, n) = SubSeq(p, 1, n) /\ n \in 0 .. Len(p)
  <2>1. Len(Front(p)) = Len(p) - 1 /\ n \in 0 .. Len(p)
    BY <1>4, FrontFacts DEF Path
  <2>2. /\ SubSeq(Front(p), 1, n) \in Path /\ Len(SubSeq(Front(p), 1, n)) = n
        /\ \A i \in 1 .. n : SubSeq(Front(p), 1, n)[i] = Front(p)[i]
    BY <1>4, FrontFacts DEF Path
  <2>3. \A i \in 1 .. n : SubSeq(Front(p), 1, n)[i] = p[i]
    <3>1. 1 .. n \subseteq 1 .. Len(p) - 1
      BY <1>4, <2>1 DEF Path
    <3>2. QED
      BY <1>4, <2>2, <3>1, FrontFacts
  <2>4. SubSeq(Front(p), 1, n) = SubSeq(p, 1, n)
    <3> DEFINE a == SubSeq(Front(p), 1, n)
               b == SubSeq(p, 1, n)
    <3>1. a \in Path /\ Len(a) = n /\ \A i \in 1 .. n : a[i] = p[i]
      BY <2>2, <2>3
    <3>2. b \in Path /\ Len(b) = n /\ \A i \in 1 .. n : b[i] = p[i]
      BY <1>2, <2>1
    <3> HIDE DEF a, b
    <3>3. a = b
      BY <3>1, <3>2, SeqEqual DEF Path
    <3>4. QED
      BY <3>3 DEF a, b
  <2>5. QED
    BY <2>1, <2>4
<1>5. p \in Ancestors(p) /\ Ancestors(p) \subseteq Path
  BY <1>1, <1>2 DEF Ancestors
<1>6. \A a \in Ancestors(p) : a # <<>> => Front(a) \in Ancestors(p)
  BY <1>3 DEF Ancestors
<1>7. p # <<>> => Ancestors(Front(p)) \subseteq Ancestors(p)
  BY <1>4 DEF Ancestors
<1>8. QED
  BY <1>5, <1>6, <1>7

(* The way from "/" to a path under the app's folder.                      *)
LEMMA AncestorsOfTarget ==
  ASSUME NEW r \in Path, NEW p \in Path, Under(p, r), NEW a \in Ancestors(p)
  PROVE  Under(a, r) \/ Under(r, a)
<1>1. PICK n \in 0 .. Len(p) : a = SubSeq(p, 1, n)
  BY DEF Ancestors
<1>2. a \in Path /\ Len(a) = n /\ \A i \in 1 .. n : a[i] = p[i]
  BY <1>1 DEF Path
<1>3. CASE Len(r) <= n
  BY <1>2, <1>3, UnderMeans DEF Path
<1>4. CASE n < Len(r)
  BY <1>2, <1>4, UnderMeans DEF Path
<1>5. QED
  BY <1>3, <1>4 DEF Path

LEMMA AncestorIsAbove ==
  ASSUME NEW p \in Path, NEW a \in Ancestors(p)
  PROVE  Under(p, a)
<1>1. PICK n \in 0 .. Len(p) : a = SubSeq(p, 1, n)
  BY DEF Ancestors
<1>2. a \in Path /\ Len(a) = n /\ \A i \in 1 .. n : a[i] = p[i]
  BY <1>1 DEF Path
<1>3. QED
  BY <1>2, UnderMeans DEF Path

LEMMA AppendFacts ==
  ASSUME NEW p \in Path, NEW x \in STRING
  PROVE  /\ Append(p, x) \in Path
         /\ \A q \in Path : Under(p, q) => Under(Append(p, x), q)
<1> DEFINE l == Append(p, x)
<1>1. /\ l \in Path /\ Len(l) = Len(p) + 1 /\ Len(p) \in Nat
      /\ \A i \in 1 .. Len(p) : l[i] = p[i]
  <2>1. /\ Append(p, x) \in Seq(STRING) /\ Len(Append(p, x)) = Len(p) + 1
        /\ \A i \in 1 .. Len(p) : Append(p, x)[i] = p[i]
    BY SMTT(60) DEF Path
  <2>2. Len(p) \in Nat
    BY DEF Path
  <2>3. QED
    BY <2>1, <2>2 DEF Path
<1> HIDE DEF l
<1>2. ASSUME NEW q \in Path, Under(p, q) PROVE Under(l, q)
  <2>1. Len(q) <= Len(p) /\ Len(q) \in Nat /\ \A i \in 1 .. Len(q) : p[i] = q[i]
    BY <1>2, UnderMeans DEF Path
  <2>2. Len(q) <= Len(l) /\ \A i \in 1 .. Len(q) : l[i] = q[i]
    BY <1>1, <2>1
  <2>3. QED
    BY <1>1, <2>2, UnderMeans
<1>3. QED
  BY <1>1, <1>2 DEF l

LEMMA ConcatFacts ==
  ASSUME NEW p \in Path, NEW q \in Path
  PROVE  p \o q \in Path /\ Under(p \o q, p)
<1> DEFINE l == p \o q
<1>1. /\ l \in Path /\ Len(l) = Len(p) + Len(q)
      /\ Len(p) \in Nat /\ Len(q) \in Nat
      /\ \A i \in 1 .. Len(p) : l[i] = p[i]
  BY ConcatProperties DEF Path
<1> HIDE DEF l
<1>2. Len(p) <= Len(l)
  BY <1>1
<1>3. Under(l, p)
  BY <1>1, <1>2, UnderMeans
<1>4. QED
  BY <1>1, <1>3 DEF l
-----------------------------------------------------------------------------
(* The inductive invariant: what a call has in hand, a tree, the open      *)
(* files, and that a write nobody came near has its file, truncated.       *)
Typed ==
  /\ kind \in {"pm2", "docker"}
  /\ pc \in [Calls -> Ops \cup {"idle", "resolve", "open", "fill"}]
  /\ op \in [Calls -> Ops] /\ rel \in [Calls -> Rels \cup {<<>>}]
  /\ body \in [Calls -> Given \cup {Empty}]
  /\ target \in [Calls -> Path] /\ place \in [Calls -> Path]
  /\ \A c \in Calls : Under(target[c], Root) /\ Shell(target[c]) \in Path
  /\ result \in [Calls -> {"none", "ok", "error"}]
  /\ open \subseteq Calls /\ unseen \subseteq Calls /\ disturbed \subseteq Calls

Requests ==
  \A c \in Calls :
    /\ pc[c] # "idle" /\ op[c] = "write" => body[c] \in Given
    /\ pc[c] \in Ops => op[c] = pc[c]
    /\ pc[c] \in {"open", "fill"} => op[c] = "write"
    /\ pc[c] = "resolve" => rel[c] \in Rels

Tree ==
  /\ DOMAIN fs \subseteq Path /\ \A p \in DOMAIN fs : fs[p] \in Node
  /\ \A p \in DOMAIN fs \ {<<>>} : IsDir(Front(p))
  /\ \A p \in DOMAIN fs : fs[p] = Link => p \in DOMAIN LinkTo

Opened ==
  \A c \in open :
    pc[c] = "fill" /\ place[c] \in DOMAIN fs /\ fs[place[c]] \notin {Dir, Link}

Filling ==
  \A c \in Calls \ disturbed :
    pc[c] = "fill" /\ Way(c) = target[c] =>
      /\ c \in open /\ place[c] = Real(fs, target[c])
      /\ place[c] \in DOMAIN fs /\ fs[place[c]] = Empty

Inv == Typed /\ Requests /\ Tree /\ Opened /\ Filling

CallStep(c) ==
  \/ \E r \in Rels : \/ \E o \in Ops \ {"write"} : Start(c, o, r, Empty)
                     \/ \E b \in Given : Start(c, "write", r, b)
  \/ Resolve(c) \/ Denied(c) \/ Look(c)
  \/ MakeParents(c) \/ Open(c) \/ Fill(c)
  \/ Delete(c) \/ CreateDir(c)
  \/ WorkFails(c) \/ Breaks(c) \/ BreaksOff(c)

LEMMA NextIsCallStep == Next <=> \E c \in Calls : CallStep(c)
  BY DEF Next, CallStep

LEMMA InvImpliesTypeOK == Inv => TypeOK
  BY DEF Inv, Typed, Tree, Opened, TypeOK, IsDir

LEMMA NodeFacts ==
  /\ {Dir, Empty, Mixed} \subseteq Node /\ Link # Dir
  /\ {Empty, Mixed} \cap {Dir, Link} = {}
  /\ \A b \in Given : AsStored(b) \in Node \ {Dir, Link}
<1>1. Link # Dir /\ {Empty, Mixed} \cap {Dir, Link} = {}
  <2>1. /\ Link.text = "link" /\ Dir.text = "dir"
        /\ Empty.text = "empty" /\ Mixed.text = "mixed"
    BY DEF Empty, Mixed, Dir, Link
  <2>2. QED
    BY <2>1
<1>2. ASSUME NEW b \in Given
      PROVE  AsStored(b) \in Stored /\ AsStored(b).text \in Texts
  BY DEF AsStored, Given, Stored
<1>3. Dir.text \notin Texts /\ Link.text \notin Texts
  BY FileConstantsOK DEF Dir, Link
<1>4. QED
  BY <1>1, <1>2, <1>3 DEF Node

(* Where a path leads.                                                     *)
LEMMA LinkFacts ==
  ASSUME Tree, NEW p \in Path, NEW a \in LinksOn(fs, p)
  PROVE  a \in DOMAIN LinkTo /\ a \in Path /\ LinkTo[a] \in Path
         /\ Behind(a, p) \in Path /\ Under(Behind(a, p), LinkTo[a])
<1>1. a \in DOMAIN LinkTo /\ a \in Path /\ LinkTo[a] \in Path
  BY FileConstantsOK DEF Tree, LinksOn, Path
<1>2. SubSeq(p, Len(a) + 1, Len(p)) \in Path
  BY <1>1 DEF Path
<1>3. QED
  BY <1>1, <1>2, ConcatFacts DEF Behind

LEMMA RealFacts ==
  ASSUME Tree, NEW p \in Path
  PROVE  /\ Real(fs, p) \in Path
         /\ LinksOn(fs, p) # {} =>
              \E a \in LinksOn(fs, p) : Under(Real(fs, p), LinkTo[a])
<1>1. CASE LinksOn(fs, p) = {}
  BY <1>1 DEF Real
<1>2. CASE LinksOn(fs, p) # {}
  <2>1. PICK a \in LinksOn(fs, p) : Real(fs, p) = Behind(a, p)
    BY <1>2 DEF Real
  <2>2. QED
    BY <2>1, LinkFacts
<1>3. QED
  BY <1>1, <1>2

LEMMA EntryFacts ==
  ASSUME Tree, NEW p \in Path
  PROVE  /\ Entry(fs, p) \in Path
         /\ LinksOn(fs, p) = {} => Entry(fs, p) = p
<1>1. CASE p = <<>>
  BY <1>1 DEF Entry
<1>2. CASE p # <<>>
  <2>1. Front(p) \in Path /\ Last(p) \in STRING /\ p = Append(Front(p), Last(p))
    <3>1. Len(p) \in Nat \ {0}
      BY <1>2, EmptySeq DEF Path
    <3>2. Last(p) \in STRING
      BY <3>1, ElementOfSeq DEF Last, Path
    <3>3. /\ Append(Front(p), Last(p)) \in Path
          /\ Len(Append(Front(p), Last(p))) = Len(p)
          /\ \A i \in 1 .. Len(p) : Append(Front(p), Last(p))[i] = p[i]
      <4> DEFINE f == Front(p)
      <4>1. f \in Path /\ Len(f) = Len(p) - 1 /\ \A i \in 1 .. Len(p) - 1 : f[i] = p[i]
        BY <1>2, FrontFacts
      <4>2. Last(p) = p[Len(p)]
        BY DEF Last
      <4> HIDE DEF f
      <4>3. /\ Append(f, Last(p)) \in Path
            /\ Len(Append(f, Last(p))) = Len(p)
            /\ \A i \in 1 .. Len(p) : Append(f, Last(p))[i] = p[i]
        BY <3>1, <3>2, <4>1, <4>2 DEF Path
      <4>4. QED
        BY <4>3 DEF f
    <3>4. p = Append(Front(p), Last(p))
      BY <3>3, SeqEqual DEF Path
    <3>5. QED
      BY <1>2, <3>2, <3>4, FrontFacts
  <2>2. Entry(fs, p) \in Path
    BY <1>2, <2>1, RealFacts, AppendFacts DEF Entry
  <2>3. ASSUME LinksOn(fs, p) = {} PROVE Entry(fs, p) = p
    <3>1. LinksOn(fs, Front(p)) = {}
      BY <1>2, <2>3, AncestorFacts DEF LinksOn
    <3>2. QED
      BY <1>2, <2>1, <3>1 DEF Entry, Real
  <2>4. QED
    BY <2>2, <2>3
<1>3. QED
  BY <1>1, <1>2

LEMMA WayInPath ==
  ASSUME Typed, NEW c \in Calls
  PROVE  Way(c) \in Path
  BY DEF Typed, Way

(* What a path leads to depends only on the links on it.                   *)
LEMMA SameLinks ==
  ASSUME NEW p, LinksOn(fs', p) = LinksOn(fs, p)
  PROVE  Real(fs', p) = Real(fs, p)
  BY DEF Real
-----------------------------------------------------------------------------
(* Changes of the tree.                                                    *)
LEMMA MakeKeepsTree ==
  ASSUME Tree, NEW p \in Path, CanMake(p), Make(p)
  PROVE  /\ Tree' /\ \A q \in DOMAIN fs : q \in DOMAIN fs' /\ fs'[q] = fs[q]
         /\ Real(fs, p) \in DOMAIN fs' /\ fs'[Real(fs, p)] = Dir
         /\ Changed \subseteq Ancestors(Real(fs, p)) \ DOMAIN fs
         /\ \A q : LinksOn(fs', q) = LinksOn(fs, q)
<1> DEFINE r == Real(fs, p)
<1>1. r \in Path
  BY RealFacts
<1>2. /\ DOMAIN fs' = DOMAIN fs \cup Ancestors(r)
      /\ \A q \in Ancestors(r) : fs'[q] = Dir
      /\ \A q \in DOMAIN fs \ Ancestors(r) : fs'[q] = fs[q]
  BY DEF Make, With
<1>3. \A q \in DOMAIN fs : q \in DOMAIN fs' /\ fs'[q] = fs[q]
  BY <1>2 DEF CanMake
<1> HIDE DEF r
<1>4. r \in DOMAIN fs' /\ fs'[r] = Dir
  BY <1>1, <1>2, AncestorFacts
<1>5. DOMAIN fs' \subseteq Path /\ \A q \in DOMAIN fs' : fs'[q] \in Node
  BY <1>1, <1>2, AncestorFacts, NodeFacts DEF Tree
<1>6. ASSUME NEW q \in DOMAIN fs' \ {<<>>} PROVE IsDir(Front(q))'
  <2>1. CASE q \in DOMAIN fs
    BY <1>3, <1>6, <2>1 DEF Tree, IsDir
  <2>2. CASE q \in Ancestors(r)
    BY <1>1, <1>2, <1>6, <2>2, AncestorFacts DEF IsDir
  <2>3. QED
    BY <1>2, <2>1, <2>2
<1>7. Changed \subseteq Ancestors(r) \ DOMAIN fs
  BY <1>2, <1>3 DEF Changed
<1>8. \A q \in DOMAIN fs' : fs'[q] = Link <=> (q \in DOMAIN fs /\ fs[q] = Link)
  BY <1>2, <1>3, NodeFacts
<1>9. \A q : LinksOn(fs', q) = LinksOn(fs, q)
  BY <1>3, <1>8 DEF LinksOn
<1>10. Tree'
  BY <1>5, <1>6, <1>8 DEF Tree
<1>11. QED
  BY <1>3, <1>4, <1>7, <1>9, <1>10 DEF r

LEMMA WriteKeepsTree ==
  ASSUME Tree, NEW t \in Path, t \in DOMAIN fs \/ IsDir(Front(t)),
         t \in DOMAIN fs => fs[t] \notin {Dir, Link},
         NEW n \in Node \ {Dir, Link}, fs' = With({t}, n)
  PROVE  /\ Tree' /\ t \in DOMAIN fs' /\ fs'[t] = n
         /\ \A q \in DOMAIN fs : q \in DOMAIN fs' /\ (q # t => fs'[q] = fs[q])
         /\ Changed \subseteq {t}
         /\ \A q : LinksOn(fs', q) = LinksOn(fs, q)
<1>1. /\ DOMAIN fs' = DOMAIN fs \cup {t} /\ fs'[t] = n
      /\ \A q \in DOMAIN fs \ {t} : fs'[q] = fs[q]
  BY DEF With
<1>2. DOMAIN fs' \subseteq Path /\ \A q \in DOMAIN fs' : fs'[q] \in Node
  BY <1>1 DEF Tree
<1>3. ASSUME NEW q \in DOMAIN fs' \ {<<>>} PROVE IsDir(Front(q))'
  <2>1. IsDir(Front(q))
    BY <1>1 DEF Tree
  <2>2. QED
    BY <1>1, <2>1 DEF IsDir
<1>4. \A q \in DOMAIN fs' : fs'[q] = Link <=> (q \in DOMAIN fs /\ fs[q] = Link)
  BY <1>1
<1>5. \A q : LinksOn(fs', q) = LinksOn(fs, q)
  BY <1>1, <1>4 DEF LinksOn
<1>6. Changed \subseteq {t}
  BY <1>1 DEF Changed
<1>7. Tree'
  BY <1>2, <1>3, <1>4 DEF Tree
<1>8. QED
  BY <1>1, <1>5, <1>6, <1>7

LEMMA DeleteKeepsTree ==
  ASSUME Tree, NEW t \in Path, NEW paths,
         paths = {p \in DOMAIN fs : Under(p, t)}, fs' = Without(paths)
  PROVE  /\ Tree' /\ DOMAIN fs' = DOMAIN fs \ paths
         /\ \A q \in DOMAIN fs' : fs'[q] = fs[q]
         /\ Changed = paths
<1>1. DOMAIN fs' = DOMAIN fs \ paths /\ \A q \in DOMAIN fs' : fs'[q] = fs[q]
  BY DEF Without
<1>2. ASSUME NEW q \in DOMAIN fs' \ {<<>>} PROVE IsDir(Front(q))'
  <2>1. q \in Path /\ IsDir(Front(q)) /\ ~Under(q, t)
    BY <1>1 DEF Tree
  <2>2. ~Under(Front(q), t)
    BY <1>2, <2>1, FrontFacts
  <2>3. QED
    BY <1>1, <2>1, <2>2 DEF IsDir
<1>3. Changed = paths
  BY <1>1 DEF Changed
<1>4. Tree'
  BY <1>1, <1>2 DEF Tree
<1>5. QED
  BY <1>1, <1>3, <1>4

(* What is removed takes no link with it that led to it.                   *)
LEMMA DeleteKeepsWay ==
  ASSUME Tree, NEW p \in Path, p # <<>>,
         fs' = Without({q \in DOMAIN fs : Under(q, Entry(fs, p))})
  PROVE  Entry(fs', p) = Entry(fs, p)
<1> DEFINE f == Front(p)
           e == Entry(fs, p)
<1>1. /\ f \in Path /\ Len(f) = Len(p) - 1 /\ e = Append(Real(fs, f), Last(p))
      /\ e \in Path /\ Real(fs, f) \in Path
  BY FrontFacts, EntryFacts, RealFacts DEF Entry
<1>2. ASSUME NEW b \in LinksOn(fs, f), Under(b, e) PROVE FALSE
  <2>1. b \in Path /\ b \in DOMAIN LinkTo
    BY <1>1, LinkFacts
  <2>2. PICK a \in LinksOn(fs, f) : Under(Real(fs, f), LinkTo[a])
    BY <1>1, <1>2, RealFacts
  <2>3. LinkTo[a] \in Path /\ a \in DOMAIN LinkTo
    BY <1>1, LinkFacts
  <2>4. Last(p) \in STRING
    <3>1. Len(p) \in Nat \ {0}
      BY EmptySeq DEF Path
    <3>2. QED
      BY <3>1, ElementOfSeq DEF Last, Path
  <2>5. Under(e, LinkTo[a])
    BY <1>1, <2>2, <2>3, <2>4, AppendFacts
  <2>6. Under(b, LinkTo[a])
    BY <1>1, <1>2, <2>1, <2>3, <2>5, UnderTransitive
  <2>7. QED
    BY <2>1, <2>3, <2>6, FileConstantsOK
<1>3. /\ DOMAIN fs' = DOMAIN fs \ {q \in DOMAIN fs : Under(q, e)}
      /\ \A q \in DOMAIN fs' : fs'[q] = fs[q]
  BY DEF Without
<1>4. LinksOn(fs', f) = LinksOn(fs, f)
  BY <1>2, <1>3 DEF LinksOn
<1>5. QED
  BY <1>4, SameLinks DEF Entry

(* What a change of the file system is to those it does not disturb.       *)
LEMMA Elsewhere ==
  ASSUME NEW q \in Calls, NoteChange(q),
         NEW c \in Calls, c # q, c \notin disturbed', Works(c),
         NEW s \in Spots(c), NEW p, Under(p, s) \/ Under(s, p)
  PROVE  /\ c \notin disturbed
         /\ p \in DOMAIN fs <=> p \in DOMAIN fs'
         /\ p \in DOMAIN fs => fs'[p] = fs[p]
<1>1. c \notin disturbed /\ p \notin Changed
  BY DEF NoteChange
<1>2. QED
  BY <1>1 DEF Changed
-----------------------------------------------------------------------------
LEMMA InitInv == Init => Inv
<1> SUFFICES ASSUME Init PROVE Inv
  OBVIOUS
<1>1. Root \in Path /\ Under(Root, Root) /\ Shell(Root) \in Path
  BY FileConstantsOK, UnderSelf DEF Path
<1>2. Typed
  BY <1>1 DEF Init, Typed, Ops
<1>3. Tree
  BY FileConstantsOK DEF Init, Tree, IsDir, Path
<1>4. Requests /\ Opened /\ Filling
  BY DEF Init, Requests, Opened, Filling, Ops
<1>5. QED
  BY <1>2, <1>3, <1>4 DEF Inv

LEMMA StutterInv == Inv /\ UNCHANGED vars => Inv'
<1> SUFFICES ASSUME Inv, UNCHANGED vars PROVE Inv'
  OBVIOUS
<1> USE DEF vars, request
<1>1. Typed' /\ Requests'
  BY DEF Inv, Typed, Requests
<1>2. Tree' /\ Opened'
  BY DEF Inv, Tree, IsDir, Opened
<1>3. Filling'
  BY DEF Inv, Filling, Way
<1>4. QED
  BY <1>1, <1>2, <1>3 DEF Inv

LEMMA AnswersTyped ==
  ASSUME Typed, NEW c \in Calls, NEW r \in {"ok", "error"}, Answers(c, r),
         open' \subseteq Calls, unseen' \subseteq Calls, disturbed' \subseteq Calls
  PROVE  Typed'
<1>1. Root \in Path /\ Under(Root, Root) /\ Shell(Root) \in Path
  BY FileConstantsOK, UnderSelf DEF Path
<1>2. /\ target' = [target EXCEPT ![c] = Root] /\ place' = [place EXCEPT ![c] = Root]
      /\ kind' = kind
  BY DEF Answers
<1>3. /\ target' \in [Calls -> Path] /\ place' \in [Calls -> Path]
      /\ \A q \in Calls : Under(target'[q], Root) /\ Shell(target'[q]) \in Path
  BY <1>1, <1>2 DEF Typed
<1>4. /\ pc' \in [Calls -> Ops \cup {"idle", "resolve", "open", "fill"}]
      /\ op' \in [Calls -> Ops] /\ rel' \in [Calls -> Rels \cup {<<>>}]
      /\ body' \in [Calls -> Given \cup {Empty}]
      /\ result' \in [Calls -> {"none", "ok", "error"}]
  BY DEF Typed, Answers, Ops
<1>5. QED
  BY <1>2, <1>3, <1>4 DEF Typed

LEMMA TypedStep ==
  ASSUME Inv, NEW c \in Calls, CallStep(c)
  PROVE  Typed'
<1>1. Typed /\ Tree
  BY DEF Inv
<1>2. Root \in Path
  BY FileConstantsOK DEF Path
<1>3. ASSUME NEW r \in Rels, NEW o \in Ops, NEW b \in Given \cup {Empty},
             Start(c, o, r, b)
      PROVE  Typed'
  BY <1>1, <1>3 DEF Typed, Start, Moves, Ops
<1>4. CASE Resolve(c)
  <2>1. rel[c] \in Rels /\ op[c] \in Ops
    BY <1>1, <1>4 DEF Inv, Requests, Resolve, Moves, Typed
  <2>2. PICK p \in SafeJoin(Root, rel[c]) : target' = [target EXCEPT ![c] = p]
    BY <1>4 DEF Resolve
  <2>3. p \in Path /\ Under(p, Root) /\ Shell(p) \in Path
    BY <1>2, <2>1, <2>2, UnderSelf, FileConstantsOK DEF SafeJoin, Path
  <2>4. pc' = [pc EXCEPT ![c] = op[c]]
        /\ UNCHANGED <<kind, op, rel, body, place, open, result, unseen, disturbed>>
    BY <1>4 DEF Resolve, Moves, request
  <2>5. /\ target' \in [Calls -> Path]
        /\ \A q \in Calls : Under(target'[q], Root) /\ Shell(target'[q]) \in Path
    BY <1>1, <2>2, <2>3 DEF Typed
  <2>6. QED
    BY <1>1, <2>1, <2>4, <2>5 DEF Typed
<1>5. CASE Denied(c) \/ Look(c) \/ Breaks(c)
  <2>1. /\ \E r \in {"ok", "error"} : Answers(c, r)
        /\ open' \subseteq open /\ UNCHANGED <<unseen, disturbed>>
    BY <1>5 DEF Denied, Look, Breaks
  <2>2. QED
    BY <1>1, <2>1, AnswersTyped DEF Typed
<1>6. CASE WorkFails(c)
  <2>1. /\ \E r \in {"ok", "error"} : Answers(c, r)
        /\ open' \subseteq open /\ disturbed' = disturbed
        /\ unseen' \subseteq unseen \cup {c}
    BY <1>6 DEF WorkFails, Fails
  <2>2. QED
    BY <1>1, <2>1, AnswersTyped DEF Typed
<1>7. CASE Fill(c) \/ Delete(c) \/ CreateDir(c)
  <2>1. Answers(c, "ok") /\ open' \subseteq open /\ unseen' = unseen /\ NoteChange(c)
    BY <1>7 DEF Fill, Delete, CreateDir
  <2>2. disturbed' \subseteq Calls
    BY <1>1, <2>1 DEF NoteChange, Typed
  <2>3. QED
    BY <1>1, <2>1, <2>2, AnswersTyped DEF Typed
<1>8. CASE MakeParents(c)
  BY <1>1, <1>8 DEF Typed, MakeParents, Moves, NoteChange, request
<1>9. CASE Open(c)
  <2>1. Real(fs, Way(c)) \in Path
    BY <1>1, WayInPath, RealFacts
  <2>2. QED
    BY <1>1, <1>9, <2>1 DEF Typed, Open, Opens, Moves, NoteChange, request
<1>10. CASE BreaksOff(c)
  BY <1>1, <1>10 DEF Typed, BreaksOff, request
<1>11. QED
  BY <1>3, <1>4, <1>5, <1>6, <1>7, <1>8, <1>9, <1>10 DEF CallStep, Ops

LEMMA RequestsStep ==
  ASSUME Inv, NEW c \in Calls, CallStep(c)
  PROVE  Requests'
<1>1. Typed /\ Requests
  BY DEF Inv
<1>2. ASSUME NEW r \in Rels, NEW o \in Ops, NEW b, Start(c, o, r, b),
             o = "write" => b \in Given
      PROVE  Requests'
  BY <1>1, <1>2 DEF Typed, Requests, Start, Moves, Ops
<1>3. CASE Resolve(c)
  <2>1. /\ pc[c] = "resolve" /\ pc' = [pc EXCEPT ![c] = op[c]]
        /\ UNCHANGED <<op, rel, body>>
    BY <1>3 DEF Resolve, Moves, request
  <2>2. op[c] \in Ops
    BY <1>1 DEF Typed
  <2>3. QED
    BY <1>1, <2>1, <2>2 DEF Typed, Requests, Ops
<1>4. ASSUME NEW r, Answers(c, r) PROVE Requests'
  <2>1. /\ pc' = [pc EXCEPT ![c] = "idle"] /\ op' = [op EXCEPT ![c] = "read"]
        /\ rel' = [rel EXCEPT ![c] = <<>>] /\ body' = [body EXCEPT ![c] = Empty]
    BY <1>4 DEF Answers
  <2>2. QED
    BY <1>1, <2>1 DEF Typed, Requests, Ops
<1>5. CASE MakeParents(c) \/ Open(c)
  BY <1>1, <1>5 DEF Typed, Requests, MakeParents, Open, Opens, Moves, request, Ops
<1>6. CASE BreaksOff(c)
  BY <1>1, <1>6 DEF Requests, BreaksOff, request
<1>7. CASE \/ Denied(c) \/ Look(c) \/ Fill(c) \/ Delete(c) \/ CreateDir(c)
           \/ WorkFails(c) \/ Breaks(c)
  BY <1>4, <1>7 DEF Denied, Look, Fill, Delete, CreateDir, WorkFails, Breaks, Fails
<1>8. QED
  BY <1>2, <1>3, <1>5, <1>6, <1>7 DEF CallStep, Ops

(* What a step does to the files: the tree stays one, and the files of     *)
(* open writes stay.                                                       *)
LEMMA FilesStep ==
  ASSUME Inv, NEW c \in Calls, CallStep(c)
  PROVE  Tree' /\ Opened'
<1>1. Typed /\ Requests /\ Tree /\ Opened /\ Way(c) \in Path
  BY WayInPath DEF Inv
<1>2. ASSUME fs' = fs, open' \subseteq open,
             \A q \in open' : pc'[q] = pc[q] /\ place'[q] = place[q]
      PROVE  Tree' /\ Opened'
  BY <1>1, <1>2 DEF Tree, Opened, IsDir
<1>3. CASE \/ \E r, o, b : Start(c, o, r, b)
           \/ Resolve(c) \/ Denied(c) \/ Look(c)
  <2>1. c \notin open /\ open' = open /\ fs' = fs
    BY <1>1, <1>3 DEF Opened, Start, Resolve, Denied, Look, Moves, Typed, Ops
  <2>2. \A q \in Calls \ {c} : pc'[q] = pc[q] /\ place'[q] = place[q]
    BY <1>1, <1>3 DEF Typed, Start, Resolve, Denied, Look, Moves, Answers
  <2>3. QED
    BY <1>1, <1>2, <2>1, <2>2 DEF Typed
<1>4. CASE WorkFails(c) \/ Breaks(c)
  <2>1. open' = open \ {c} /\ fs' = fs
    BY <1>4 DEF WorkFails, Breaks, Fails
  <2>2. \A q \in Calls \ {c} : pc'[q] = pc[q] /\ place'[q] = place[q]
    BY <1>1, <1>4 DEF Typed, WorkFails, Breaks, Fails, Answers
  <2>3. QED
    BY <1>1, <1>2, <2>1, <2>2 DEF Typed
<1>5. CASE BreaksOff(c)
  BY <1>1, <1>2, <1>5 DEF BreaksOff
<1>6. CASE MakeParents(c) \/ CreateDir(c)
  <2>1. PICK p \in Path : CanMake(p) /\ Make(p)
    BY <1>1, <1>6, FrontFacts DEF MakeParents, CreateDir
  <2>2. Tree' /\ \A q \in DOMAIN fs : q \in DOMAIN fs' /\ fs'[q] = fs[q]
    BY <1>1, <2>1, MakeKeepsTree
  <2>3. c \notin open /\ open' = open
    BY <1>1, <1>6 DEF Opened, MakeParents, CreateDir, Moves
  <2>4. \A q \in Calls \ {c} : pc'[q] = pc[q] /\ place'[q] = place[q]
    BY <1>1, <1>6 DEF Typed, MakeParents, CreateDir, Moves, Answers
  <2>5. QED
    BY <1>1, <2>2, <2>3, <2>4 DEF Opened, Typed
<1>7. CASE Open(c)
  <2> DEFINE t == Real(fs, Way(c))
  <2>1. t \in Path
    BY <1>1, RealFacts
  <2>2. /\ fs' = With({t}, Empty) /\ IsDir(Front(t))
        /\ t \in DOMAIN fs => fs[t] \notin {Dir, Link}
        /\ place' = [place EXCEPT ![c] = t] /\ open' = open \cup {c}
        /\ pc' = [pc EXCEPT ![c] = "fill"]
    BY <1>7 DEF Open, Opens, CanOpen, Moves
  <2> HIDE DEF t
  <2>3. /\ Tree' /\ t \in DOMAIN fs' /\ fs'[t] = Empty
        /\ \A q \in DOMAIN fs : q \in DOMAIN fs' /\ (q # t => fs'[q] = fs[q])
    BY <1>1, <2>1, <2>2, WriteKeepsTree, NodeFacts
  <2>4. ASSUME NEW q \in open'
        PROVE  pc'[q] = "fill" /\ place'[q] \in DOMAIN fs'
               /\ fs'[place'[q]] \notin {Dir, Link}
    <3>1. CASE q = c
      BY <1>1, <2>2, <2>3, <3>1, NodeFacts DEF Typed
    <3>2. CASE q # c
      BY <1>1, <2>2, <2>3, <2>4, <3>2, NodeFacts DEF Opened, Typed
    <3>3. QED
      BY <3>1, <3>2
  <2>5. QED
    BY <2>3, <2>4 DEF Opened
<1>8. CASE Fill(c)
  <2>1. /\ open' = open \ {c}
        /\ pc[c] = "fill"
        /\ \A q \in Calls \ {c} : pc'[q] = pc[q] /\ place'[q] = place[q]
    BY <1>1, <1>8 DEF Fill, Answers, Typed
  <2>2. CASE c \notin open
    <3>1. fs' = fs
      BY <1>8, <2>2 DEF Fill
    <3>2. QED
      BY <1>1, <1>2, <2>1, <2>2, <3>1 DEF Typed
  <2>3. CASE c \in open
    <3>1. body[c] \in Given
      BY <1>1, <2>1 DEF Requests
    <3>2. PICK n \in Node \ {Dir, Link} : fs' = With({place[c]}, n)
      BY <1>8, <2>3, <3>1, NodeFacts DEF Fill
    <3>3. /\ place[c] \in DOMAIN fs /\ place[c] \in Path
          /\ fs[place[c]] \notin {Dir, Link}
      BY <1>1, <2>3 DEF Opened, Typed
    <3>4. /\ Tree' /\ place[c] \in DOMAIN fs' /\ fs'[place[c]] = n
          /\ \A q \in DOMAIN fs :
               q \in DOMAIN fs' /\ (q # place[c] => fs'[q] = fs[q])
      BY <1>1, <3>2, <3>3, WriteKeepsTree
    <3>5. ASSUME NEW q \in open'
          PROVE  pc'[q] = "fill" /\ place'[q] \in DOMAIN fs'
                 /\ fs'[place'[q]] \notin {Dir, Link}
      <4>1. q \in Calls \ {c} /\ q \in open
        BY <1>1, <2>1, <3>5 DEF Typed
      <4>2. /\ pc[q] = "fill" /\ place[q] \in DOMAIN fs
            /\ fs[place[q]] \notin {Dir, Link}
        BY <1>1, <4>1 DEF Opened
      <4>3. QED
        BY <2>1, <3>2, <3>4, <4>1, <4>2
    <3>6. QED
      BY <3>4, <3>5 DEF Opened
  <2>4. QED
    BY <2>2, <2>3
<1>9. CASE Delete(c)
  <2> DEFINE paths == {p \in DOMAIN fs : Under(p, Entry(fs, Way(c)))}
  <2>1. /\ fs' = Without(paths) /\ open' = {q \in open : place[q] \notin paths}
        /\ pc[c] = "delete"
        /\ \A q \in Calls \ {c} : pc'[q] = pc[q] /\ place'[q] = place[q]
    BY <1>1, <1>9 DEF Delete, Answers, Typed
  <2>2. /\ Tree' /\ DOMAIN fs' = DOMAIN fs \ paths
        /\ \A q \in DOMAIN fs' : fs'[q] = fs[q]
    <3>1. Entry(fs, Way(c)) \in Path
      BY <1>1, EntryFacts
    <3>2. QED
      BY <1>1, <2>1, <3>1, DeleteKeepsTree
  <2> HIDE DEF paths
  <2>3. QED
    BY <1>1, <2>1, <2>2 DEF Opened, Typed
<1>10. QED
  BY <1>3, <1>4, <1>5, <1>6, <1>7, <1>8, <1>9 DEF CallStep

(* A step as the other calls see it: unless it disturbs them, nothing      *)
(* changes above or below the paths they work on.                          *)
LEMMA Others ==
  ASSUME Inv, NEW c \in Calls, CallStep(c), NEW q \in Calls, q # c
  PROVE  /\ pc'[q] = pc[q] /\ target'[q] = target[q] /\ place'[q] = place[q]
         /\ kind' = kind /\ result'[q] = result[q]
         /\ Works(q) /\ q \notin disturbed' =>
              \A s \in Spots(q) : \A p : Under(p, s) \/ Under(s, p) =>
                /\ p \in DOMAIN fs <=> p \in DOMAIN fs'
                /\ p \in DOMAIN fs => fs'[p] = fs[p]
         /\ q \notin disturbed' => q \notin disturbed
<1>1. Typed
  BY DEF Inv
<1>2. CASE \E r, o, b : Start(c, o, r, b)
  BY <1>1, <1>2 DEF Typed, Start, Moves
<1>3. CASE Resolve(c)
  BY <1>1, <1>3 DEF Typed, Resolve, Moves
<1>4. CASE Denied(c) \/ Look(c) \/ WorkFails(c) \/ Breaks(c)
  <2>1. fs' = fs /\ disturbed' = disturbed /\ \E r : Answers(c, r)
    BY <1>4 DEF Denied, Look, WorkFails, Breaks, Fails
  <2>2. QED
    BY <1>1, <2>1 DEF Typed, Answers
<1>5. CASE BreaksOff(c)
  BY <1>1, <1>5 DEF Typed, BreaksOff
<1>6. CASE \/ MakeParents(c) \/ Open(c) \/ Fill(c)
           \/ Delete(c) \/ CreateDir(c)
  <2>1. NoteChange(c)
    BY <1>6 DEF MakeParents, Open, Opens, Fill, Delete, CreateDir
  <2>2. /\ kind' = kind /\ target'[q] = target[q] /\ place'[q] = place[q]
        /\ pc'[q] = pc[q] /\ result'[q] = result[q]
    BY <1>1, <1>6
    DEF Typed, MakeParents, Open, Opens, Fill, Delete, CreateDir, Moves, Answers
  <2>3. disturbed \subseteq disturbed'
    BY <2>1 DEF NoteChange
  <2>4. QED
    BY <2>1, <2>2, <2>3, Elsewhere
<1>7. QED
  BY <1>2, <1>3, <1>4, <1>5, <1>6 DEF CallStep

LEMMA FillingStep ==
  ASSUME Inv, NEW c \in Calls, CallStep(c)
  PROVE  Filling'
<1>1. Typed /\ Filling /\ Tree
  BY DEF Inv
<1> SUFFICES ASSUME NEW q \in Calls \ disturbed', pc'[q] = "fill",
                    Way(q)' = target'[q]
             PROVE  /\ q \in open' /\ place'[q] = Real(fs', target'[q])
                    /\ place'[q] \in DOMAIN fs' /\ fs'[place'[q]] = Empty
  BY DEF Filling
<1>2. CASE q = c /\ BreaksOff(c)
  BY <1>1, <1>2 DEF BreaksOff, Filling, Way
<1>3. CASE q = c /\ ~BreaksOff(c)
  <2>1. Open(c)
    <3>1. pc'[c] = "fill"
      BY <1>3
    <3>2. \A r, o, b : ~Start(c, o, r, b)
      BY <1>1, <3>1 DEF Typed, Start, Moves
    <3>3. ~Resolve(c) /\ ~MakeParents(c)
      BY <1>1, <3>1 DEF Typed, Resolve, MakeParents, Moves, Ops
    <3>4. \A r : ~Answers(c, r)
      BY <1>1, <3>1 DEF Typed, Answers
    <3>5. QED
      BY <1>3, <3>2, <3>3, <3>4
      DEF CallStep, Denied, Look, Fill, Delete, CreateDir, WorkFails, Breaks, Fails
  <2>2. /\ target'[c] = target[c] /\ Way(c) = target[c] /\ Way(c) \in Path
    BY <1>1, <1>3, <2>1, WayInPath DEF Open, Opens, Way
  <2> DEFINE t == Real(fs, Way(c))
  <2>3. t \in Path
    BY <1>1, <2>2, RealFacts
  <2>4. /\ fs' = With({t}, Empty) /\ IsDir(Front(t))
        /\ t \in DOMAIN fs => fs[t] \notin {Dir, Link}
        /\ place'[c] = t /\ c \in open'
    BY <1>1, <2>1 DEF Open, Opens, CanOpen, Typed
  <2>5. /\ t \in DOMAIN fs' /\ fs'[t] = Empty
        /\ LinksOn(fs', target[c]) = LinksOn(fs, target[c])
    <3> HIDE DEF t
    <3>1. QED
      BY <1>1, <2>3, <2>4, WriteKeepsTree, NodeFacts
  <2>6. QED
    BY <1>3, <2>2, <2>4, <2>5, SameLinks
<1>4. CASE q # c
  <2>1. /\ pc[q] = "fill" /\ q \notin disturbed /\ target'[q] = target[q]
        /\ place'[q] = place[q] /\ Way(q) = target[q]
        /\ \A s \in Spots(q) : \A p : Under(p, s) \/ Under(s, p) =>
             /\ p \in DOMAIN fs <=> p \in DOMAIN fs'
             /\ p \in DOMAIN fs => fs'[p] = fs[p]
    BY <1>4, Others DEF Works, Way
  <2>2. /\ q \in open /\ place[q] = Real(fs, target[q])
        /\ place[q] \in DOMAIN fs /\ fs[place[q]] = Empty
    BY <1>1, <2>1 DEF Filling
  <2>3. place[q] \in DOMAIN fs' /\ fs'[place[q]] = Empty
    <3>1. Under(place[q], place[q]) /\ place[q] \in Spots(q)
      BY <1>1, <2>2, UnderSelf DEF Typed, Spots
    <3>2. QED
      BY <2>1, <2>2, <3>1
  <2>4. LinksOn(fs', target[q]) = LinksOn(fs, target[q])
    <3>1. target[q] \in Path /\ target[q] \in Spots(q)
      BY <1>1 DEF Typed, Spots
    <3>2. \A p \in Ancestors(target[q]) :
            /\ p \in DOMAIN fs <=> p \in DOMAIN fs'
            /\ p \in DOMAIN fs => fs'[p] = fs[p]
      BY <2>1, <3>1, AncestorIsAbove
    <3>3. QED
      BY <3>2 DEF LinksOn
  <2>5. q \in open'
    <3>1. CASE Delete(c)
      <4> DEFINE paths == {p \in DOMAIN fs : Under(p, Entry(fs, Way(c)))}
      <4>1. fs' = Without(paths) /\ open' = {o \in open : place[o] \notin paths}
        BY <3>1 DEF Delete
      <4> HIDE DEF paths
      <4>2. QED
        BY <2>2, <2>3, <4>1 DEF Without
    <3>2. CASE ~Delete(c)
      <4>1. open \ {c} \subseteq open'
        BY <3>2
        DEF CallStep, Start, Resolve, Denied, Look, MakeParents, Open, Opens,
            Fill, CreateDir, WorkFails, Fails, Breaks, BreaksOff
      <4>2. QED
        BY <1>4, <2>2, <4>1
    <3>3. QED
      BY <3>1, <3>2
  <2>6. QED
    BY <2>1, <2>2, <2>3, <2>4, <2>5, SameLinks
<1>5. QED
  BY <1>2, <1>3, <1>4

LEMMA StepInv == Inv /\ [Next]_vars => Inv'
<1>1. ASSUME Inv, NEW c \in Calls, CallStep(c) PROVE Inv'
  BY <1>1, TypedStep, RequestsStep, FilesStep, FillingStep DEF Inv
<1>2. QED
  BY <1>1, StutterInv, NextIsCallStep

LEMMA Invariance == Spec => []Inv
  BY InitInv, StepInv, PTL DEF Spec
-----------------------------------------------------------------------------
(* What a call has done when it answers.                                   *)
LEMMA SuccessStep ==
  ASSUME Inv, NEW c \in Calls, CallStep(c), NEW q \in Calls,
         q \notin unseen', q \notin disturbed,
         result[q] = "none", result'[q] = "ok", Way(q) = target[q]
  PROVE  Effect(q, fs')
<1>1. Typed /\ Requests /\ Tree /\ Filling
  BY DEF Inv
<1>2. q = c
  BY Others
<1>3. target[c] \in Path /\ op[c] \in Ops /\ Way(c) = target[c]
  BY <1>1, <1>2 DEF Typed
<1>4. CASE Look(c)
  <2>1. op[c] = "read" /\ Real(fs', target[c]) \in DOMAIN fs'
    BY <1>1, <1>3, <1>4 DEF Look, Requests, Ops
  <2>2. QED
    BY <1>2, <2>1 DEF Effect
<1>5. CASE Fill(c)
  <2>1. op[c] = "write" /\ pc[c] = "fill"
    BY <1>1, <1>5 DEF Fill, Requests
  <2>2. /\ c \in open /\ place[c] = Real(fs, target[c])
        /\ place[c] \in DOMAIN fs /\ fs[place[c]] = Empty
    BY <1>1, <1>2, <1>3, <2>1 DEF Filling
  <2>3. fs' = With({place[c]}, AsStored(body[c]))
    BY <1>5, <2>2 DEF Fill
  <2>4. /\ place[c] \in DOMAIN fs' /\ fs'[place[c]] = AsStored(body[c])
        /\ LinksOn(fs', target[c]) = LinksOn(fs, target[c])
    <3>1. AsStored(body[c]) \in Node \ {Dir, Link}
      BY <1>1, <2>1, NodeFacts DEF Requests
    <3>2. place[c] \in Path /\ Empty \notin {Dir, Link}
      BY <1>1, NodeFacts DEF Typed
    <3>3. QED
      BY <1>1, <2>2, <2>3, <3>1, <3>2, WriteKeepsTree
  <2>5. Real(fs', target[c]) = place[c]
    BY <2>2, <2>4, SameLinks
  <2>6. QED
    BY <1>2, <2>1, <2>4, <2>5 DEF Effect
<1>6. CASE Delete(c)
  <2>1. op[c] = "delete"
    BY <1>1, <1>6 DEF Delete, Requests, Ops
  <2>2. /\ target[c] # <<>>
        /\ fs' = Without({p \in DOMAIN fs : Under(p, Entry(fs, target[c]))})
    BY <1>3, <1>6 DEF Delete
  <2>3. Entry(fs', target[c]) = Entry(fs, target[c])
    BY <1>1, <1>3, <2>2, DeleteKeepsWay
  <2>4. \A p \in DOMAIN fs' : ~Under(p, Entry(fs', target[c]))
    BY <2>2, <2>3 DEF Without
  <2>5. QED
    BY <1>2, <2>1, <2>4 DEF Effect
<1>7. CASE CreateDir(c)
  <2>1. op[c] = "mkdir"
    BY <1>1, <1>7 DEF CreateDir, Requests, Ops
  <2>2. /\ Real(fs, target[c]) \in DOMAIN fs' /\ fs'[Real(fs, target[c])] = Dir
        /\ LinksOn(fs', target[c]) = LinksOn(fs, target[c])
    BY <1>1, <1>3, <1>7, MakeKeepsTree DEF CreateDir
  <2>3. QED
    BY <1>2, <2>1, <2>2, SameLinks DEF Effect
<1>8. CASE Denied(c) \/ Breaks(c) \/ BreaksOff(c)
  BY <1>1, <1>2, <1>8 DEF Typed, Denied, Breaks, BreaksOff, Answers
<1>9. CASE WorkFails(c)
  BY <1>1, <1>2, <1>9 DEF Typed, WorkFails, Fails, Answers
<1>10. CASE \/ \E r, o, b : Start(c, o, r, b)
            \/ Resolve(c) \/ MakeParents(c) \/ Open(c)
  BY <1>1, <1>2, <1>10 DEF Typed, Start, Resolve, MakeParents, Open, Opens
<1>11. QED
  BY <1>4, <1>5, <1>6, <1>7, <1>8, <1>9, <1>10 DEF CallStep

(* A call that is not diverted changes only what is under its target, and  *)
(* what is missing on the way to it.                                       *)
LEMMA ConfinedStep ==
  ASSUME Inv, NEW c \in Calls, CallStep(c), NEW p \in Changed
  PROVE  \/ Under(p, Root)
         \/ Under(Root, p) /\ p \notin DOMAIN fs
         \/ pc'[c] # pc[c] /\ Diverted(c)
<1>1. Typed /\ Requests /\ Tree /\ Opened /\ Root \in Path
  BY FileConstantsOK DEF Inv, Path
<1>2. fs' # fs
  BY DEF Changed
<1>3. MakeParents(c) \/ Open(c) \/ Fill(c) \/ Delete(c) \/ CreateDir(c)
  BY <1>2
  DEF CallStep, Start, Resolve, Denied, Look, WorkFails, Fails, Breaks, BreaksOff
<1>4. pc'[c] # pc[c]
  BY <1>1, <1>3
  DEF MakeParents, Open, Opens, Fill, Delete, CreateDir, Moves, Answers, Typed
<1> SUFFICES ASSUME ~Diverted(c)
             PROVE  Under(p, Root) \/ (Under(Root, p) /\ p \notin DOMAIN fs)
  BY <1>4
<1> DEFINE t == target[c]
<1>5. /\ t \in Path /\ Under(t, Root) /\ Way(c) = t /\ LinksOn(fs, t) = {}
      /\ Real(fs, t) = t /\ Entry(fs, t) = t
      /\ pc[c] = "fill" => place[c] = t
  BY <1>1, EntryFacts DEF Typed, Diverted, Real
<1>6. CASE MakeParents(c) \/ CreateDir(c)
  <2>1. PICK a \in {Front(t), t} : a \in Path /\ CanMake(a) /\ Make(a)
                                   /\ Ancestors(a) \subseteq Ancestors(t)
    BY <1>5, <1>6, FrontFacts, AncestorFacts DEF MakeParents, CreateDir
  <2>2. Real(fs, a) = a
    BY <1>5, <2>1 DEF Real, LinksOn
  <2>3. p \in Ancestors(t) \ DOMAIN fs
    BY <1>1, <2>1, <2>2, MakeKeepsTree
  <2>4. QED
    BY <1>1, <1>5, <2>3, AncestorsOfTarget
<1>7. CASE Open(c)
  <2>1. fs' = With({t}, Empty)
    BY <1>5, <1>7 DEF Open
  <2>2. p = t
    BY <2>1 DEF Changed, With
  <2>3. QED
    BY <1>5, <2>2
<1>8. CASE Fill(c)
  <2>1. \E n : fs' = With({t}, n)
    BY <1>2, <1>5, <1>8 DEF Fill
  <2>2. p = t
    BY <2>1 DEF Changed, With
  <2>3. QED
    BY <1>5, <2>2
<1>9. CASE Delete(c)
  <2>1. fs' = Without({d \in DOMAIN fs : Under(d, t)})
    BY <1>5, <1>9 DEF Delete
  <2>2. p \in Path /\ Under(p, t)
    BY <1>1, <2>1 DEF Changed, Without, Tree
  <2>3. QED
    BY <1>1, <1>5, <2>2, UnderTransitive
<1>10. QED
  BY <1>3, <1>6, <1>7, <1>8, <1>9
-----------------------------------------------------------------------------
(* The types, for any tree, links and shell: what is there has its         *)
(* parents, and an open write has a file.  No call is given a path outside *)
(* the app's folder; where it ends up is AlwaysConfined's matter.          *)
THEOREM TypeCorrect == Spec => []TypeOK
  BY Invariance, InvImpliesTypeOK, PTL

(* An answer of success is true of any operation, path and content, on the *)
(* host and in a container, through any links and with any number of       *)
(* calls, unless another call came near, the container hid a failure, or   *)
(* its shell read the path as another one.                                 *)
THEOREM SuccessIsAlwaysDone == Spec => SuccessIsDone
<1> DEFINE Truth ==
      \A c \in Calls \ (unseen' \cup disturbed) :
        result[c] = "none" /\ result'[c] = "ok" /\ Way(c) = target[c]
          => Effect(c, fs')
<1>1. Inv /\ [Next]_vars => [Truth]_vars
  BY SuccessStep, NextIsCallStep
<1>2. QED
  BY <1>1, Invariance, PTL DEF Spec, SuccessIsDone

(* Whatever a path goes through, nothing outside the app's folder changes  *)
(* but by a call that a link or a container's shell has led elsewhere: the *)
(* two ways out that safeJoin leaves open, and no third.                   *)
THEOREM AlwaysConfined == Spec => Confined
<1> DEFINE Bounds ==
      \A p \in Changed :
        \/ Under(p, Root)
        \/ Under(Root, p) /\ p \notin DOMAIN fs
        \/ \E c \in Calls : pc'[c] # pc[c] /\ Diverted(c)
<1>1. Inv /\ [Next]_vars => [Bounds]_vars
  BY ConfinedStep, NextIsCallStep
<1>2. QED
  BY <1>1, Invariance, PTL DEF Spec, Confined
=============================================================================
