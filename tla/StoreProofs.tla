----------------------------- MODULE StoreProofs -----------------------------
(***************************************************************************)
(* The metadata file: what is read back from one that was written whole,   *)
(* or cut anywhere, and what a daemon that saves and loads it preserves.   *)
(***************************************************************************)
EXTENDS Daemon, ControlPlaneProofs, GcProofs

-----------------------------------------------------------------------------
(* The lines of a map.                                                     *)

(* A finite set is listed with every element of it.                        *)
LEMMA ListFacts ==
  ASSUME NEW S, IsFiniteSet(S)
  PROVE  /\ Cardinality(S) \in Nat
         /\ SetToSeq(S) \in [1..Cardinality(S) -> S]
         /\ \A x \in S : \E i \in 1..Cardinality(S) : SetToSeq(S)[i] = x
PROOF
  <1> DEFINE n == Cardinality(S)
             list == SetToSeq(S)
  <1>1. n \in Nat /\ IsFiniteSet(1..n) /\ Cardinality(1..n) = n
    BY FS_CardinalityType, FS_Interval
  <1>2. ExistsBijection(1..n, S)
    BY <1>1, FS_CardinalityType
  <1>3. \E f \in [1..n -> S] : IsInjective(f)
    <2>1. PICK f : f \in Bijection(1..n, S)
      BY <1>2 DEF ExistsBijection
    <2> QED
      BY <2>1 DEF Bijection, Injection, IsInjective
  <1>4. list \in [1..n -> S] /\ IsInjective(list)
    BY <1>3 DEF SetToSeq
  <1> HIDE DEF list
  <1>5. list \in Injection(1..n, S)
    BY <1>4 DEF Injection, IsInjective
  <1>6. list \in Surjection(1..n, S)
    BY <1>1, <1>5, FS_Injection
  <1>7. \A x \in S : \E i \in 1..n : list[i] = x
    BY <1>6 DEF Surjection
  <1> QED
    BY <1>1, <1>4, <1>7 DEF list

\* The list has each of the lines and no other.
Listing(list, line) ==
  /\ list \in Seq({line[x] : x \in DOMAIN line})
  /\ \A x \in DOMAIN line : \E i \in 1..Len(list) : list[i] = line[x]

LEMMA SetListing ==
  ASSUME NEW S, IsFiniteSet(S), NEW line, DOMAIN line = S, \A x \in S : line[x].id = x
  PROVE  Listing([i \in DOMAIN SetToSeq(S) |-> line[SetToSeq(S)[i]]], line)
PROOF
  <1> DEFINE n == Cardinality(S)
             order == SetToSeq(S)
             list == [i \in DOMAIN order |-> line[order[i]]]
             T == {line[x] : x \in S}
  <1>1. /\ n \in Nat
        /\ order \in [1..n -> S]
        /\ \A x \in S : \E i \in 1..n : order[i] = x
    BY ListFacts
  <1> HIDE DEF n, order
  <1>2. DOMAIN list = 1..n /\ \A i \in 1..n : list[i] = line[order[i]]
    BY <1>1
  <1>3. list \in [1..n -> T]
    BY <1>1
  <1> HIDE DEF list, T
  <1>4. list \in Seq(T) /\ Len(list) = n
    BY <1>1, <1>2, <1>3, SeqDef
  <1>5. \A x \in S : \E i \in 1..n : list[i] = line[x]
    BY <1>1, <1>2
  <1> QED
    BY <1>4, <1>5 DEF Listing, T, list, order

\* The lines a map is saved as.
PolicyLine(m)    == [p \in DOMAIN m.policies |-> EncodePolicy(m, p)]
WorkspaceLine(m) == [w \in DOMAIN m.workspaces |-> EncodeWorkspace(m, w)]
SnapshotLine(m)  == [s \in DOMAIN m.snapshots |-> EncodeSnapshot(m, s)]

\* Maps that can be written out.
FiniteMaps(m) ==
  /\ IsFiniteSet(DOMAIN m.policies)
  /\ IsFiniteSet(DOMAIN m.workspaces)
  /\ IsFiniteSet(DOMAIN m.snapshots)

(* Each map is saved line by line.                                         *)
LEMMA MapListings ==
  ASSUME NEW m, FiniteMaps(m)
  PROVE  /\ Listing(PolicyLines(m), PolicyLine(m))
         /\ Listing(WorkspaceLines(m), WorkspaceLine(m))
         /\ Listing(SnapshotLines(m), SnapshotLine(m))
PROOF
  <1>1. Listing(PolicyLines(m), PolicyLine(m))
    <2> DEFINE S == DOMAIN m.policies
    <2>1. \A x \in S : PolicyLine(m)[x].id = x
      BY DEF PolicyLine, EncodePolicy
    <2>2. Listing([i \in DOMAIN SetToSeq(S) |-> PolicyLine(m)[SetToSeq(S)[i]]], PolicyLine(m))
      BY <2>1, SetListing DEF FiniteMaps, PolicyLine
    <2>3. \A i \in DOMAIN SetToSeq(S) : SetToSeq(S)[i] \in S
      BY ListFacts DEF FiniteMaps
    <2>4. PolicyLines(m) = [i \in DOMAIN SetToSeq(S) |-> PolicyLine(m)[SetToSeq(S)[i]]]
      BY <2>3 DEF PolicyLines, Lines, PolicyLine
    <2> QED
      BY <2>2, <2>4
  <1>2. Listing(WorkspaceLines(m), WorkspaceLine(m))
    <2> DEFINE S == DOMAIN m.workspaces
    <2>1. \A x \in S : WorkspaceLine(m)[x].id = x
      BY DEF WorkspaceLine, EncodeWorkspace
    <2>2. Listing([i \in DOMAIN SetToSeq(S) |-> WorkspaceLine(m)[SetToSeq(S)[i]]],
                  WorkspaceLine(m))
      BY <2>1, SetListing DEF FiniteMaps, WorkspaceLine
    <2>3. \A i \in DOMAIN SetToSeq(S) : SetToSeq(S)[i] \in S
      BY ListFacts DEF FiniteMaps
    <2>4. WorkspaceLines(m)
            = [i \in DOMAIN SetToSeq(S) |-> WorkspaceLine(m)[SetToSeq(S)[i]]]
      BY <2>3 DEF WorkspaceLines, Lines, WorkspaceLine
    <2> QED
      BY <2>2, <2>4
  <1>3. Listing(SnapshotLines(m), SnapshotLine(m))
    <2> DEFINE S == DOMAIN m.snapshots
    <2>1. \A x \in S : SnapshotLine(m)[x].id = x
      BY DEF SnapshotLine, EncodeSnapshot
    <2>2. Listing([i \in DOMAIN SetToSeq(S) |-> SnapshotLine(m)[SetToSeq(S)[i]]],
                  SnapshotLine(m))
      BY <2>1, SetListing DEF FiniteMaps, SnapshotLine
    <2>3. \A i \in DOMAIN SetToSeq(S) : SetToSeq(S)[i] \in S
      BY ListFacts DEF FiniteMaps
    <2>4. SnapshotLines(m)
            = [i \in DOMAIN SetToSeq(S) |-> SnapshotLine(m)[SetToSeq(S)[i]]]
      BY <2>3 DEF SnapshotLines, Lines, SnapshotLine
    <2> QED
      BY <2>2, <2>4
  <1> QED
    BY <1>1, <1>2, <1>3

\* The lines of the metadata, and the order of their kinds in a file.
LinesOf(m) ==
  {Header} \cup {PolicyLine(m)[p] : p \in DOMAIN m.policies}
           \cup {WorkspaceLine(m)[w] : w \in DOMAIN m.workspaces}
           \cup {SnapshotLine(m)[s] : s \in DOMAIN m.snapshots}
Place == [header |-> 0, policy |-> 1, workspace |-> 2, snapshot |-> 3]

LEMMA LineKinds ==
  ASSUME NEW m
  PROVE  /\ Header.kind = "header"
         /\ \A p \in DOMAIN m.policies :
              PolicyLine(m)[p].kind = "policy" /\ PolicyLine(m)[p].id = p
         /\ \A w \in DOMAIN m.workspaces :
              WorkspaceLine(m)[w].kind = "workspace" /\ WorkspaceLine(m)[w].id = w
         /\ \A s \in DOMAIN m.snapshots :
              SnapshotLine(m)[s].kind = "snapshot" /\ SnapshotLine(m)[s].id = s
BY DEF Header, PolicyLine, WorkspaceLine, SnapshotLine, EncodePolicy, EncodeWorkspace,
       EncodeSnapshot

\* A file that is the metadata m: the header, then every line, a kind at a time.
FileOf(text, m) ==
  /\ text \in Seq(LinesOf(m))
  /\ 1 \in 1..Len(text) /\ text[1] = Header
  /\ \A p \in DOMAIN m.policies : \E i \in 1..Len(text) : text[i] = PolicyLine(m)[p]
  /\ \A w \in DOMAIN m.workspaces : \E i \in 1..Len(text) : text[i] = WorkspaceLine(m)[w]
  /\ \A s \in DOMAIN m.snapshots : \E i \in 1..Len(text) : text[i] = SnapshotLine(m)[s]
  /\ \A i, j \in 1..Len(text) : Place[text[i].kind] < Place[text[j].kind] => i < j

(* The places of the elements of two sequences that are joined.            *)
LEMMA JoinFacts ==
  ASSUME NEW T, NEW a \in Seq(T), NEW b \in Seq(T)
  PROVE  /\ a \o b \in Seq(T)
         /\ Len(a \o b) = Len(a) + Len(b)
         /\ \A i \in 1..Len(a) : i \in 1..Len(a \o b) /\ (a \o b)[i] = a[i]
         /\ \A i \in 1..Len(b) : Len(a) + i \in 1..Len(a \o b) /\ (a \o b)[Len(a) + i] = b[i]
PROOF
  <1> DEFINE c == a \o b
             m == Len(a)
             n == Len(b)
  <1>1. m \in Nat /\ n \in Nat
    BY LenProperties
  <1>2. /\ c \in Seq(T)
        /\ Len(c) = m + n
        /\ \A i \in 1..(m + n) : c[i] = IF i <= m THEN a[i] ELSE b[i - m]
    BY ConcatProperties
  <1> HIDE DEF m, n, c
  <1>3. \A i \in 1..m : i \in 1..Len(c) /\ c[i] = a[i]
    BY <1>1, <1>2
  <1>4. ASSUME NEW i \in 1..n
        PROVE  m + i \in 1..Len(c) /\ c[m + i] = b[i]
    <2>1. m + i \in 1..(m + n) /\ ~(m + i <= m) /\ (m + i) - m = i
      BY <1>1
    <2> QED
      BY <1>2, <2>1
  <1> QED
    BY <1>2, <1>3, <1>4 DEF m, n, c

LEMMA EncodeFacts ==
  ASSUME NEW m, FiniteMaps(m)
  PROVE  FileOf(Encode(m), m)
PROOF
  <1> DEFINE H == <<Header>>
             A == PolicyLines(m)
             B == WorkspaceLines(m)
             C == SnapshotLines(m)
             T == LinesOf(m)
             text == Encode(m)
             p == Len(A)
             w == Len(B)
             s == Len(C)
  <1>1. Listing(A, PolicyLine(m)) /\ Listing(B, WorkspaceLine(m)) /\ Listing(C, SnapshotLine(m))
    BY MapListings
  <1>2. /\ \A i \in 1..p : A[i].kind = "policy"
        /\ \A i \in 1..w : B[i].kind = "workspace"
        /\ \A i \in 1..s : C[i].kind = "snapshot"
    <2>1. /\ A \in Seq({PolicyLine(m)[x] : x \in DOMAIN m.policies})
          /\ B \in Seq({WorkspaceLine(m)[x] : x \in DOMAIN m.workspaces})
          /\ C \in Seq({SnapshotLine(m)[x] : x \in DOMAIN m.snapshots})
      BY <1>1 DEF Listing, PolicyLine, WorkspaceLine, SnapshotLine
    <2> QED
      BY <2>1, LineKinds, ElementOfSeq
  <1>3. H \in Seq(T) /\ A \in Seq(T) /\ B \in Seq(T) /\ C \in Seq(T)
    <2>1. /\ {PolicyLine(m)[x] : x \in DOMAIN PolicyLine(m)} \subseteq T
          /\ {WorkspaceLine(m)[x] : x \in DOMAIN WorkspaceLine(m)} \subseteq T
          /\ {SnapshotLine(m)[x] : x \in DOMAIN SnapshotLine(m)} \subseteq T
      BY DEF LinesOf, PolicyLine, WorkspaceLine, SnapshotLine
    <2>2. Header \in T
      BY DEF LinesOf
    <2> HIDE DEF T
    <2>3. H \in Seq(T)
      BY <2>2
    <2> QED
      BY <1>1, <2>1, <2>3, SeqMonotonic DEF Listing
  <1>4. Len(H) = 1 /\ H[1] = Header
    OBVIOUS
  <1>5. text = ((H \o A) \o B) \o C
    BY DEF Encode
  <1> HIDE DEF H, A, B, C, T, text
  <1>6. p \in Nat /\ w \in Nat /\ s \in Nat
    BY <1>3, LenProperties
  <1>7. /\ H \o A \in Seq(T) /\ Len(H \o A) = 1 + p
        /\ \A i \in 1..1 : i \in 1..Len(H \o A) /\ (H \o A)[i] = H[i]
        /\ \A i \in 1..p : 1 + i \in 1..Len(H \o A) /\ (H \o A)[1 + i] = A[i]
    <2>1. /\ H \o A \in Seq(T) /\ Len(H \o A) = Len(H) + p
          /\ \A i \in 1..Len(H) : i \in 1..Len(H \o A) /\ (H \o A)[i] = H[i]
          /\ \A i \in 1..p : Len(H) + i \in 1..Len(H \o A) /\ (H \o A)[Len(H) + i] = A[i]
      BY <1>3, JoinFacts
    <2> QED
      BY <1>4, <2>1
  <1> DEFINE HA == H \o A
  <1> HIDE DEF HA
  <1>8. /\ HA \o B \in Seq(T) /\ Len(HA \o B) = Len(HA) + w
        /\ \A i \in 1..Len(HA) : i \in 1..Len(HA \o B) /\ (HA \o B)[i] = HA[i]
        /\ \A i \in 1..w :
             Len(HA) + i \in 1..Len(HA \o B) /\ (HA \o B)[Len(HA) + i] = B[i]
    <2>1. HA \in Seq(T)
      BY <1>7 DEF HA
    <2> QED
      BY <1>3, <2>1, JoinFacts
  <1> DEFINE HAB == HA \o B
  <1> HIDE DEF HAB
  <1>9. /\ text \in Seq(T) /\ Len(text) = Len(HAB) + s
        /\ \A i \in 1..Len(HAB) : i \in 1..Len(text) /\ text[i] = HAB[i]
        /\ \A i \in 1..s : Len(HAB) + i \in 1..Len(text) /\ text[Len(HAB) + i] = C[i]
    <2>1. HAB \in Seq(T) /\ text = HAB \o C
      BY <1>5, <1>8 DEF HA, HAB
    <2> QED
      BY <1>3, <2>1, JoinFacts
  <1> HIDE DEF p, w, s
  <1>10. Len(HA) = 1 + p /\ Len(HAB) = 1 + p + w /\ Len(text) = 1 + p + w + s
    BY <1>7, <1>8, <1>9 DEF HA, HAB
  <1>11. /\ \A i \in 1..(1 + p) : text[i] = HA[i] /\ i \in 1..Len(text)
         /\ \A i \in 1..(1 + p + w) : text[i] = HAB[i] /\ i \in 1..Len(text)
    BY <1>8, <1>9, <1>10, <1>6 DEF HAB
  <1>12. text[1] = Header /\ 1 \in 1..Len(text)
    <2>1. 1 \in 1..(1 + p) /\ HA[1] = Header
      BY <1>4, <1>6, <1>7 DEF HA
    <2> QED
      BY <1>11, <2>1
  <1>13. ASSUME NEW i \in 1..p
         PROVE  1 + i \in 1..Len(text) /\ text[1 + i] = A[i]
    <2>1. 1 + i \in 1..(1 + p) /\ HA[1 + i] = A[i]
      BY <1>6, <1>7 DEF HA
    <2> QED
      BY <1>11, <2>1
  <1>14. ASSUME NEW i \in 1..w
         PROVE  1 + p + i \in 1..Len(text) /\ text[1 + p + i] = B[i]
    <2>1. 1 + p + i \in 1..(1 + p + w) /\ HAB[1 + p + i] = B[i]
      BY <1>6, <1>8, <1>10 DEF HAB
    <2> QED
      BY <1>11, <2>1
  <1>15. ASSUME NEW i \in 1..s
         PROVE  1 + p + w + i \in 1..Len(text) /\ text[1 + p + w + i] = C[i]
    BY <1>9, <1>10
  <1>16. ASSUME NEW i \in 1..Len(text)
         PROVE  \/ i = 1
                \/ \E k \in 1..p : i = 1 + k
                \/ \E k \in 1..w : i = 1 + p + k
                \/ \E k \in 1..s : i = 1 + p + w + k
    <2>1. CASE i = 1
      BY <2>1
    <2>2. CASE i \in 2..(1 + p)
      <3>1. i - 1 \in 1..p /\ i = 1 + (i - 1)
        BY <1>6, <2>2
      <3> QED
        BY <3>1
    <2>3. CASE i \in (2 + p)..(1 + p + w)
      <3>1. i - (1 + p) \in 1..w /\ i = 1 + p + (i - (1 + p))
        BY <1>6, <2>3
      <3> QED
        BY <3>1
    <2>4. CASE i \in (2 + p + w)..(1 + p + w + s)
      <3>1. i - (1 + p + w) \in 1..s /\ i = 1 + p + w + (i - (1 + p + w))
        BY <1>6, <2>4
      <3> QED
        BY <3>1
    <2> QED
      BY <1>6, <1>10, <2>1, <2>2, <2>3, <2>4
  <1>17. ASSUME NEW i \in 1..Len(text)
         PROVE  \/ i = 1 /\ text[i].kind = "header"
                \/ \E k \in 1..p : i = 1 + k /\ text[i].kind = "policy"
                \/ \E k \in 1..w : i = 1 + p + k /\ text[i].kind = "workspace"
                \/ \E k \in 1..s : i = 1 + p + w + k /\ text[i].kind = "snapshot"
    <2>1. /\ \A k \in 1..p : A[k].kind = "policy"
          /\ \A k \in 1..w : B[k].kind = "workspace"
          /\ \A k \in 1..s : C[k].kind = "snapshot"
      BY <1>2 DEF p, w, s
    <2>2. \A k \in 1..p : text[1 + k].kind = "policy"
      BY <1>13, <2>1
    <2>3. \A k \in 1..w : text[1 + p + k].kind = "workspace"
      BY <1>14, <2>1
    <2>4. \A k \in 1..s : text[1 + p + w + k].kind = "snapshot"
      BY <1>15, <2>1
    <2>5. i = 1 => text[i].kind = "header"
      BY <1>12, LineKinds
    <2> QED
      BY <1>16, <2>2, <2>3, <2>4, <2>5
  <1>18. ASSUME NEW i \in 1..Len(text), NEW j \in 1..Len(text),
                Place[text[i].kind] < Place[text[j].kind]
         PROVE  i < j
    <2>1. /\ Place["header"] = 0 /\ Place["policy"] = 1
          /\ Place["workspace"] = 2 /\ Place["snapshot"] = 3
      BY DEF Place
    <2> QED
      BY <1>6, <1>18, <1>17, <2>1
  <1>19. /\ \A x \in DOMAIN m.policies : \E i \in 1..Len(text) : text[i] = PolicyLine(m)[x]
         /\ \A x \in DOMAIN m.workspaces : \E i \in 1..Len(text) : text[i] = WorkspaceLine(m)[x]
         /\ \A x \in DOMAIN m.snapshots : \E i \in 1..Len(text) : text[i] = SnapshotLine(m)[x]
    <2>1. /\ \A x \in DOMAIN m.policies : \E i \in 1..p : A[i] = PolicyLine(m)[x]
          /\ \A x \in DOMAIN m.workspaces : \E i \in 1..w : B[i] = WorkspaceLine(m)[x]
          /\ \A x \in DOMAIN m.snapshots : \E i \in 1..s : C[i] = SnapshotLine(m)[x]
      BY <1>1 DEF Listing, PolicyLine, WorkspaceLine, SnapshotLine, p, w, s
    <2>2. \A x \in DOMAIN m.policies : \E i \in 1..Len(text) : text[i] = PolicyLine(m)[x]
      BY <1>13, <2>1
    <2>3. \A x \in DOMAIN m.workspaces : \E i \in 1..Len(text) : text[i] = WorkspaceLine(m)[x]
      BY <1>14, <2>1
    <2>4. \A x \in DOMAIN m.snapshots : \E i \in 1..Len(text) : text[i] = SnapshotLine(m)[x]
      BY <1>15, <2>1
    <2> QED
      BY <2>2, <2>3, <2>4
  <1> QED
    BY <1>9, <1>12, <1>18, <1>19 DEF FileOf, text, T

-----------------------------------------------------------------------------
(* A file that was cut.                                                    *)

\* What is left of a line that can still be read: the line, or a shorter time.
Shorter(part, line) ==
  \/ part = line
  \/ /\ line.kind = "workspace"
     /\ \E t \in 1..line.value.accessed : part = [line EXCEPT !.value.accessed = t]
  \/ /\ line.kind = "snapshot"
     /\ \E t \in 1..line.value.created : part = [line EXCEPT !.value.created = t]

\* The first lines of the file, of which the last may be shorter.
PrefixOf(part, text) ==
  \E n \in 1..Len(text) :
    /\ DOMAIN part = 1..n /\ Len(part) = n
    /\ \A i \in 1..(n - 1) : part[i] = text[i]
    /\ Shorter(part[n], text[n])

(* Wherever a write was interrupted, a file that loads is such a prefix.   *)
LEMMA TornFacts ==
  ASSUME NEW T, NEW text \in Seq(T), NEW torn \in Torn(text), Readable(torn)
  PROVE  PrefixOf(torn, text)
PROOF
  <1> DEFINE L == Len(text)
  <1>1. L \in Nat /\ DOMAIN text = 1..L /\ \A i \in 1..L : text[i] \in T
    BY LenProperties, ElementOfSeq
  <1> HIDE DEF L
  <1>2. ASSUME NEW n \in 0..(L - 1), torn = SubSeq(text, 1, n)
        PROVE  PrefixOf(torn, text)
    <2>1. n # 0
      BY <1>2, SubSeqEmpty DEF Readable
    <2>2. n \in 1..L /\ \A i \in 1..n : text[i] \in T
      BY <1>1, <2>1
    <2>3. /\ torn \in Seq(T)
          /\ Len(torn) = n
          /\ \A i \in 1..n : torn[i] = text[i]
      <3>1. /\ SubSeq(text, 1, n) \in Seq(T)
            /\ Len(SubSeq(text, 1, n)) = IF 1 <= n THEN n - 1 + 1 ELSE 0
            /\ \A i \in 1..(n - 1 + 1) : SubSeq(text, 1, n)[i] = text[1 + i - 1]
        BY <2>2, SubSeqProperties
      <3> QED
        BY <1>2, <2>2, <3>1
    <2>4. DOMAIN torn = 1..n
      BY <2>3, LenProperties
    <2>5. /\ \A i \in 1..(n - 1) : torn[i] = text[i]
          /\ torn[n] = text[n]
      BY <2>2, <2>3
    <2> QED
      BY <2>2, <2>3, <2>4, <2>5 DEF PrefixOf, Shorter, L
  <1>3. ASSUME NEW n \in 1..L, NEW part \in Cut(text[n]),
               torn = Append(SubSeq(text, 1, n - 1), part)
        PROVE  PrefixOf(torn, text)
    <2> DEFINE S == T \cup {part}
               front == SubSeq(text, 1, n - 1)
    <2>1. /\ front \in Seq(S)
          /\ Len(front) = n - 1
          /\ \A i \in 1..(n - 1) : front[i] = text[i]
      <3>1. \A i \in 1..(n - 1) : text[i] \in S
        BY <1>1
      <3> HIDE DEF S
      <3>2. /\ SubSeq(text, 1, n - 1) \in Seq(S)
            /\ Len(SubSeq(text, 1, n - 1)) = IF 1 <= n - 1 THEN (n - 1) - 1 + 1 ELSE 0
            /\ \A i \in 1..((n - 1) - 1 + 1) : SubSeq(text, 1, n - 1)[i] = text[1 + i - 1]
        <4>1. 1 \in Int /\ n - 1 \in Int
          OBVIOUS
        <4> QED
          BY <3>1, <4>1, SubSeqProperties
      <3> QED
        BY <1>1, <3>2
    <2> HIDE DEF front
    <2>2. /\ torn \in Seq(S)
          /\ Len(torn) = n
          /\ \A i \in 1..(n - 1) : torn[i] = text[i]
          /\ torn[n] = part
      <3>0. part \in S
        OBVIOUS
      <3> HIDE DEF S
      <3>1. /\ Append(front, part) \in Seq(S)
            /\ Len(Append(front, part)) = Len(front) + 1
            /\ \A i \in 1..Len(front) : Append(front, part)[i] = front[i]
            /\ Append(front, part)[Len(front) + 1] = part
        BY <2>1, <3>0, AppendProperties
      <3> QED
        BY <1>1, <1>3, <2>1, <3>1 DEF front
    <2> HIDE DEF S
    <2>3. DOMAIN torn = 1..n
      BY <2>2, LenProperties
    <2>4. part # Garbage
      BY <2>2, <2>3 DEF Readable, Range
    <2>5. Shorter(part, text[n])
      BY <2>4 DEF Cut, Shortened, Shorter
    <2> QED
      BY <2>2, <2>3, <2>5 DEF PrefixOf, L
  <1> QED
    BY <1>1, <1>2, <1>3 DEF Torn, L

LEMMA WholeFile ==
  ASSUME NEW T, NEW text \in Seq(T), 1 \in 1..Len(text)
  PROVE  PrefixOf(text, text)
PROOF
  <1>1. Len(text) \in 1..Len(text) /\ DOMAIN text = 1..Len(text)
    BY LenProperties
  <1> QED
    BY <1>1 DEF PrefixOf, Shorter

-----------------------------------------------------------------------------
(* What is read back.                                                      *)

\* The ids that have a line of a kind, and the line that is read for one.
IdsIn(text, kind) == {line.id : line \in {l \in Range(text) : l.kind = kind}}
LineIn(text, kind, id) == CHOOSE line \in {l \in Range(text) : l.kind = kind} : line.id = id

LEMMA DecodedFacts ==
  ASSUME NEW text
  PROVE  /\ DOMAIN DecodeMetadata(text).workspaces = IdsIn(text, "workspace")
         /\ \A w \in IdsIn(text, "workspace") :
              DecodeMetadata(text).workspaces[w]
                = DecodeWorkspace(LineIn(text, "workspace", w).value)
         /\ DOMAIN DecodeMetadata(text).snapshots = IdsIn(text, "snapshot")
         /\ \A s \in IdsIn(text, "snapshot") :
              DecodeMetadata(text).snapshots[s]
                = DecodeSnapshot(LineIn(text, "snapshot", s).value)
         /\ DOMAIN DecodeMetadata(text).policies = IdsIn(text, "policy")
         /\ \A p \in IdsIn(text, "policy") :
              DecodeMetadata(text).policies[p] = LineIn(text, "policy", p).value
BY DEF DecodeMetadata, Records, IdsIn, LineIn

(* A shortened line is one of the same record.                             *)
LEMMA ShorterKind ==
  ASSUME NEW m, NEW line \in LinesOf(m), NEW part, Shorter(part, line)
  PROVE  part.kind = line.kind /\ (line # Header => part.id = line.id)
PROOF
  <1>1. /\ \A x \in DOMAIN m.policies : DOMAIN PolicyLine(m)[x] = {"kind", "id", "value"}
        /\ \A x \in DOMAIN m.workspaces : DOMAIN WorkspaceLine(m)[x] = {"kind", "id", "value"}
        /\ \A x \in DOMAIN m.snapshots : DOMAIN SnapshotLine(m)[x] = {"kind", "id", "value"}
    BY DEF PolicyLine, WorkspaceLine, SnapshotLine, EncodePolicy, EncodeWorkspace,
           EncodeSnapshot
  <1>2. line # Header => "kind" \in DOMAIN line /\ "id" \in DOMAIN line
    BY <1>1 DEF LinesOf
  <1>3. line = Header => part = Header
    BY DEF Shorter, Header
  <1> QED
    BY <1>2, <1>3 DEF Shorter

(* A line that is read is one that was written, if not the last one intact. *)
LEMMA LineFacts ==
  ASSUME NEW m, NEW text, FileOf(text, m), NEW part, PrefixOf(part, text),
         NEW kind \in {"policy", "workspace", "snapshot"}, NEW id \in IdsIn(part, kind)
  PROVE  \E i \in 1..Len(part) :
           /\ i \in 1..Len(text) /\ Len(part) \in Nat
           /\ part[i] = LineIn(part, kind, id)
           /\ part[i].kind = kind /\ part[i].id = id
           /\ Shorter(part[i], text[i])
           /\ i # Len(part) => part[i] = text[i]
           /\ kind = "policy" => text[i] = PolicyLine(m)[id] /\ id \in DOMAIN m.policies
           /\ kind = "workspace" =>
                text[i] = WorkspaceLine(m)[id] /\ id \in DOMAIN m.workspaces
           /\ kind = "snapshot" => text[i] = SnapshotLine(m)[id] /\ id \in DOMAIN m.snapshots
PROOF
  <1> DEFINE line == LineIn(part, kind, id)
  <1>1. line \in Range(part) /\ line.kind = kind /\ line.id = id
    BY DEF IdsIn, LineIn
  <1> HIDE DEF line
  <1>2. PICK n \in 1..Len(text) :
          /\ DOMAIN part = 1..n /\ Len(part) = n
          /\ \A i \in 1..(n - 1) : part[i] = text[i]
          /\ Shorter(part[n], text[n])
    BY DEF PrefixOf
  <1>3. PICK i \in 1..n : part[i] = line
    BY <1>1, <1>2 DEF Range
  <1>4. Len(text) \in Nat /\ \A k \in 1..Len(text) : text[k] \in LinesOf(m)
    BY LenProperties, ElementOfSeq DEF FileOf
  <1>5. i \in 1..Len(text) /\ (i # n => part[i] = text[i])
    BY <1>2, <1>4
  <1>6. Shorter(part[i], text[i])
    BY <1>2, <1>5 DEF Shorter
  <1>7. text[i].kind = kind /\ text[i].id = id
    <2>1. text[i] \in LinesOf(m)
      BY <1>4, <1>5
    <2>2. part[i].kind = text[i].kind /\ (text[i] # Header => part[i].id = text[i].id)
      BY <1>6, <2>1, ShorterKind
    <2>3. text[i] # Header
      BY <1>1, <1>3, <2>2, LineKinds
    <2> QED
      BY <1>1, <1>3, <2>2, <2>3
  <1>8. /\ kind = "policy" => text[i] = PolicyLine(m)[id] /\ id \in DOMAIN m.policies
        /\ kind = "workspace" =>
             text[i] = WorkspaceLine(m)[id] /\ id \in DOMAIN m.workspaces
        /\ kind = "snapshot" => text[i] = SnapshotLine(m)[id] /\ id \in DOMAIN m.snapshots
    BY <1>4, <1>5, <1>7, LineKinds DEF LinesOf
  <1> QED
    BY <1>1, <1>2, <1>3, <1>4, <1>5, <1>6, <1>8 DEF line

-----------------------------------------------------------------------------
(* Seconds.                                                                *)

(* A product grows with either factor.                                     *)
LEMMA Products ==
  ASSUME NEW a \in Int, NEW b \in Int, a <= b, NEW k \in Nat
  PROVE  a * k <= b * k
OBVIOUS

(* What the file makes of a time is the time to the second, and a shorter  *)
(* number is an earlier one.                                               *)
LEMMA SecondsFacts ==
  ASSUME NEW x \in Nat
  PROVE  /\ EncodeTime(x) \in Nat
         /\ DecodeTime(EncodeTime(x)) = Floor(x)
         /\ Floor(x) \in 0..x /\ x - Floor(x) < TicksPerSecond
         /\ \A t \in 1..EncodeTime(x) : DecodeTime(t) \in 0..Floor(x)
PROOF
  <1> DEFINE T == TicksPerSecond
             q == x \div TicksPerSecond
             r == x % TicksPerSecond
  <1>1. T \in Nat /\ T > 0
    BY StoreAssumption
  <1>2. q \in Nat /\ r \in 0..(T - 1) /\ x = T * q + r
    BY <1>1
  <1>3. q * T = x - r
    BY <1>1, <1>2
  <1> HIDE DEF q, r, T
  <1>4. \A t \in 1..q : t * T \in 0..(x - r)
    <2> TAKE t \in 1..q
    <2>1. t \in Nat /\ t <= q
      BY <1>2
    <2>2. t * T <= q * T
      BY <1>1, <1>2, <2>1, Products
    <2>3. t * T \in Nat
      BY <1>1, <2>1
    <2> QED
      BY <1>2, <1>3, <2>2, <2>3
  <1>5. x - r \in 0..x
    <2>1. x - r \in Nat
      BY <1>1, <1>2, <1>3
    <2> QED
      BY <1>2, <2>1
  <1> QED
    BY <1>1, <1>2, <1>3, <1>4, <1>5 DEF EncodeTime, DecodeTime, Floor, q, r, T

(* A later time is not in an earlier second.                               *)
LEMMA SecondsGrow ==
  ASSUME NEW x \in Nat, NEW y \in Nat, x <= y
  PROVE  Floor(x) <= Floor(y)
PROOF
  <1> DEFINE T == TicksPerSecond
             p == x \div TicksPerSecond
             q == y \div TicksPerSecond
  <1>1. T \in Nat /\ T > 0
    BY StoreAssumption
  <1>2. /\ p \in Nat /\ p * T = Floor(x) /\ Floor(x) \in 0..x
        /\ q \in Nat /\ q * T = Floor(y) /\ y - Floor(y) < T
    BY SecondsFacts DEF EncodeTime, DecodeTime
  <1>3. Floor(x) \in Int /\ Floor(y) \in Int
    BY SecondsFacts
  <1> HIDE DEF T, p, q
  <1>4. CASE p <= q
    BY <1>1, <1>2, <1>4, Products
  <1>5. CASE q + 1 <= p
    <2>1. (q + 1) * T <= p * T
      BY <1>1, <1>2, <1>5, Products
    <2>2. (q + 1) * T = q * T + T
      BY <1>1, <1>2
    <2> QED
      BY <1>1, <1>2, <1>3, <2>1, <2>2
  <1> QED
    BY <1>2, <1>4, <1>5

-----------------------------------------------------------------------------
(* Records.                                                                *)

\* Metadata a control plane can have, and save.
Stored(m) ==
  /\ FiniteMaps(m)
  /\ IsMap(m.policies, PolicyIds, PolicyKinds)
  /\ IsMap(m.workspaces, WorkspaceIds, Workspace)
  /\ IsMap(m.snapshots, SnapshotIds, Snapshot)

LEMMA TimesAreNatural == Times \subseteq Nat /\ \A t \in Times : 0..t \subseteq Times
BY ControlPlaneAssumption DEF Times

(* A workspace keeps its state, limits and policy, its parent as long as   *)
(* that is not spelled "-", and never gets a later time.                   *)
LEMMA WorkspaceRead ==
  ASSUME NEW m, Stored(m), NEW w \in DOMAIN m.workspaces,
         NEW line, Shorter(line, WorkspaceLine(m)[w])
  PROVE  LET old == m.workspaces[w]
             new == DecodeWorkspace(line.value)
         IN  /\ new \in Workspace
             /\ new.state = old.state /\ new.limits = old.limits /\ new.policy = old.policy
             /\ new.parent \in {old.parent, NoSnapshot}
             /\ Dash \notin SnapshotIds => new.parent = old.parent
             /\ new.accessed \in 0..Floor(old.accessed)
             /\ line = WorkspaceLine(m)[w] => new.accessed = Floor(old.accessed)
PROOF
  <1> DEFINE old == m.workspaces[w]
             whole == WorkspaceLine(m)[w]
             new == DecodeWorkspace(line.value)
  <1>1. old \in Workspace
    BY DEF Stored, IsMap
  <1>2. old.accessed \in Times /\ old.accessed \in Nat
    BY <1>1, TimesAreNatural DEF Workspace
  <1>3. /\ whole.kind = "workspace"
        /\ whole.value = [old EXCEPT !.parent = EncodeParent(@), !.accessed = EncodeTime(@)]
        /\ whole = [kind |-> "workspace", id |-> w, value |-> whole.value]
    BY DEF WorkspaceLine, EncodeWorkspace
  <1>4. PICK t \in Nat : /\ line.value = [whole.value EXCEPT !.accessed = t]
                         /\ DecodeTime(t) \in 0..Floor(old.accessed)
                         /\ line = whole => DecodeTime(t) = Floor(old.accessed)
    <2>1. whole.value.accessed = EncodeTime(old.accessed)
      BY <1>1, <1>3 DEF Workspace
    <2>2. CASE line = whole
      <3>1. line.value = [whole.value EXCEPT !.accessed = EncodeTime(old.accessed)]
        BY <1>1, <1>3, <2>2 DEF Workspace
      <3>2. /\ EncodeTime(old.accessed) \in Nat
            /\ DecodeTime(EncodeTime(old.accessed)) = Floor(old.accessed)
            /\ Floor(old.accessed) \in Nat
        BY <1>2, SecondsFacts
      <3>3. Floor(old.accessed) \in 0..Floor(old.accessed)
        BY <3>2
      <3> QED
        BY <3>1, <3>2, <3>3
    <2>3. CASE line # whole
      <3>1. PICK t \in 1..EncodeTime(old.accessed) :
              line = [whole EXCEPT !.value.accessed = t]
        BY <1>3, <2>1, <2>3 DEF Shorter
      <3>2. line.value = [whole.value EXCEPT !.accessed = t]
        BY <1>3, <3>1
      <3>3. EncodeTime(old.accessed) \in Nat /\ DecodeTime(t) \in 0..Floor(old.accessed)
        BY <1>2, SecondsFacts
      <3> QED
        BY <2>3, <3>2, <3>3
    <2> QED
      BY <2>2, <2>3
  <1>5. new = [old EXCEPT !.parent = DecodeParent(EncodeParent(old.parent)),
                          !.accessed = DecodeTime(t)]
    BY <1>1, <1>3, <1>4 DEF DecodeWorkspace, Workspace
  <1>6. /\ DecodeParent(EncodeParent(old.parent)) \in {old.parent, NoSnapshot}
        /\ Dash \notin SnapshotIds => DecodeParent(EncodeParent(old.parent)) = old.parent
    BY <1>1 DEF DecodeParent, EncodeParent, Workspace
  <1>7. DecodeTime(t) \in Times
    <2>1. Floor(old.accessed) \in 0..old.accessed
      BY <1>2, SecondsFacts
    <2>2. DecodeTime(t) \in 0..old.accessed
      BY <1>2, <1>4, <2>1
    <2> QED
      BY <1>2, <2>2, TimesAreNatural
  <1> HIDE DEF new, whole
  <1> QED
    BY <1>1, <1>4, <1>5, <1>6, <1>7 DEF Workspace, new, whole

(* A snapshot keeps its workspace, and never gets a later time.            *)
LEMMA SnapshotRead ==
  ASSUME NEW m, Stored(m), NEW s \in DOMAIN m.snapshots,
         NEW line, Shorter(line, SnapshotLine(m)[s])
  PROVE  LET old == m.snapshots[s]
             new == DecodeSnapshot(line.value)
         IN  /\ new \in Snapshot
             /\ new.workspace = old.workspace
             /\ new.created \in 0..Floor(old.created)
             /\ line = SnapshotLine(m)[s] => new.created = Floor(old.created)
PROOF
  <1> DEFINE old == m.snapshots[s]
             whole == SnapshotLine(m)[s]
             new == DecodeSnapshot(line.value)
  <1>1. old \in Snapshot
    BY DEF Stored, IsMap
  <1>2. old.created \in Times /\ old.created \in Nat
    BY <1>1, TimesAreNatural DEF Snapshot
  <1>3. /\ whole.kind = "snapshot"
        /\ whole.value = [old EXCEPT !.created = EncodeTime(@)]
        /\ whole = [kind |-> "snapshot", id |-> s, value |-> whole.value]
    BY DEF SnapshotLine, EncodeSnapshot
  <1>4. PICK t \in Nat : /\ line.value = [whole.value EXCEPT !.created = t]
                         /\ DecodeTime(t) \in 0..Floor(old.created)
                         /\ line = whole => DecodeTime(t) = Floor(old.created)
    <2>1. whole.value.created = EncodeTime(old.created)
      BY <1>1, <1>3 DEF Snapshot
    <2>2. CASE line = whole
      <3>1. line.value = [whole.value EXCEPT !.created = EncodeTime(old.created)]
        BY <1>1, <1>3, <2>2 DEF Snapshot
      <3>2. /\ EncodeTime(old.created) \in Nat
            /\ DecodeTime(EncodeTime(old.created)) = Floor(old.created)
            /\ Floor(old.created) \in Nat
        BY <1>2, SecondsFacts
      <3>3. Floor(old.created) \in 0..Floor(old.created)
        BY <3>2
      <3> QED
        BY <3>1, <3>2, <3>3
    <2>3. CASE line # whole
      <3>1. PICK t \in 1..EncodeTime(old.created) :
              line = [whole EXCEPT !.value.created = t]
        BY <1>3, <2>1, <2>3 DEF Shorter
      <3>2. line.value = [whole.value EXCEPT !.created = t]
        BY <1>3, <3>1
      <3>3. EncodeTime(old.created) \in Nat /\ DecodeTime(t) \in 0..Floor(old.created)
        BY <1>2, SecondsFacts
      <3> QED
        BY <2>3, <3>2, <3>3
    <2> QED
      BY <2>2, <2>3
  <1>5. new = [old EXCEPT !.created = DecodeTime(t)]
    BY <1>1, <1>3, <1>4 DEF DecodeSnapshot, Snapshot
  <1>6. DecodeTime(t) \in Times
    <2>1. Floor(old.created) \in 0..old.created
      BY <1>2, SecondsFacts
    <2>2. DecodeTime(t) \in 0..old.created
      BY <1>2, <1>4, <2>1
    <2> QED
      BY <1>2, <2>2, TimesAreNatural
  <1> HIDE DEF new, whole
  <1> QED
    BY <1>1, <1>4, <1>5, <1>6 DEF Snapshot, new, whole

-----------------------------------------------------------------------------
(* Metadata read from the first lines of a file.                           *)

LastIs(text, kind, id) == text[Len(text)].kind = kind /\ text[Len(text)].id = id

(* Every record comes from its line, which is whole unless it is the last. *)
LEMMA LoadedRecords ==
  ASSUME NEW m, NEW text, FileOf(text, m), NEW part, PrefixOf(part, text)
  PROVE  LET d == DecodeMetadata(part)
         IN  /\ \A w \in DOMAIN d.workspaces :
                  /\ w \in DOMAIN m.workspaces
                  /\ \E line : /\ d.workspaces[w] = DecodeWorkspace(line.value)
                               /\ Shorter(line, WorkspaceLine(m)[w])
                               /\ \/ part # text /\ LastIs(part, "workspace", w)
                                  \/ line = WorkspaceLine(m)[w]
             /\ \A s \in DOMAIN d.snapshots :
                  /\ s \in DOMAIN m.snapshots
                  /\ \E line : /\ d.snapshots[s] = DecodeSnapshot(line.value)
                               /\ Shorter(line, SnapshotLine(m)[s])
                               /\ \/ part # text /\ LastIs(part, "snapshot", s)
                                  \/ line = SnapshotLine(m)[s]
             /\ \A p \in DOMAIN d.policies :
                  p \in DOMAIN m.policies /\ d.policies[p] = m.policies[p]
PROOF
  <1> DEFINE d == DecodeMetadata(part)
  <1>1. ASSUME NEW w \in DOMAIN d.workspaces
        PROVE  /\ w \in DOMAIN m.workspaces
               /\ \E line : /\ d.workspaces[w] = DecodeWorkspace(line.value)
                            /\ Shorter(line, WorkspaceLine(m)[w])
                            /\ \/ part # text /\ LastIs(part, "workspace", w)
                               \/ line = WorkspaceLine(m)[w]
    <2>1. /\ w \in IdsIn(part, "workspace")
          /\ d.workspaces[w] = DecodeWorkspace(LineIn(part, "workspace", w).value)
      BY DecodedFacts
    <2>2. PICK i \in 1..Len(part) :
            /\ part[i] = LineIn(part, "workspace", w)
            /\ part[i].kind = "workspace" /\ part[i].id = w
            /\ Shorter(part[i], text[i])
            /\ i # Len(part) => part[i] = text[i]
            /\ text[i] = WorkspaceLine(m)[w] /\ w \in DOMAIN m.workspaces
      BY <2>1, LineFacts
    <2> QED
      BY <2>1, <2>2 DEF LastIs
  <1>2. ASSUME NEW s \in DOMAIN d.snapshots
        PROVE  /\ s \in DOMAIN m.snapshots
               /\ \E line : /\ d.snapshots[s] = DecodeSnapshot(line.value)
                            /\ Shorter(line, SnapshotLine(m)[s])
                            /\ \/ part # text /\ LastIs(part, "snapshot", s)
                               \/ line = SnapshotLine(m)[s]
    <2>1. /\ s \in IdsIn(part, "snapshot")
          /\ d.snapshots[s] = DecodeSnapshot(LineIn(part, "snapshot", s).value)
      BY DecodedFacts
    <2>2. PICK i \in 1..Len(part) :
            /\ part[i] = LineIn(part, "snapshot", s)
            /\ part[i].kind = "snapshot" /\ part[i].id = s
            /\ Shorter(part[i], text[i])
            /\ i # Len(part) => part[i] = text[i]
            /\ text[i] = SnapshotLine(m)[s] /\ s \in DOMAIN m.snapshots
      BY <2>1, LineFacts
    <2> QED
      BY <2>1, <2>2 DEF LastIs
  <1>3. ASSUME NEW p \in DOMAIN d.policies
        PROVE  p \in DOMAIN m.policies /\ d.policies[p] = m.policies[p]
    <2>1. p \in IdsIn(part, "policy") /\ d.policies[p] = LineIn(part, "policy", p).value
      BY DecodedFacts
    <2>2. PICK i \in 1..Len(part) :
            /\ part[i] = LineIn(part, "policy", p)
            /\ Shorter(part[i], text[i])
            /\ text[i] = PolicyLine(m)[p] /\ p \in DOMAIN m.policies
      BY <2>1, LineFacts
    <2>3. part[i] = text[i]
      BY <2>2, LineKinds DEF Shorter
    <2> QED
      BY <2>1, <2>2, <2>3 DEF PolicyLine, EncodePolicy
  <1> QED
    BY <1>1, <1>2, <1>3

(* A line that comes before one that is read is there, whole.              *)
LEMMA EarlierLines ==
  ASSUME NEW m, NEW text, FileOf(text, m), NEW part, PrefixOf(part, text),
         NEW i \in 1..Len(part), NEW k \in 1..Len(text),
         Place[text[k].kind] < Place[text[i].kind]
  PROVE  k # Len(part) /\ k \in DOMAIN part /\ part[k] = text[k]
PROOF
  <1>1. PICK n \in 1..Len(text) :
          /\ DOMAIN part = 1..n /\ Len(part) = n
          /\ \A j \in 1..(n - 1) : part[j] = text[j]
    BY DEF PrefixOf
  <1>2. Len(text) \in Nat
    BY LenProperties DEF FileOf
  <1>3. k < i
    <2>1. i \in 1..Len(text)
      BY <1>1, <1>2
    <2> QED
      BY <2>1 DEF FileOf
  <1> QED
    BY <1>1, <1>2, <1>3

(* The kinds come in order: a file with a workspace has all the policies,  *)
(* one with a snapshot all the workspaces, and its last line is a snapshot. *)
LEMMA LoadedInOrder ==
  ASSUME NEW m, NEW text, FileOf(text, m), NEW part, PrefixOf(part, text)
  PROVE  LET d == DecodeMetadata(part)
         IN  /\ DOMAIN d.workspaces # {} => DOMAIN d.policies = DOMAIN m.policies
             /\ DOMAIN d.snapshots # {} =>
                  /\ DOMAIN d.workspaces = DOMAIN m.workspaces
                  /\ \A w : ~LastIs(part, "workspace", w)
PROOF
  <1> DEFINE d == DecodeMetadata(part)
  <1>0. Place["policy"] < Place["workspace"] /\ Place["workspace"] < Place["snapshot"]
    BY DEF Place
  <1>1. ASSUME NEW w \in DOMAIN d.workspaces
        PROVE  DOMAIN d.policies = DOMAIN m.policies
    <2>1. w \in IdsIn(part, "workspace")
      BY DecodedFacts
    <2>2. PICK i \in 1..Len(part) : text[i] = WorkspaceLine(m)[w] /\ w \in DOMAIN m.workspaces
      BY <2>1, LineFacts
    <2>3. Place[text[i].kind] = Place["workspace"]
      BY <2>2, LineKinds
    <2>4. ASSUME NEW p \in DOMAIN m.policies
          PROVE  p \in DOMAIN d.policies
      <3>1. PICK k \in 1..Len(text) : text[k] = PolicyLine(m)[p]
        BY DEF FileOf
      <3>2. text[k].kind = "policy" /\ text[k].id = p
        BY <3>1, LineKinds
      <3>3. k \in DOMAIN part /\ part[k] = text[k]
        BY <1>0, <2>3, <3>2, EarlierLines
      <3>4. p \in IdsIn(part, "policy")
        BY <3>2, <3>3 DEF IdsIn, Range
      <3> QED
        BY <3>4, DecodedFacts
    <2> QED
      BY <2>4, LoadedRecords
  <1>2. ASSUME NEW s \in DOMAIN d.snapshots
        PROVE  /\ DOMAIN d.workspaces = DOMAIN m.workspaces
               /\ \A w : ~LastIs(part, "workspace", w)
    <2>1. s \in IdsIn(part, "snapshot")
      BY DecodedFacts
    <2>2. PICK i \in 1..Len(part) : text[i] = SnapshotLine(m)[s] /\ s \in DOMAIN m.snapshots
      BY <2>1, LineFacts
    <2>3. Place[text[i].kind] = Place["snapshot"]
      BY <2>2, LineKinds
    <2>4. ASSUME NEW w \in DOMAIN m.workspaces
          PROVE  w \in DOMAIN d.workspaces
      <3>1. PICK k \in 1..Len(text) : text[k] = WorkspaceLine(m)[w]
        BY DEF FileOf
      <3>2. text[k].kind = "workspace" /\ text[k].id = w
        BY <3>1, LineKinds
      <3>3. k \in DOMAIN part /\ part[k] = text[k]
        BY <1>0, <2>3, <3>2, EarlierLines
      <3>4. w \in IdsIn(part, "workspace")
        BY <3>2, <3>3 DEF IdsIn, Range
      <3> QED
        BY <3>4, DecodedFacts
    <2>5. ASSUME NEW w, LastIs(part, "workspace", w)
          PROVE  FALSE
      <3> DEFINE n == Len(part)
      <3>1. n \in 1..Len(text) /\ DOMAIN part = 1..n
        BY DEF PrefixOf
      <3>2. n \in 1..n
        BY <3>1
      <3>3. w \in IdsIn(part, "workspace")
        BY <2>5, <3>1, <3>2 DEF LastIs, IdsIn, Range
      <3>4. part[n].kind = "workspace" /\ Shorter(part[n], text[n])
        BY <2>5 DEF LastIs, PrefixOf
      <3>5. text[n].kind = "workspace"
        <4>1. text[n] \in LinesOf(m)
          BY <3>1, ElementOfSeq DEF FileOf
        <4> QED
          BY <3>4, <4>1, ShorterKind
      <3>6. n # Len(part)
        BY <1>0, <2>3, <3>1, <3>5, EarlierLines
      <3> QED
        BY <3>6
    <2> QED
      BY <2>4, <2>5, LoadedRecords
  <1> QED
    BY <1>1, <1>2

(* What a prefix of a file decodes to, compared with what was saved.       *)
LEMMA LoadFacts ==
  ASSUME NEW m, Stored(m), NEW text, FileOf(text, m), NEW part, PrefixOf(part, text)
  PROVE  LET d == DecodeMetadata(part)
         IN  /\ Stored(d)
             /\ \A w \in DOMAIN d.workspaces :
                  /\ w \in DOMAIN m.workspaces
                  /\ d.workspaces[w].state = m.workspaces[w].state
                  /\ d.workspaces[w].limits = m.workspaces[w].limits
                  /\ d.workspaces[w].policy = m.workspaces[w].policy
                  /\ d.workspaces[w].parent \in {m.workspaces[w].parent, NoSnapshot}
                  /\ Dash \notin SnapshotIds =>
                       d.workspaces[w].parent = m.workspaces[w].parent
                  /\ \/ part # text /\ LastIs(part, "workspace", w)
                     \/ d.workspaces[w].accessed = Floor(m.workspaces[w].accessed)
             /\ \A s \in DOMAIN d.snapshots :
                  /\ s \in DOMAIN m.snapshots
                  /\ d.snapshots[s].workspace = m.snapshots[s].workspace
                  /\ d.snapshots[s].created \in 0..Floor(m.snapshots[s].created)
                  /\ \/ part # text /\ LastIs(part, "snapshot", s)
                     \/ d.snapshots[s].created = Floor(m.snapshots[s].created)
             /\ \A p \in DOMAIN d.policies :
                  p \in DOMAIN m.policies /\ d.policies[p] = m.policies[p]
PROOF
  <1> DEFINE d == DecodeMetadata(part)
  <1>1. ASSUME NEW w \in DOMAIN d.workspaces
        PROVE  /\ w \in DOMAIN m.workspaces
               /\ d.workspaces[w] \in Workspace
               /\ d.workspaces[w].state = m.workspaces[w].state
               /\ d.workspaces[w].limits = m.workspaces[w].limits
               /\ d.workspaces[w].policy = m.workspaces[w].policy
               /\ d.workspaces[w].parent \in {m.workspaces[w].parent, NoSnapshot}
               /\ Dash \notin SnapshotIds => d.workspaces[w].parent = m.workspaces[w].parent
               /\ \/ part # text /\ LastIs(part, "workspace", w)
                  \/ d.workspaces[w].accessed = Floor(m.workspaces[w].accessed)
    <2>1. w \in DOMAIN m.workspaces
      BY LoadedRecords
    <2>2. PICK line : /\ d.workspaces[w] = DecodeWorkspace(line.value)
                      /\ Shorter(line, WorkspaceLine(m)[w])
                      /\ \/ part # text /\ LastIs(part, "workspace", w)
                         \/ line = WorkspaceLine(m)[w]
      BY LoadedRecords
    <2> QED
      BY <2>1, <2>2, WorkspaceRead
  <1>2. ASSUME NEW s \in DOMAIN d.snapshots
        PROVE  /\ s \in DOMAIN m.snapshots
               /\ d.snapshots[s] \in Snapshot
               /\ d.snapshots[s].workspace = m.snapshots[s].workspace
               /\ d.snapshots[s].created \in 0..Floor(m.snapshots[s].created)
               /\ \/ part # text /\ LastIs(part, "snapshot", s)
                  \/ d.snapshots[s].created = Floor(m.snapshots[s].created)
    <2>1. s \in DOMAIN m.snapshots
      BY LoadedRecords
    <2>2. PICK line : /\ d.snapshots[s] = DecodeSnapshot(line.value)
                      /\ Shorter(line, SnapshotLine(m)[s])
                      /\ \/ part # text /\ LastIs(part, "snapshot", s)
                         \/ line = SnapshotLine(m)[s]
      BY LoadedRecords
    <2> QED
      BY <2>1, <2>2, SnapshotRead
  <1>3. \A p \in DOMAIN d.policies : p \in DOMAIN m.policies /\ d.policies[p] = m.policies[p]
    BY LoadedRecords
  <1> HIDE DEF d
  <1>4. Stored(d)
    <2>1. /\ DOMAIN d.workspaces \subseteq DOMAIN m.workspaces
          /\ DOMAIN d.snapshots \subseteq DOMAIN m.snapshots
          /\ DOMAIN d.policies \subseteq DOMAIN m.policies
      BY <1>1, <1>2, <1>3
    <2>2. FiniteMaps(d)
      BY <2>1, FS_Subset DEF Stored, FiniteMaps
    <2>3. IsMap(d.workspaces, WorkspaceIds, Workspace) /\ IsMap(d.snapshots, SnapshotIds, Snapshot)
      BY <1>1, <1>2, <2>1 DEF Stored, IsMap
    <2>4. IsMap(d.policies, PolicyIds, PolicyKinds)
      BY <1>3, <2>1 DEF Stored, IsMap
    <2> QED
      BY <2>2, <2>3, <2>4 DEF Stored
  <1> QED
    BY <1>1, <1>2, <1>3, <1>4 DEF d

(* A whole file has every record.                                          *)
LEMMA WholeLoadFacts ==
  ASSUME NEW m, Stored(m)
  PROVE  LET d == DecodeMetadata(Encode(m))
         IN  /\ Readable(Encode(m))
             /\ DOMAIN d.workspaces = DOMAIN m.workspaces
             /\ DOMAIN d.snapshots = DOMAIN m.snapshots
             /\ DOMAIN d.policies = DOMAIN m.policies
             /\ PrefixOf(Encode(m), Encode(m))
PROOF
  <1> DEFINE text == Encode(m)
             d == DecodeMetadata(text)
  <1>1. FileOf(text, m)
    BY EncodeFacts DEF Stored
  <1> HIDE DEF text
  <1>2. DOMAIN text = 1..Len(text) /\ text # <<>> /\ PrefixOf(text, text)
    BY <1>1, LenProperties, WholeFile, EmptySeq DEF FileOf
  <1>3. Readable(text)
    <2>1. \A line \in LinesOf(m) : line.kind \in {"header", "policy", "workspace", "snapshot"}
      BY LineKinds DEF LinesOf
    <2>2. \A i \in 1..Len(text) : text[i] \in LinesOf(m)
      BY <1>1, ElementOfSeq DEF FileOf
    <2>3. Garbage.kind = "garbage"
      BY DEF Garbage
    <2>4. Garbage \notin Range(text)
      BY <1>2, <2>1, <2>2, <2>3 DEF Range
    <2> QED
      BY <1>1, <1>2, <2>4 DEF Readable, FileOf
  <1>4. /\ \A p \in DOMAIN m.policies : p \in IdsIn(text, "policy")
        /\ \A w \in DOMAIN m.workspaces : w \in IdsIn(text, "workspace")
        /\ \A s \in DOMAIN m.snapshots : s \in IdsIn(text, "snapshot")
    <2>1. /\ \A p \in DOMAIN m.policies : PolicyLine(m)[p] \in Range(text)
          /\ \A w \in DOMAIN m.workspaces : WorkspaceLine(m)[w] \in Range(text)
          /\ \A s \in DOMAIN m.snapshots : SnapshotLine(m)[s] \in Range(text)
      BY <1>1, <1>2 DEF FileOf, Range
    <2> QED
      BY <2>1, LineKinds DEF IdsIn
  <1>5. /\ DOMAIN d.workspaces \subseteq DOMAIN m.workspaces
        /\ DOMAIN d.snapshots \subseteq DOMAIN m.snapshots
        /\ DOMAIN d.policies \subseteq DOMAIN m.policies
    BY <1>1, <1>2, LoadedRecords
  <1>6. /\ DOMAIN d.workspaces = IdsIn(text, "workspace")
        /\ DOMAIN d.snapshots = IdsIn(text, "snapshot")
        /\ DOMAIN d.policies = IdsIn(text, "policy")
    BY DecodedFacts
  <1> HIDE DEF d
  <1> QED
    BY <1>2, <1>3, <1>4, <1>5, <1>6 DEF text, d

(* What is loaded from a whole file is what was saved, to the second.      *)
LEMMA RoundTrip ==
  ASSUME NEW m, Stored(m), Dash \notin SnapshotIds,
         m = [workspaces |-> m.workspaces, snapshots |-> m.snapshots, policies |-> m.policies],
         m.policies = [p \in DOMAIN m.policies |-> m.policies[p]]
  PROVE  DecodeMetadata(Encode(m)) = ToTheSecond(m)
PROOF
  <1> DEFINE d == DecodeMetadata(Encode(m))
             f == ToTheSecond(m)
  <1>1. /\ DOMAIN d.workspaces = DOMAIN m.workspaces
        /\ DOMAIN d.snapshots = DOMAIN m.snapshots
        /\ DOMAIN d.policies = DOMAIN m.policies
        /\ FileOf(Encode(m), m)
        /\ PrefixOf(Encode(m), Encode(m))
    BY WholeLoadFacts, EncodeFacts DEF Stored
  <1>2. Stored(d)
    BY <1>1, LoadFacts
  <1>3. /\ f.workspaces = [w \in DOMAIN m.workspaces |->
                             [m.workspaces[w] EXCEPT !.accessed = Floor(@)]]
        /\ f.snapshots = [s \in DOMAIN m.snapshots |->
                             [m.snapshots[s] EXCEPT !.created = Floor(@)]]
        /\ f.policies = m.policies
        /\ f = [workspaces |-> f.workspaces, snapshots |-> f.snapshots,
                policies |-> f.policies]
    <2> DEFINE W == [w \in DOMAIN m.workspaces |-> [m.workspaces[w] EXCEPT !.accessed = Floor(@)]]
               S == [s \in DOMAIN m.snapshots |-> [m.snapshots[s] EXCEPT !.created = Floor(@)]]
    <2>1. f = [m EXCEPT !.workspaces = W, !.snapshots = S]
      BY DEF ToTheSecond
    <2> HIDE DEF W, S, f
    <2> QED
      BY <2>1 DEF W, S
  <1>4. d = [workspaces |-> d.workspaces, snapshots |-> d.snapshots, policies |-> d.policies]
    BY DEF DecodeMetadata
  <1>5. d.workspaces = f.workspaces
    <2>1. ASSUME NEW w \in DOMAIN m.workspaces
          PROVE  d.workspaces[w] = [m.workspaces[w] EXCEPT !.accessed = Floor(@)]
      <3>1. d.workspaces[w] \in Workspace /\ m.workspaces[w] \in Workspace
        BY <1>1, <1>2 DEF Stored, IsMap
      <3>2. /\ d.workspaces[w].state = m.workspaces[w].state
            /\ d.workspaces[w].limits = m.workspaces[w].limits
            /\ d.workspaces[w].policy = m.workspaces[w].policy
            /\ d.workspaces[w].parent = m.workspaces[w].parent
            /\ d.workspaces[w].accessed = Floor(m.workspaces[w].accessed)
        BY <1>1, LoadFacts
      <3> HIDE DEF d
      <3> QED
        BY <3>1, <3>2 DEF Workspace
    <2>2. d.workspaces = [w \in DOMAIN m.workspaces |-> d.workspaces[w]]
      BY <1>1 DEF DecodeMetadata, Records
    <2> HIDE DEF d, f
    <2> QED
      BY <1>3, <2>1, <2>2
  <1>6. d.snapshots = f.snapshots
    <2>1. ASSUME NEW s \in DOMAIN m.snapshots
          PROVE  d.snapshots[s] = [m.snapshots[s] EXCEPT !.created = Floor(@)]
      <3>1. d.snapshots[s] \in Snapshot /\ m.snapshots[s] \in Snapshot
        BY <1>1, <1>2 DEF Stored, IsMap
      <3>2. /\ d.snapshots[s].workspace = m.snapshots[s].workspace
            /\ d.snapshots[s].created = Floor(m.snapshots[s].created)
        BY <1>1, LoadFacts
      <3> HIDE DEF d
      <3> QED
        BY <3>1, <3>2 DEF Snapshot
    <2>2. d.snapshots = [s \in DOMAIN m.snapshots |-> d.snapshots[s]]
      BY <1>1 DEF DecodeMetadata, Records
    <2> HIDE DEF d, f
    <2> QED
      BY <1>3, <2>1, <2>2
  <1>7. d.policies = f.policies
    <2>1. \A p \in DOMAIN m.policies : d.policies[p] = m.policies[p]
      BY <1>1, LoadFacts
    <2>2. d.policies = [p \in DOMAIN m.policies |-> d.policies[p]]
      BY <1>1 DEF DecodeMetadata, Records
    <2> HIDE DEF d, f
    <2> QED
      BY <1>3, <2>1, <2>2
  <1> HIDE DEF d, f
  <1> QED
    BY <1>3, <1>4, <1>5, <1>6, <1>7 DEF d, f

-----------------------------------------------------------------------------
(* The metadata of a control plane.                                        *)

\* The types say what the policies are, not that they are a map.
PoliciesMapped == policies = [p \in DOMAIN policies |-> policies[p]]

Kept == TypeOK /\ Finite /\ PoliciesMapped

LEMMA InitKept == Init => Kept
PROOF
  <1> SUFFICES ASSUME Init PROVE Kept
    OBVIOUS
  <1>1. PoliciesMapped
    BY DEF Init, NewPolicies, Put, PoliciesMapped
  <1> QED
    BY <1>1, InitType, InitFinite DEF Kept

(* Policies are only ever put.                                             *)
LEMMA PolicySteps ==
  ASSUME Operation \/ GcStep \/ Tick
  PROVE  policies' = policies \/ \E p, kind : policies' = Put(policies, p, kind)
PROOF
  <1>1. ASSUME NEW w \in WorkspaceIds,
               CreateWorkspace(w) \/ DeleteWorkspace(w) \/ OpenSession(w)
        PROVE  policies' = policies
    BY <1>1 DEF CreateWorkspace, DeleteWorkspace, OpenSession
  <1>2. ASSUME NEW w \in WorkspaceIds, NEW s \in SnapshotIds,
               SnapshotWorkspace(w, s) \/ BranchWorkspace(s, w)
        PROVE  policies' = policies
    BY <1>2 DEF SnapshotWorkspace, BranchWorkspace
  <1>3. ASSUME NEW w \in WorkspaceIds, NEW limits \in Limits, SetLimits(w, limits)
        PROVE  policies' = policies
    BY <1>3 DEF SetLimits
  <1>4. ASSUME NEW w \in WorkspaceIds, NEW p \in PolicyIds, NEW kind \in PolicyKinds,
               SetNetworkPolicy(w, p, kind)
        PROVE  policies' = Put(policies, p, kind)
    BY <1>4 DEF SetNetworkPolicy
  <1>5. ASSUME NEW action \in GcAction, PurgeOne(action) PROVE policies' = policies
    BY <1>5 DEF PurgeOne
  <1>6. CASE GcStep \/ Tick
    BY <1>6 DEF GcStep, Tick
  <1> QED
    BY <1>1, <1>2, <1>3, <1>4, <1>5, <1>6 DEF Operation

LEMMA NextKept == Kept /\ [Next]_vars => Kept'
PROOF
  <1> SUFFICES ASSUME Kept, [Next]_vars PROVE Kept'
    OBVIOUS
  <1>1. TypeOK'
    BY NextType DEF Kept
  <1>2. CASE Operation \/ GcStep \/ Tick
    <2>1. Finite'
      BY <1>2, StepFinite DEF Kept
    <2>2. PoliciesMapped'
      BY <1>2, PolicySteps DEF Kept, PoliciesMapped, Put
    <2> QED
      BY <1>1, <2>1, <2>2 DEF Kept
  <1>3. CASE Restart
    <2>1. Finite'
      BY <1>3, StepFinite DEF Kept
    <2>2. PoliciesMapped'
      BY <1>3 DEF Restart, NewPolicies, Put, PoliciesMapped
    <2> QED
      BY <1>1, <2>1, <2>2 DEF Kept
  <1>4. CASE UNCHANGED <<workspaces, snapshots, policies>>
    BY <1>1, <1>4 DEF Kept, Finite, PoliciesMapped
  <1> QED
    BY <1>2, <1>3, <1>4 DEF Next, ExecuteGcActions, vars

LEMMA AlwaysKept == Spec => []Kept
PROOF
  <1> QED
    BY InitKept, NextKept, PTL DEF Spec

LEMMA MetadataStored == Kept => Stored(Metadata)
PROOF
  <1> SUFFICES ASSUME Kept PROVE Stored(Metadata)
    OBVIOUS
  <1>1. /\ Metadata.workspaces = workspaces
        /\ Metadata.snapshots = snapshots
        /\ Metadata.policies = policies
    BY DEF Metadata
  <1> QED
    BY <1>1 DEF Kept, TypeOK, Finite, Stored, FiniteMaps

(* What is saved is what is loaded, to the second, unless an id is spelled *)
(* like the field of no parent (metadata.rs:25,47).                        *)
THEOREM SavedAlwaysLoads ==
  ASSUME Dash \notin SnapshotIds
  PROVE  Spec => []SavedIsLoaded
PROOF
  <1>1. Kept => SavedIsLoaded
    <2> SUFFICES ASSUME Kept PROVE SavedIsLoaded
      OBVIOUS
    <2>1. Metadata = [workspaces |-> Metadata.workspaces, snapshots |-> Metadata.snapshots,
                      policies |-> Metadata.policies]
      BY DEF Metadata
    <2>2. Metadata.policies
            = [p \in DOMAIN Metadata.policies |-> Metadata.policies[p]]
      BY DEF Kept, PoliciesMapped, Metadata
    <2> QED
      BY <2>1, <2>2, MetadataStored, RoundTrip, WholeLoadFacts DEF SavedIsLoaded
  <1> QED
    BY <1>1, AlwaysKept, PTL

(* A torn file that loads is a prefix of the whole one.                    *)
LEMMA TornPrefix ==
  ASSUME NEW m, Stored(m), NEW torn \in Torn(Encode(m)), Readable(torn)
  PROVE  FileOf(Encode(m), m) /\ PrefixOf(torn, Encode(m))
PROOF
  <1>1. FileOf(Encode(m), m)
    BY EncodeFacts DEF Stored
  <1> QED
    BY <1>1, TornFacts DEF FileOf

(* A file that was cut anywhere has the policies of the workspaces it has, *)
(* because they come first and the metadata had them all (metadata.rs:32). *)
THEOREM TornPoliciesAlwaysResolve == Spec => []TornPoliciesResolve
PROOF
  <1>1. Kept /\ PoliciesResolve => TornPoliciesResolve
    <2> SUFFICES ASSUME Kept, PoliciesResolve,
                        NEW torn \in Torn(Encode(Metadata)), Readable(torn),
                        NEW w \in DOMAIN DecodeMetadata(torn).workspaces
                 PROVE  DecodeMetadata(torn).workspaces[w].policy
                          \in DOMAIN DecodeMetadata(torn).policies
      BY DEF TornPoliciesResolve
    <2> DEFINE d == DecodeMetadata(torn)
    <2>1. /\ FileOf(Encode(Metadata), Metadata)
          /\ PrefixOf(torn, Encode(Metadata))
          /\ Stored(Metadata)
      BY MetadataStored, TornPrefix
    <2>2. /\ w \in DOMAIN workspaces
          /\ d.workspaces[w].policy = workspaces[w].policy
      BY <2>1, LoadFacts DEF Metadata
    <2>3. DOMAIN d.policies = DOMAIN policies
      BY <2>1, LoadedInOrder DEF Metadata
    <2> QED
      BY <2>2, <2>3 DEF PoliciesResolve
  <1> QED
    BY <1>1, AlwaysKept, PoliciesAlwaysResolve, PTL

-----------------------------------------------------------------------------
(* Plans made from a file.                                                 *)

LEMMA StoredWellFormed ==
  ASSUME NEW m, Stored(m)
  PROVE  WellFormed(m)
PROOF
  <1>1. DOMAIN m.workspaces \subseteq Nat /\ DOMAIN m.snapshots \subseteq Nat
    BY StoreAssumption DEF Stored, IsMap
  <1>2. ASSUME NEW s \in DOMAIN m.snapshots
        PROVE  m.snapshots[s].workspace \in Nat /\ m.snapshots[s].created \in Int
    <2>1. m.snapshots[s] \in Snapshot
      BY DEF Stored, IsMap
    <2>2. m.snapshots[s].workspace \in WorkspaceIds /\ m.snapshots[s].created \in Times
      BY <2>1 DEF Snapshot
    <2>3. m.snapshots[s].created \in Nat
      BY <2>2, TimesAreNatural
    <2>4. m.snapshots[s].workspace \in Nat
      BY <2>2, StoreAssumption
    <2> QED
      BY <2>3, <2>4
  <1> QED
    BY <1>1, <1>2 DEF Stored, FiniteMaps, WellFormed

\* The metadata of the file n has no record that m has not, and the same ones
\* but for times, which are not later.
Within(n, m) ==
  /\ \A w \in DOMAIN n.workspaces :
       /\ w \in DOMAIN m.workspaces
       /\ n.workspaces[w].state = m.workspaces[w].state
       /\ n.workspaces[w].parent = m.workspaces[w].parent
  /\ \A s \in DOMAIN n.snapshots :
       /\ s \in DOMAIN m.snapshots
       /\ n.snapshots[s].workspace = m.snapshots[s].workspace
       /\ n.snapshots[s].created \in Int /\ m.snapshots[s].created \in Int
       /\ n.snapshots[s].created <= m.snapshots[s].created

(* An action asked for in n and not in m is about a record whose time is   *)
(* not the one it has in m: no protection is lost as long as a snapshot    *)
(* comes with every workspace.                                             *)
LEMMA AskedWithin ==
  ASSUME NEW n, NEW m, Within(n, m), IsFiniteSet(DOMAIN m.snapshots), NEW now,
         DOMAIN n.snapshots # {} => DOMAIN n.workspaces = DOMAIN m.workspaces,
         NEW action \in Asked(n, now) \ Asked(m, now)
  PROVE  \/ \E w \in DOMAIN n.workspaces :
              /\ action = WorkspaceAction(w)
              /\ n.workspaces[w].accessed # m.workspaces[w].accessed
         \/ \E s \in DOMAIN n.snapshots :
              /\ action = SnapshotAction(s)
              /\ n.snapshots[s].created # m.snapshots[s].created
PROOF
  <1>1. ASSUME NEW w \in Expired(n, now), action = WorkspaceAction(w)
        PROVE  /\ w \in DOMAIN n.workspaces
               /\ n.workspaces[w].accessed # m.workspaces[w].accessed
    <2>1. w \notin Expired(m, now)
      BY <1>1 DEF Asked
    <2> QED
      BY <2>1 DEF Expired, Within
  <1>2. ASSUME NEW s \in Surplus(n) \ Protected(n), action = SnapshotAction(s)
        PROVE  /\ s \in DOMAIN n.snapshots
               /\ n.snapshots[s].created # m.snapshots[s].created
    <2>1. s \in DOMAIN n.snapshots
      BY DEF Surplus
    <2>2. Protected(m) = Protected(n)
      BY <2>1 DEF Protected, Within
    <2>3. s \notin Surplus(m)
      BY <1>2, <2>2 DEF Asked
    <2>4. ASSUME n.snapshots[s].created = m.snapshots[s].created
          PROVE  NewerSiblings(n, s) \subseteq NewerSiblings(m, s)
      <3> SUFFICES ASSUME NEW t \in NewerSiblings(n, s) PROVE t \in NewerSiblings(m, s)
        OBVIOUS
      <3>1. /\ t \in DOMAIN n.snapshots
            /\ n.snapshots[t].workspace = n.snapshots[s].workspace
            /\ Newer(n, t, s)
        BY DEF NewerSiblings, Siblings
      <3>2. /\ t \in DOMAIN m.snapshots
            /\ m.snapshots[t].workspace = m.snapshots[s].workspace
        BY <2>1, <3>1 DEF Within
      <3>3. Newer(m, t, s)
        BY <2>1, <2>4, <3>1 DEF Within, Newer
      <3> QED
        BY <3>2, <3>3 DEF NewerSiblings, Siblings
    <2>5. s \in DOMAIN m.snapshots
      BY <2>1 DEF Within
    <2> QED
      BY <2>1, <2>3, <2>4, <2>5, SurplusCarries
  <1> QED
    BY <1>1, <1>2 DEF Asked

(* A plan made from a torn file asks for nothing that one made from the    *)
(* whole file does not, except for the record whose line was cut.          *)
THEOREM TornPlansAlwaysDue ==
  ASSUME Dash \notin SnapshotIds
  PROVE  Spec => []TornPlansAreDue
PROOF
  <1>1. Kept => TornPlansAreDue
    <2> SUFFICES ASSUME Kept, NEW torn \in Torn(Encode(Metadata)), Readable(torn),
                        NEW action \in PlannedFor(DecodeMetadata(torn))
                                         \ PlannedFor(ToTheSecond(Metadata))
                 PROVE  IsFor(action, torn[Len(torn)])
      BY DEF TornPlansAreDue
    <2> DEFINE M == Metadata
               n == DecodeMetadata(torn)
               m == ToTheSecond(M)
    <2>1. /\ Stored(M)
          /\ FileOf(Encode(M), M)
          /\ PrefixOf(torn, Encode(M))
          /\ PrefixOf(Encode(M), Encode(M))
      BY MetadataStored, TornPrefix, WholeLoadFacts
    <2>2. m = DecodeMetadata(Encode(M))
      <3>1. /\ M = [workspaces |-> M.workspaces, snapshots |-> M.snapshots,
                    policies |-> M.policies]
            /\ M.policies = [p \in DOMAIN M.policies |-> M.policies[p]]
        BY DEF Metadata, Kept, PoliciesMapped
      <3> QED
        BY <2>1, <3>1, RoundTrip
    <2> HIDE DEF M, n, m
    <2>3. Stored(n) /\ Stored(m)
      BY <2>1, <2>2, LoadFacts DEF n
    <2>4. /\ DOMAIN m.workspaces = DOMAIN M.workspaces
          /\ DOMAIN m.snapshots = DOMAIN M.snapshots
      BY <2>1, <2>2, WholeLoadFacts
    <2>5. ASSUME NEW w \in DOMAIN n.workspaces
          PROVE  /\ w \in DOMAIN m.workspaces
                 /\ n.workspaces[w].state = m.workspaces[w].state
                 /\ n.workspaces[w].parent = m.workspaces[w].parent
                 /\ \/ LastIs(torn, "workspace", w)
                    \/ n.workspaces[w].accessed = m.workspaces[w].accessed
      <3>1. /\ w \in DOMAIN M.workspaces
            /\ n.workspaces[w].state = M.workspaces[w].state
            /\ n.workspaces[w].parent = M.workspaces[w].parent
            /\ \/ LastIs(torn, "workspace", w)
               \/ n.workspaces[w].accessed = Floor(M.workspaces[w].accessed)
        BY <2>1, LoadFacts DEF n
      <3>2. /\ m.workspaces[w].state = M.workspaces[w].state
            /\ m.workspaces[w].parent = M.workspaces[w].parent
            /\ m.workspaces[w].accessed = Floor(M.workspaces[w].accessed)
        BY <2>1, <2>2, <2>4, <3>1, LoadFacts
      <3> QED
        BY <2>4, <3>1, <3>2
    <2>6. ASSUME NEW s \in DOMAIN n.snapshots
          PROVE  /\ s \in DOMAIN m.snapshots
                 /\ n.snapshots[s].workspace = m.snapshots[s].workspace
                 /\ n.snapshots[s].created <= m.snapshots[s].created
                 /\ n.snapshots[s].created \in Int /\ m.snapshots[s].created \in Int
                 /\ \/ LastIs(torn, "snapshot", s)
                    \/ n.snapshots[s].created = m.snapshots[s].created
      <3>1. /\ s \in DOMAIN M.snapshots
            /\ n.snapshots[s].workspace = M.snapshots[s].workspace
            /\ n.snapshots[s].created \in 0..Floor(M.snapshots[s].created)
            /\ \/ LastIs(torn, "snapshot", s)
               \/ n.snapshots[s].created = Floor(M.snapshots[s].created)
        BY <2>1, LoadFacts DEF n
      <3>2. /\ m.snapshots[s].workspace = M.snapshots[s].workspace
            /\ m.snapshots[s].created = Floor(M.snapshots[s].created)
        BY <2>1, <2>2, <2>4, <3>1, LoadFacts
      <3>3. n.snapshots[s].created \in Int /\ m.snapshots[s].created \in Int
        BY <2>3, <2>4, <3>1, StoredWellFormed DEF WellFormed
      <3> QED
        BY <2>4, <3>1, <3>2, <3>3
    <2>7. Within(n, m)
      BY <2>5, <2>6 DEF Within
    <2>8. DOMAIN n.snapshots # {} => DOMAIN n.workspaces = DOMAIN m.workspaces
      BY <2>1, <2>4, LoadedInOrder DEF n
    <2>9. action \in Asked(n, clock) \ Asked(m, clock)
      BY <2>3, StoredWellFormed, PlanIsAsked DEF PlannedFor, n, m, M
    <2>10. IsFiniteSet(DOMAIN m.snapshots)
      BY <2>3 DEF Stored, FiniteMaps
    <2>11. CASE \E w \in DOMAIN n.workspaces :
                  /\ action = WorkspaceAction(w)
                  /\ n.workspaces[w].accessed # m.workspaces[w].accessed
      BY <2>5, <2>11 DEF LastIs, IsFor, WorkspaceAction
    <2>12. CASE \E s \in DOMAIN n.snapshots :
                  /\ action = SnapshotAction(s)
                  /\ n.snapshots[s].created # m.snapshots[s].created
      BY <2>6, <2>12 DEF LastIs, IsFor, SnapshotAction
    <2> QED
      BY <2>7, <2>8, <2>9, <2>10, <2>11, <2>12, AskedWithin
  <1> QED
    BY <1>1, AlwaysKept, PTL

(* A plan made after a save and a load differs from one made before only   *)
(* where the fractions of a second told two times apart.                   *)
THEOREM ReloadedPlansAlwaysClose ==
  ASSUME Dash \notin SnapshotIds
  PROVE  Spec => []ReloadedPlansAreClose
PROOF
  <1> DEFINE m == Metadata
             n == DecodeMetadata(Encode(m))
  <1>1. ASSUME Kept
        PROVE  /\ Stored(m) /\ Stored(n)
               /\ DOMAIN n.workspaces = DOMAIN workspaces
               /\ DOMAIN n.snapshots = DOMAIN snapshots
               /\ \A w \in DOMAIN workspaces :
                    /\ n.workspaces[w].state = workspaces[w].state
                    /\ n.workspaces[w].parent = workspaces[w].parent
                    /\ n.workspaces[w].accessed = Floor(workspaces[w].accessed)
                    /\ workspaces[w].accessed \in Nat
               /\ \A s \in DOMAIN snapshots :
                    /\ n.snapshots[s].workspace = snapshots[s].workspace
                    /\ n.snapshots[s].created = Floor(snapshots[s].created)
                    /\ snapshots[s].created \in Nat
    <2>0. m.workspaces = workspaces /\ m.snapshots = snapshots
      BY DEF Metadata
    <2> HIDE DEF m
    <2>1. Stored(m)
      BY <1>1, MetadataStored DEF m
    <2>2. /\ FileOf(Encode(m), m) /\ PrefixOf(Encode(m), Encode(m))
          /\ DOMAIN n.workspaces = DOMAIN m.workspaces
          /\ DOMAIN n.snapshots = DOMAIN m.snapshots
      BY <2>1, EncodeFacts, WholeLoadFacts DEF Stored
    <2>3. /\ \A w \in DOMAIN workspaces : workspaces[w].accessed \in Nat
          /\ \A s \in DOMAIN snapshots : snapshots[s].created \in Nat
      BY <1>1, TimesAreNatural DEF Kept, TypeOK, IsMap, Workspace, Snapshot
    <2> QED
      BY <2>0, <2>1, <2>2, <2>3, LoadFacts
  <1> HIDE DEF m, n
  <1>2. ASSUME Kept, NEW w \in Expired(n, clock), w \notin Expired(m, clock)
        PROVE  /\ Deleted(w)
               /\ clock - workspaces[w].accessed > DeleteAfter - TicksPerSecond
    <2> DEFINE x == workspaces[w].accessed
    <2>1. /\ w \in DOMAIN workspaces /\ workspaces[w].state = "Deleted"
          /\ x \in Nat
          /\ Age(clock, Floor(x)) >= DeleteAfter
      BY <1>1, <1>2 DEF Expired
    <2>2. ~(Age(clock, x) >= DeleteAfter)
      BY <1>2, <2>1 DEF Expired, m, Metadata
    <2>3. clock \in Nat /\ DeleteAfter \in Nat /\ TicksPerSecond \in Nat
      BY <1>2, TimesAreNatural, GcAssumption, StoreAssumption DEF Kept, TypeOK
    <2>4. Floor(x) \in 0..x /\ x - Floor(x) < TicksPerSecond
      BY <2>1, SecondsFacts
    <2> HIDE DEF x
    <2>5. clock - x > DeleteAfter - TicksPerSecond
      BY <2>1, <2>2, <2>3, <2>4 DEF Age
    <2> QED
      BY <2>1, <2>5 DEF Deleted, x
  <1>3. ASSUME Kept, NEW s \in Surplus(n) \ Protected(n), s \notin Surplus(m) \ Protected(m)
        PROVE  \E t \in DOMAIN snapshots :
                 /\ snapshots[t].workspace = snapshots[s].workspace
                 /\ snapshots[t].created < snapshots[s].created
                 /\ Floor(snapshots[t].created) = Floor(snapshots[s].created)
    <2>1. s \in DOMAIN snapshots
      BY <1>1, <1>3 DEF Surplus
    <2>2. Protected(m) = Protected(n)
      BY <1>1, <1>3 DEF Protected, m, Metadata
    <2>3. s \notin Surplus(m)
      BY <1>3, <2>2
    <2>4. m.snapshots = snapshots /\ IsFiniteSet(DOMAIN snapshots)
      BY <1>1, <1>3 DEF m, Metadata, Stored, FiniteMaps
    <2>5. PICK t \in NewerSiblings(n, s) : t \notin NewerSiblings(m, s)
      BY <1>3, <2>1, <2>3, <2>4, SurplusCarries
    <2>6. /\ t \in DOMAIN snapshots
          /\ snapshots[t].workspace = snapshots[s].workspace
          /\ Newer(n, t, s)
      BY <1>1, <1>3, <2>1, <2>5 DEF NewerSiblings, Siblings
    <2>7. ~Newer(m, t, s)
      BY <2>4, <2>5, <2>6 DEF NewerSiblings, Siblings
    <2> DEFINE x == snapshots[t].created
               y == snapshots[s].created
    <2>8. /\ x \in Nat /\ y \in Nat
          /\ Floor(x) > Floor(y) \/ (Floor(x) = Floor(y) /\ t < s)
      BY <1>1, <1>3, <2>1, <2>6 DEF Newer
    <2>9. ~(x > y) /\ ~(x = y /\ t < s)
      BY <2>4, <2>7 DEF Newer
    <2> HIDE DEF x, y
    <2>10. Floor(x) \in Int /\ Floor(y) \in Int /\ Floor(x) <= Floor(y)
      BY <2>8, <2>9, SecondsFacts, SecondsGrow
    <2>11. Floor(x) = Floor(y) /\ x < y
      BY <2>8, <2>9, <2>10
    <2> QED
      BY <2>6, <2>11 DEF x, y
  <1>4. Kept => ReloadedPlansAreClose
    <2> SUFFICES ASSUME Kept, NEW action \in PlannedFor(n) \ PlannedFor(m)
                 PROVE  IF action.kind = "DeleteSnapshot"
                        THEN \E s \in DOMAIN snapshots :
                               /\ snapshots[s].workspace = snapshots[action.id].workspace
                               /\ snapshots[s].created < snapshots[action.id].created
                               /\ Floor(snapshots[s].created)
                                    = Floor(snapshots[action.id].created)
                        ELSE /\ Deleted(action.id)
                             /\ clock - workspaces[action.id].accessed
                                  > DeleteAfter - TicksPerSecond
      BY DEF ReloadedPlansAreClose, n, m
    <2>1. action \in Asked(n, clock) \ Asked(m, clock)
      BY <1>1, StoredWellFormed, PlanIsAsked DEF PlannedFor
    <2>2. ASSUME NEW w \in Expired(n, clock), action = WorkspaceAction(w)
          PROVE  /\ w \notin Expired(m, clock)
                 /\ action.kind # "DeleteSnapshot" /\ action.id = w
      BY <2>1, <2>2 DEF Asked, WorkspaceAction
    <2>3. ASSUME NEW s \in Surplus(n) \ Protected(n), action = SnapshotAction(s)
          PROVE  /\ s \notin Surplus(m) \ Protected(m)
                 /\ action.kind = "DeleteSnapshot" /\ action.id = s
      BY <2>1, <2>3 DEF Asked, SnapshotAction
    <2> QED
      BY <1>2, <1>3, <2>1, <2>2, <2>3 DEF Asked
  <1> QED
    BY <1>4, AlwaysKept, PTL

-----------------------------------------------------------------------------
(* The daemon.                                                             *)

\* A file that Load accepts, and the metadata it loads.
Loadable == file # NoFile /\ Readable(file)
Loaded   == DecodeMetadata(file)

\* The control plane is typed, and so is whatever it may load.
DaemonKept ==
  /\ Kept
  /\ released \subseteq DOMAIN disk.roots
  /\ sound \in BOOLEAN /\ fileSound \in BOOLEAN
  /\ Loadable => Stored(Loaded)

(* A step of the daemon is one of the control plane, but for Load, which   *)
(* replaces the metadata alone.                                            *)
LEMMA DaemonSteps ==
  ASSUME [DaemonNext]_daemonVars
  PROVE  \/ Save /\ UNCHANGED vars
         \/ Load
         \/ Call /\ [Next]_vars
         \/ Environment /\ [Next]_vars
         \/ UNCHANGED daemonVars
BY DEF DaemonNext, Save, Call, Environment, daemonVars, vars, Next

(* What is in the file after a save: all of the metadata, the beginning of *)
(* it, or what was in it before.                                           *)
LEMMA SaveFacts ==
  ASSUME Kept, Save
  PROVE  \/ file' = file
         \/ Loadable' => FileOf(Encode(Metadata), Metadata) /\ PrefixOf(file', Encode(Metadata))
PROOF
  <1>1. Stored(Metadata)
    BY MetadataStored
  <1>2. /\ FileOf(Encode(Metadata), Metadata)
        /\ PrefixOf(Encode(Metadata), Encode(Metadata))
    BY <1>1, EncodeFacts, WholeLoadFacts DEF Stored
  <1>3. CASE file' = Encode(Metadata)
    BY <1>2, <1>3
  <1>4. CASE file' \in Torn(Encode(Metadata))
    BY <1>1, <1>2, <1>4, TornPrefix DEF Loadable
  <1> QED
    BY <1>3, <1>4 DEF Save, SaveOutcomes

(* What is loaded has the types of the metadata.                           *)
LEMMA LoadType ==
  ASSUME DaemonKept, Load
  PROVE  Kept'
PROOF
  <1>1. Loadable /\ Stored(Loaded)
    BY DEF Load, Loadable, DaemonKept
  <1>2. /\ workspaces' = Loaded.workspaces
        /\ snapshots' = Loaded.snapshots
        /\ policies' = Loaded.policies
        /\ UNCHANGED <<disk, clock, queue>>
    BY DEF Load, Loaded
  <1>3. Loaded.policies = [p \in DOMAIN Loaded.policies |-> Loaded.policies[p]]
    BY DEF Loaded, DecodeMetadata, Records
  <1>4. TypeOK' /\ Finite'
    BY <1>1, <1>2 DEF DaemonKept, Kept, TypeOK, Finite, Stored, FiniteMaps
  <1>5. PoliciesMapped'
    BY <1>2, <1>3 DEF PoliciesMapped
  <1> QED
    BY <1>4, <1>5 DEF Kept

LEMMA InitDaemonKept == DaemonInit => DaemonKept
BY InitKept DEF DaemonInit, Init, DaemonKept, Loadable

LEMMA NextDaemonKept == DaemonKept /\ [DaemonNext]_daemonVars => DaemonKept'
PROOF
  <1> SUFFICES ASSUME DaemonKept, [DaemonNext]_daemonVars PROVE DaemonKept'
    OBVIOUS
  <1>0. /\ Kept
        /\ released \subseteq DOMAIN disk.roots
        /\ sound \in BOOLEAN /\ fileSound \in BOOLEAN
        /\ Loadable => Stored(Loaded)
    BY DEF DaemonKept
  <1>1. CASE Save /\ UNCHANGED vars
    <2>1. Kept'
      BY <1>0, <1>1, NextKept
    <2>2. UNCHANGED <<disk, released, sound>>
      BY <1>1 DEF Save
    <2>3. fileSound' \in BOOLEAN
      <3>1. CASE file' = Encode(Metadata)
        BY <1>0, <1>1, <3>1 DEF Save
      <3>2. CASE file' # Encode(Metadata)
        BY <1>0, <1>1, <3>2 DEF Save
      <3> QED
        BY <3>1, <3>2
    <2>4. Loadable' => Stored(Loaded)'
      <3>1. CASE file' = file
        BY <1>0, <3>1 DEF Loadable, Loaded
      <3>2. ASSUME PrefixOf(file', Encode(Metadata)), FileOf(Encode(Metadata), Metadata)
            PROVE  Stored(Loaded)'
        BY <1>0, <3>2, MetadataStored, LoadFacts DEF Loaded
      <3> QED
        BY <1>0, <1>1, <3>1, <3>2, SaveFacts
    <2> QED
      BY <1>0, <2>1, <2>2, <2>3, <2>4 DEF DaemonKept
  <1>2. CASE Load
    <2>1. Kept'
      BY <1>2, LoadType
    <2>2. sound' = fileSound /\ UNCHANGED <<disk, released, file, fileSound>>
      BY <1>2 DEF Load
    <2> QED
      BY <1>0, <2>1, <2>2 DEF DaemonKept, Loadable, Loaded
  <1>3. CASE Call /\ [Next]_vars
    <2>1. Kept'
      BY <1>0, <1>3, NextKept
    <2>2. released' \subseteq DOMAIN disk'.roots /\ UNCHANGED <<file, sound, fileSound>>
      BY <1>3 DEF Call
    <2> QED
      BY <1>0, <2>1, <2>2 DEF DaemonKept, Loadable, Loaded
  <1>4. CASE Environment /\ [Next]_vars
    <2>1. Kept'
      BY <1>0, <1>4, NextKept
    <2>2. UNCHANGED <<disk, released, file, fileSound>>
      BY <1>4 DEF Environment, Tick, Restart
    <2>3. sound' \in BOOLEAN
      BY <1>0, <1>4 DEF Environment
    <2> QED
      BY <1>0, <2>1, <2>2, <2>3 DEF DaemonKept, Loadable, Loaded
  <1>5. CASE UNCHANGED daemonVars
    <2>1. UNCHANGED vars /\ UNCHANGED <<file, released, sound, fileSound>>
      BY <1>5 DEF daemonVars, vars, history
    <2>2. Kept'
      BY <1>0, <2>1, NextKept
    <2>3. UNCHANGED disk
      BY <2>1 DEF vars
    <2> QED
      BY <1>0, <2>1, <2>2, <2>3 DEF DaemonKept, Loadable, Loaded
  <1> QED
    BY <1>1, <1>2, <1>3, <1>4, <1>5, DaemonSteps

LEMMA AlwaysDaemonKept == DaemonSpec => []DaemonKept
PROOF
  <1> QED
    BY InitDaemonKept, NextDaemonKept, PTL DEF DaemonSpec

(* The daemon is typed, whatever file it was made to load.                 *)
THEOREM DaemonTypeCorrect == DaemonSpec => []DaemonTypeOK
PROOF
  <1>1. DaemonKept => DaemonTypeOK
    BY DEF DaemonKept, Kept, DaemonTypeOK
  <1> QED
    BY <1>1, AlwaysDaemonKept, PTL

-----------------------------------------------------------------------------
(* Reloaded metadata resolves.                                             *)

\* Every branch has its snapshot, every workspace its policy, and new
\* workspaces will have theirs.
ResolvedIn(m) ==
  /\ DefaultPolicy \in DOMAIN m.policies
  /\ \A w \in DOMAIN m.workspaces :
       /\ m.workspaces[w].policy \in DOMAIN m.policies
       /\ m.workspaces[w].parent # NoSnapshot =>
            m.workspaces[w].parent \in DOMAIN m.snapshots

LEMMA MetadataResolved == ResolvedIn(Metadata) <=> Resolved
BY DEF ResolvedIn, Resolved, Metadata, ParentsLive, PoliciesKept, PoliciesResolve

(* Metadata that resolves is saved and loaded as such: its domains are     *)
(* kept, its policies, and its parents or that there is none.              *)
LEMMA ReloadResolves ==
  ASSUME NEW m, Stored(m), ResolvedIn(m)
  PROVE  ResolvedIn(DecodeMetadata(Encode(m)))
PROOF
  <1> DEFINE d == DecodeMetadata(Encode(m))
  <1>1. /\ DOMAIN d.workspaces = DOMAIN m.workspaces
        /\ DOMAIN d.snapshots = DOMAIN m.snapshots
        /\ DOMAIN d.policies = DOMAIN m.policies
        /\ FileOf(Encode(m), m) /\ PrefixOf(Encode(m), Encode(m))
    BY WholeLoadFacts, EncodeFacts DEF Stored
  <1>2. \A w \in DOMAIN d.workspaces :
          /\ d.workspaces[w].policy = m.workspaces[w].policy
          /\ d.workspaces[w].parent \in {m.workspaces[w].parent, NoSnapshot}
    BY <1>1, LoadFacts
  <1> HIDE DEF d
  <1> QED
    BY <1>1, <1>2 DEF ResolvedIn, d

\* Sound metadata resolves, and so does the metadata of a sound file.
SoundResolves ==
  /\ sound => Resolved
  /\ fileSound /\ Loadable => ResolvedIn(Loaded)

LEMMA NextSoundResolves ==
  DaemonKept /\ SoundResolves /\ [DaemonNext]_daemonVars => SoundResolves'
PROOF
  <1> SUFFICES ASSUME DaemonKept, SoundResolves, [DaemonNext]_daemonVars
               PROVE  SoundResolves'
    OBVIOUS
  <1>0. TypeOK /\ Stored(Metadata) /\ Kept
    BY MetadataStored DEF DaemonKept, Kept
  <1>1. CASE Save /\ UNCHANGED vars
    <2>1. sound' => Resolved'
      BY <1>0, <1>1, NextResolved DEF Save, SoundResolves
    <2>2. ASSUME fileSound', Loadable'
          PROVE  ResolvedIn(Loaded)'
      <3>1. CASE file' = Encode(Metadata)
        <4>1. ResolvedIn(Metadata)
          BY <1>1, <2>2, <3>1, MetadataResolved DEF Save, SoundResolves
        <4>2. ResolvedIn(DecodeMetadata(Encode(Metadata)))
          BY <1>0, <4>1, ReloadResolves
        <4> QED
          BY <3>1, <4>2 DEF Loaded, ResolvedIn
      <3>2. CASE file' # Encode(Metadata)
        <4>1. fileSound /\ file' = file
          BY <1>1, <2>2, <3>2 DEF Save
        <4> QED
          BY <2>2, <4>1 DEF SoundResolves, Loadable, Loaded, ResolvedIn
      <3> QED
        BY <3>1, <3>2
    <2> QED
      BY <2>1, <2>2 DEF SoundResolves
  <1>2. CASE Load
    <2>1. /\ Loadable /\ sound' = fileSound /\ UNCHANGED <<file, fileSound>>
          /\ workspaces' = Loaded.workspaces
          /\ snapshots' = Loaded.snapshots
          /\ policies' = Loaded.policies
      BY <1>2 DEF Load, Loadable, Loaded
    <2>2. ResolvedIn(Loaded) => Resolved'
      BY <2>1 DEF ResolvedIn, Resolved, ParentsLive, PoliciesKept, PoliciesResolve
    <2> QED
      BY <2>1, <2>2 DEF SoundResolves, Loadable, Loaded, ResolvedIn
  <1>3. CASE Call /\ [Next]_vars
    <2>1. Resolved => Resolved'
      BY <1>0, <1>3, NextResolved
    <2> QED
      BY <1>3, <2>1 DEF Call, SoundResolves, Loadable, Loaded, ResolvedIn
  <1>4. CASE Environment /\ [Next]_vars
    <2>1. UNCHANGED <<file, fileSound>>
      BY <1>4 DEF Environment
    <2>2. sound' => Resolved'
      <3>1. CASE Tick /\ UNCHANGED sound
        BY <1>0, <1>4, <3>1, NextResolved DEF SoundResolves
      <3>2. CASE Restart
        BY <3>2 DEF Restart, EmptyMap, NewPolicies, Put, Resolved, ParentsLive,
                    PoliciesKept, PoliciesResolve
      <3> QED
        BY <1>4, <3>1, <3>2 DEF Environment
    <2> QED
      BY <2>1, <2>2 DEF SoundResolves, Loadable, Loaded, ResolvedIn
  <1>5. CASE UNCHANGED daemonVars
    <2>1. UNCHANGED vars /\ UNCHANGED <<file, sound, fileSound>>
      BY <1>5 DEF daemonVars, vars, history
    <2>2. Resolved => Resolved'
      BY <1>0, <2>1, NextResolved
    <2> QED
      BY <2>1, <2>2 DEF SoundResolves, Loadable, Loaded, ResolvedIn
  <1> QED
    BY <1>1, <1>2, <1>3, <1>4, <1>5, DaemonSteps

(* Reloading metadata that was saved whole never leaves a branch without   *)
(* its snapshot or a workspace without its policy (control.rs:96).         *)
THEOREM ReloadsAlwaysConsistent == DaemonSpec => []ReloadsAreConsistent
PROOF
  <1>1. DaemonInit => SoundResolves
    BY InitConsistent DEF DaemonInit, SoundResolves, Consistent
  <1>2. SoundResolves => ReloadsAreConsistent
    BY DEF SoundResolves, ReloadsAreConsistent, Resolved, PoliciesKept
  <1> QED
    BY <1>1, <1>2, NextSoundResolves, AlwaysDaemonKept, PTL DEF DaemonSpec

-----------------------------------------------------------------------------
(* A daemon that saves after every call.                                   *)

(* An operation makes a root only for an id that has no record, and soft-  *)
(* deletes only what has one.                                              *)
LEMMA RootSteps ==
  ASSUME TypeOK, Operation, NEW w
  PROVE  /\ w \in DOMAIN disk'.roots \ DOMAIN disk.roots => w \notin DOMAIN workspaces
         /\ Deleted(w)' => w \in DOMAIN workspaces
PROOF
  <1>0. IsDisk(disk) /\ IsMap(workspaces, WorkspaceIds, Workspace)
    BY DEF TypeOK
  <1> DEFINE Goal == /\ w \in DOMAIN disk'.roots \ DOMAIN disk.roots => w \notin DOMAIN workspaces
                     /\ Deleted(w)' => w \in DOMAIN workspaces
  <1>1. ASSUME NEW v \in WorkspaceIds, v \notin DOMAIN workspaces, NEW parent,
               Grown(disk, disk', v),
               workspaces' = workspaces
                 \/ workspaces' = Put(workspaces, v, NewWorkspace(parent))
        PROVE  Goal
    <2>1. w # v => Goal
      BY <1>1 DEF Grown, Deleted, Put
    <2>2. w = v => Goal
      BY <1>1 DEF Deleted, Put, NewWorkspace
    <2> QED
      BY <2>1, <2>2
  <1>2. ASSUME NEW v \in WorkspaceIds, CreateWorkspace(v) PROVE Goal
    BY <1>1, <1>2, CreateAdmits DEF CreateWorkspace
  <1>3. ASSUME NEW v \in WorkspaceIds, NEW s \in SnapshotIds, BranchWorkspace(s, v)
        PROVE  Goal
    BY <1>1, <1>3, BranchAdmits DEF BranchWorkspace
  <1>4. ASSUME DOMAIN disk'.roots \subseteq DOMAIN disk.roots,
               DOMAIN workspaces' \subseteq DOMAIN workspaces
        PROVE  Goal
    BY <1>4 DEF Deleted
  <1>5. ASSUME NEW v \in WorkspaceIds, DeleteWorkspace(v) PROVE Goal
    BY <1>4, <1>5 DEF DeleteWorkspace
  <1>6. ASSUME NEW v \in WorkspaceIds, OpenSession(v) PROVE Goal
    BY <1>4, <1>6, SessionFacts DEF OpenSession
  <1>7. ASSUME NEW v \in WorkspaceIds, NEW limits \in Limits, SetLimits(v, limits)
        PROVE  Goal
    <2>1. PICK o \in BtrfsSetQuota(disk, v, limits) :
            /\ disk' = o.disk
            /\ workspaces' = IF o.ok THEN [workspaces EXCEPT ![v].limits = limits]
                                     ELSE workspaces
      BY <1>7 DEF SetLimits
    <2> QED
      BY <1>0, <1>4, <2>1, QuotaFacts
  <1>8. ASSUME NEW v \in WorkspaceIds, NEW p \in PolicyIds, NEW kind \in PolicyKinds,
               SetNetworkPolicy(v, p, kind)
        PROVE  Goal
    BY <1>4, <1>8 DEF SetNetworkPolicy
  <1>9. ASSUME NEW v \in WorkspaceIds, NEW s \in SnapshotIds, SnapshotWorkspace(v, s)
        PROVE  Goal
    <2>1. PICK o \in BtrfsSnapshot(disk, v, s) : disk' = o.disk /\ UNCHANGED workspaces
      BY <1>9 DEF SnapshotWorkspace
    <2> QED
      BY <1>0, <1>4, <2>1, SnapshotFacts
  <1>10. ASSUME NEW action \in GcAction, PurgeOne(action) PROVE Goal
    BY <1>4, <1>10, PurgeFacts DEF PurgeOne
  <1> QED
    BY <1>2, <1>3, <1>5, <1>6, <1>7, <1>8, <1>9, <1>10 DEF Operation

\* A root whose workspace is soft-deleted, in the metadata or in a file it may
\* be loaded from, belongs to a workspace that was soft-deleted.
DeletedWereReleased ==
  /\ \A w \in DOMAIN disk.roots : Deleted(w) => w \in released
  /\ Loadable =>
       \A w \in DOMAIN disk.roots :
         w \in DOMAIN Loaded.workspaces /\ Loaded.workspaces[w].state = "Deleted" =>
           w \in released

LEMMA NextDeletedWereReleased ==
  ASSUME WriteThrough
  PROVE  DaemonKept /\ DeletedWereReleased /\ [DaemonNext]_daemonVars => DeletedWereReleased'
PROOF
  <1> SUFFICES ASSUME DaemonKept, DeletedWereReleased, [DaemonNext]_daemonVars
               PROVE  DeletedWereReleased'
    OBVIOUS
  <1>0. TypeOK /\ Stored(Metadata) /\ Kept
    BY MetadataStored DEF DaemonKept, Kept
  <1>1. CASE Save /\ UNCHANGED vars
    <2>1. UNCHANGED <<disk, released, workspaces>>
      BY <1>1 DEF Save
    <2>2. ASSUME Loadable', NEW w \in DOMAIN disk.roots, w \in DOMAIN Loaded'.workspaces,
                 Loaded'.workspaces[w].state = "Deleted"
          PROVE  w \in released
      <3>1. CASE file' = file
        BY <2>2, <3>1 DEF DeletedWereReleased, Loadable, Loaded
      <3>2. ASSUME FileOf(Encode(Metadata), Metadata), PrefixOf(file', Encode(Metadata))
            PROVE  w \in released
        <4>1. /\ w \in DOMAIN Metadata.workspaces
              /\ Metadata.workspaces[w].state = "Deleted"
          BY <1>0, <2>2, <3>2, LoadFacts DEF Loaded
        <4> QED
          BY <2>2, <4>1 DEF DeletedWereReleased, Deleted, Metadata
      <3> QED
        BY <1>0, <1>1, <2>2, <3>1, <3>2, SaveFacts
    <2> QED
      BY <2>1, <2>2 DEF DeletedWereReleased, Deleted
  <1>2. CASE Load
    <2>1. Loadable /\ workspaces' = Loaded.workspaces /\ UNCHANGED <<file, disk, released>>
      BY <1>2 DEF Load, Loadable, Loaded
    <2> QED
      BY <2>1 DEF DeletedWereReleased, Deleted, Loadable, Loaded
  <1>3. CASE Call /\ [Next]_vars
    <2>1. /\ released' = {w \in DOMAIN disk'.roots :
                            /\ w \in DOMAIN disk.roots
                            /\ w \in released \/ (Ready(w) /\ Deleted(w)')}
          /\ UNCHANGED file
      BY <1>3 DEF Call
    <2>2. ASSUME NEW w \in DOMAIN disk'.roots \ DOMAIN disk.roots
          PROVE  /\ ~Deleted(w)'
                 /\ ~(/\ Loadable /\ w \in DOMAIN Loaded.workspaces
                      /\ Loaded.workspaces[w].state = "Deleted")
      <3>1. CASE Operation /\ file = Encode(Metadata)
        <4>1. w \notin DOMAIN workspaces /\ ~Deleted(w)'
          BY <1>0, <3>1, RootSteps
        <4>2. DOMAIN Loaded.workspaces = DOMAIN workspaces
          BY <1>0, <3>1, WholeLoadFacts DEF Loaded, Metadata
        <4> QED
          BY <4>1, <4>2
      <3>2. CASE GcStep
        <4>1. Head(queue) \in GcAction
          BY <1>0, <3>2 DEF GcStep, Idle, TypeOK
        <4>2. DOMAIN disk'.roots \subseteq DOMAIN disk.roots
          BY <1>0, <3>2, <4>1, PurgeFacts DEF GcStep
        <4> QED
          BY <4>2
      <3>3. CASE \E actions \in GcLists : ExecuteGcActions(actions)
        BY <3>3 DEF ExecuteGcActions
      <3> QED
        BY <1>3, <3>1, <3>2, <3>3 DEF Call, Saved
    <2>3. ASSUME NEW w \in DOMAIN disk'.roots, Deleted(w)'
          PROVE  w \in released'
      <3>1. w \in DOMAIN disk.roots
        BY <2>2, <2>3
      <3>2. w \in DOMAIN workspaces
        <4>1. CASE Operation
          BY <1>0, <2>3, <4>1, RootSteps
        <4>2. CASE GcStep
          <5>1. Head(queue) \in GcAction
            BY <1>0, <4>2 DEF GcStep, Idle, TypeOK
          <5>2. DOMAIN workspaces' \subseteq DOMAIN workspaces
            BY <1>0, <4>2, <5>1, PurgeFacts DEF GcStep
          <5> QED
            BY <2>3, <5>2 DEF Deleted
        <4>3. CASE \E actions \in GcLists : ExecuteGcActions(actions)
          BY <2>3, <4>3 DEF ExecuteGcActions, Deleted
        <4> QED
          BY <1>3, <4>1, <4>2, <4>3 DEF Call
      <3>3. Ready(w) \/ Deleted(w)
        BY <1>0, <3>2 DEF Ready, Deleted, TypeOK, IsMap, Workspace
      <3> QED
        BY <2>1, <2>3, <3>1, <3>3 DEF DeletedWereReleased
    <2>4. ASSUME Loadable, NEW w \in DOMAIN disk'.roots, w \in DOMAIN Loaded.workspaces,
                 Loaded.workspaces[w].state = "Deleted"
          PROVE  w \in released'
      <3>1. w \in DOMAIN disk.roots
        BY <2>2, <2>4
      <3> QED
        BY <2>1, <2>4, <3>1 DEF DeletedWereReleased
    <2> QED
      BY <2>1, <2>3, <2>4 DEF DeletedWereReleased, Loadable, Loaded
  <1>4. CASE Environment /\ [Next]_vars
    <2>1. UNCHANGED <<disk, file, released>> /\ (workspaces' = workspaces \/ workspaces' = EmptyMap)
      BY <1>4 DEF Environment, Tick, Restart
    <2> QED
      BY <2>1 DEF DeletedWereReleased, Deleted, Loadable, Loaded, EmptyMap
  <1>5. CASE UNCHANGED daemonVars
    BY <1>5 DEF daemonVars, history, DeletedWereReleased, Deleted, Loadable, Loaded
  <1> QED
    BY <1>1, <1>2, <1>3, <1>4, <1>5, DaemonSteps

(* A daemon that saves after every call destroys no root of a workspace    *)
(* that was not soft-deleted, whatever files it comes back from.           *)
THEOREM NothingInUseEverPurged ==
  ASSUME WriteThrough
  PROVE  DaemonSpec => NothingInUseIsPurged
PROOF
  <1>1. DaemonInit => DeletedWereReleased
    BY DEF DaemonInit, Init, DeletedWereReleased, Loadable, EmptyMap
  <1>2. DaemonKept /\ DeletedWereReleased /\ [DaemonNext]_daemonVars
          => [DOMAIN disk.roots \ DOMAIN disk'.roots \subseteq released]_daemonVars
    <2> SUFFICES ASSUME DaemonKept, DeletedWereReleased, [DaemonNext]_daemonVars
                 PROVE  \/ DOMAIN disk.roots \ DOMAIN disk'.roots \subseteq released
                        \/ UNCHANGED daemonVars
      OBVIOUS
    <2>1. CASE [Next]_vars
      BY <2>1, DiskSteps DEF DaemonKept, Kept, Released, DeletedWereReleased
    <2>2. CASE Load
      BY <2>2 DEF Load
    <2> QED
      BY <2>1, <2>2, DaemonSteps DEF vars
  <1> QED
    BY <1>1, <1>2, NextDeletedWereReleased, AlwaysDaemonKept, PTL
       DEF DaemonSpec, NothingInUseIsPurged

=============================================================================
