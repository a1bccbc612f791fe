-------------------------- MODULE FindFilesProofs --------------------------
(***************************************************************************)
(* Proofs about FindFiles, for any tree, both functions, any faults and    *)
(* any number of threads.                                                  *)
(*                                                                         *)
(* Items relates what a call of ProcessFolder has found to what it has     *)
(* come to; Queue says that a folder's turn comes once, when the folder it *)
(* is in has been dealt with, and Covered that it does come; Callbacks     *)
(* that what has been come to is announced, once, or known to have failed; *)
(* Broken that a loop left early makes the scan return false.              *)
(* ParentFirst and Complete follow.  The ids rest on the count of what has *)
(* one (Counted), and in FindFiles on there being one call at a time       *)
(* (Numbered).  That the tree has no cycles is not needed.                 *)
(***************************************************************************)
EXTENDS FindFiles, SequenceTheorems, FiniteSetTheorems, TLAPS

-----------------------------------------------------------------------------
(* Sequences *)

In(s, x) == \E k \in DOMAIN s : s[k] = x
Distinct(s) == \A j, k \in DOMAIN s : s[j] = s[k] => j = k

LEMMA Appended ==
  ASSUME NEW S, NEW s \in Seq(S), NEW x \in S
  PROVE  /\ Append(s, x) \in Seq(S)
         /\ \A y : In(Append(s, x), y) <=> In(s, y) \/ y = x
         /\ Distinct(s) /\ ~In(s, x) => Distinct(Append(s, x))
<1> DEFINE t == Append(s, x)
           n == Len(s)
<1>1. /\ t \in Seq(S) /\ n \in Nat /\ DOMAIN s = 1..n /\ DOMAIN t = 1..(n + 1)
      /\ t[n + 1] = x /\ \A k \in 1..n : t[k] = s[k]
  BY AppendProperties, LenProperties
<1> HIDE DEF t, n
<1>2. /\ \A k \in 1..(n + 1) : k \in 1..n \/ k = n + 1
      /\ \A k \in 1..n : k \in 1..(n + 1)
      /\ n + 1 \in 1..(n + 1)
  BY <1>1
<1>3. \A y : In(t, y) <=> In(s, y) \/ y = x
  BY <1>1, <1>2 DEF In
<1>4. ASSUME Distinct(s), ~In(s, x), NEW j \in 1..(n + 1), NEW k \in 1..(n + 1), t[j] = t[k]
      PROVE  j = k
  <2>1. CASE j \in 1..n /\ k \in 1..n
    BY <1>1, <1>4, <2>1 DEF Distinct
  <2>2. CASE j = n + 1 /\ k \in 1..n
    BY <1>1, <1>4, <2>2 DEF In
  <2>3. CASE j \in 1..n /\ k = n + 1
    BY <1>1, <1>4, <2>3 DEF In
  <2>4. QED
    BY <1>2, <2>1, <2>2, <2>3
<1>5. Distinct(s) /\ ~In(s, x) => Distinct(t)
  BY <1>1, <1>4 DEF Distinct
<1>6. QED
  BY <1>1, <1>3, <1>5 DEF t

LEMMA Taken ==
  ASSUME NEW S, NEW s \in Seq(S), s # << >>
  PROVE  /\ Tail(s) \in Seq(S) /\ Head(s) \in S
         /\ \A y : In(s, y) <=> In(Tail(s), y) \/ y = Head(s)
         /\ Distinct(s) => Distinct(Tail(s)) /\ ~In(Tail(s), Head(s))
<1> DEFINE t == Tail(s)
           n == Len(s)
<1>1. /\ t \in Seq(S) /\ n \in Nat \ {0} /\ Head(s) \in S /\ Head(s) = s[1]
      /\ DOMAIN s = 1..n /\ DOMAIN t = 1..(n - 1)
      /\ \A k \in 1..(n - 1) : t[k] = s[k + 1]
  BY HeadTailProperties, LenProperties, EmptySeq
<1>2. /\ 1 \in 1..n
      /\ \A k \in 1..(n - 1) : k + 1 \in 1..n /\ k + 1 # 1
      /\ \A k \in 1..n : k = 1 \/ (k - 1 \in 1..(n - 1) /\ (k - 1) + 1 = k)
      /\ \A j, k \in 1..(n - 1) : j + 1 = k + 1 => j = k
  BY <1>1
<1> HIDE DEF t, n
<1>3. ASSUME NEW y PROVE In(s, y) <=> In(t, y) \/ y = Head(s)
  <2>1. ASSUME NEW k \in 1..n, s[k] = y, k # 1 PROVE In(t, y)
    <3>1. k - 1 \in 1..(n - 1) /\ t[k - 1] = s[(k - 1) + 1] /\ (k - 1) + 1 = k
      BY <1>1, <1>2, <2>1
    <3>2. QED
      BY <1>1, <2>1, <3>1 DEF In
  <2>2. In(t, y) => In(s, y)
    BY <1>1, <1>2 DEF In
  <2>3. In(s, Head(s))
    BY <1>1, <1>2 DEF In
  <2>4. In(s, y) => In(t, y) \/ y = Head(s)
    BY <1>1, <2>1 DEF In
  <2>5. QED
    BY <2>2, <2>3, <2>4
<1>4. ASSUME Distinct(s) PROVE Distinct(t) /\ ~In(t, Head(s))
  <2>1. ASSUME NEW j \in 1..(n - 1), NEW k \in 1..(n - 1), t[j] = t[k] PROVE j = k
    <3>1. s[j + 1] = s[k + 1] /\ j + 1 \in 1..n /\ k + 1 \in 1..n
      BY <1>1, <1>2, <2>1
    <3>2. j + 1 = k + 1
      BY <1>1, <1>4, <3>1 DEF Distinct
    <3>3. QED
      BY <1>2, <3>2
  <2>2. ASSUME NEW k \in 1..(n - 1), t[k] = Head(s) PROVE FALSE
    <3>1. s[k + 1] = s[1] /\ k + 1 \in 1..n /\ 1 \in 1..n /\ k + 1 # 1
      BY <1>1, <1>2, <2>2
    <3>2. QED
      BY <1>1, <1>4, <3>1 DEF Distinct
  <2>3. QED
    BY <1>1, <2>1, <2>2 DEF Distinct, In
<1>5. QED
  BY <1>1, <1>3, <1>4 DEF t

LEMMA Joined ==
  ASSUME NEW S, NEW s \in Seq(S), NEW t \in Seq(S)
  PROVE  /\ s \o t \in Seq(S)
         /\ \A y : In(s \o t, y) <=> In(s, y) \/ In(t, y)
         /\ Distinct(s) /\ Distinct(t) /\ (\A y : ~(In(s, y) /\ In(t, y)))
              => Distinct(s \o t)
<1> DEFINE u == s \o t
           m == Len(s)
           n == Len(t)
<1>1. /\ u \in Seq(S) /\ m \in Nat /\ n \in Nat
      /\ DOMAIN s = 1..m /\ DOMAIN t = 1..n /\ DOMAIN u = 1..(m + n)
      /\ \A k \in 1..(m + n) : u[k] = IF k <= m THEN s[k] ELSE t[k - m]
  BY ConcatProperties, LenProperties
<1> HIDE DEF u, m, n
<1>2. /\ \A k \in 1..m : k \in 1..(m + n) /\ u[k] = s[k]
      /\ \A k \in 1..n : m + k \in 1..(m + n) /\ u[m + k] = t[k]
  <2>1. \A k \in 1..m : k \in 1..(m + n) /\ k <= m
    BY <1>1
  <2>2. \A k \in 1..n : m + k \in 1..(m + n) /\ ~(m + k <= m) /\ (m + k) - m = k
    BY <1>1
  <2>3. QED
    BY <1>1, <2>1, <2>2
<1>3. \A k \in 1..(m + n) : k \in 1..m \/ \E j \in 1..n : k = m + j
  <2>1. \A k \in 1..(m + n) : k \in 1..m \/ (k - m \in 1..n /\ k = m + (k - m))
    BY <1>1
  <2>2. QED
    BY <2>1
<1>4. ASSUME NEW y PROVE In(u, y) <=> In(s, y) \/ In(t, y)
  <2>1. In(s, y) => In(u, y)
    BY <1>1, <1>2 DEF In
  <2>2. In(t, y) => In(u, y)
    BY <1>1, <1>2 DEF In
  <2>3. ASSUME NEW k \in 1..(m + n), u[k] = y PROVE In(s, y) \/ In(t, y)
    BY <1>1, <1>2, <1>3, <2>3 DEF In
  <2>4. QED
    BY <1>1, <2>1, <2>2, <2>3 DEF In
<1>5. ASSUME Distinct(s), Distinct(t), \A y : ~(In(s, y) /\ In(t, y)),
             NEW j \in 1..(m + n), NEW k \in 1..(m + n), u[j] = u[k]
      PROVE  j = k
  <2>1. CASE j \in 1..m /\ k \in 1..m
    BY <1>1, <1>2, <1>5, <2>1 DEF Distinct
  <2>2. ASSUME NEW i \in 1..n, NEW l \in 1..n, j = m + i, k = m + l PROVE j = k
    <3>1. t[i] = t[l]
      BY <1>2, <1>5, <2>2
    <3>2. i = l
      BY <1>1, <1>5, <3>1 DEF Distinct
    <3>3. QED
      BY <2>2, <3>2
  <2>3. ASSUME NEW i \in 1..m, NEW l \in 1..n, u[i] = u[m + l] PROVE FALSE
    <3>1. In(s, u[i]) /\ In(t, u[m + l])
      BY <1>1, <1>2 DEF In
    <3>2. QED
      BY <1>5, <2>3, <3>1
  <2>4. CASE j \in 1..m /\ \E l \in 1..n : k = m + l
    BY <1>5, <2>3, <2>4
  <2>5. CASE k \in 1..m /\ \E i \in 1..n : j = m + i
    BY <1>5, <2>3, <2>5
  <2>6. CASE (\E i \in 1..n : j = m + i) /\ \E l \in 1..n : k = m + l
    BY <2>2, <2>6
  <2>7. QED
    BY <1>3, <1>5, <2>1, <2>4, <2>5, <2>6
<1>6. QED
  BY <1>1, <1>4, <1>5 DEF u, Distinct

LEMMA DistinctLength ==
  ASSUME NEW s \in Seq(Folders), Distinct(s)
  PROVE  Len(s) <= Bound
<1>1. Len(s) \in Nat /\ s \in [1..Len(s) -> Folders] /\ DOMAIN s = 1..Len(s)
  BY LenProperties
<1>2. s \in Injection(1..Len(s), Folders)
  BY <1>1 DEF Distinct, Injection, IsInjective
<1>3. IsFiniteSet(Folders)
  BY FindFilesAssumption, FS_AddElement DEF Folders
<1>4. Cardinality(1..Len(s)) <= Cardinality(Folders)
  BY <1>2, <1>3, FS_Injection
<1>5. Cardinality(1..Len(s)) = Len(s)
  BY <1>1, FS_Interval
<1>6. QED
  BY <1>4, <1>5 DEF Bound

-----------------------------------------------------------------------------
(* Types *)

Types ==
  /\ tree \in Trees /\ function \in Functions /\ stem \in BOOLEAN
  /\ at \in {"start", "loop", "folder", "round", "returned"}
  /\ Result \in BOOLEAN
  /\ UnexploredDirs \in Seq(Folders) /\ ParallelResults \in Seq(Folders)
  /\ pc \in [Folders -> {"none", "open", "items", "size", "load", "store",
                         "callback", "done"}]
  /\ todo \in [Folders -> SUBSET Entries]
  /\ item \in [Folders -> Folders]
  /\ id \in [Folders -> Nat]
  /\ Directories \in [Folders -> Seq(Entries)]
  /\ Error \in [Folders -> BOOLEAN]
  /\ FileId \in Nat
  /\ announced \in Seq([id : Nat \ {0}, entry : Folders])
  /\ failed \subseteq {"open", "size"} \X Folders

LEMMA TreeTypes ==
  ASSUME tree \in Trees
  PROVE  /\ tree.parent \in [Entries -> Folders] /\ tree.kind \in [Entries -> Kinds]
         /\ \A e \in Entries : tree.parent[e] # Root =>
              tree.parent[e] \in Entries /\ tree.kind[tree.parent[e]] = "dir"
         /\ Root \in Folders /\ Root \notin Entries /\ Entries \subseteq Folders
BY FindFilesAssumption DEF Folders

LEMMA InitTypes == Init => Types
BY EmptySeq, FindFilesAssumption DEF Init, Types, Folders

LEMMA NextTypes == Types /\ [Next]_vars => Types'
<1> SUFFICES ASSUME Types, [Next]_vars PROVE Types'
  OBVIOUS
<1> USE DEF callVars, dirVars, folderVars
<1>t. Root \in Folders /\ Entries \subseteq Folders
  BY DEF Folders
<1>1. CASE RootFails
  BY <1>1 DEF RootFails, Types
<1>2. CASE Start
  <2>1. UnexploredDirs' \in Seq(Folders)
    BY <1>2, <1>t DEF Start
  <2>2. FileId' \in Nat /\ failed' \subseteq {"open", "size"} \X Folders
    BY <1>2, <1>t DEF Start, Types
  <2>3. announced' \in Seq([id : Nat \ {0}, entry : Folders])
    <3>1. [id |-> FileId + 1, entry |-> Root] \in [id : Nat \ {0}, entry : Folders]
      BY <1>t DEF Types
    <3>2. \/ announced' = Append(announced, [id |-> FileId + 1, entry |-> Root])
          \/ announced' = announced
      BY <1>2 DEF Start
    <3>3. Append(announced, [id |-> FileId + 1, entry |-> Root])
            \in Seq([id : Nat \ {0}, entry : Folders])
      BY <3>1, Appended DEF Types
    <3>4. QED
      BY <3>2, <3>3 DEF Types
  <2>4. QED
    BY <1>2, <2>1, <2>2, <2>3 DEF Start, Types
<1>3. CASE NextFolder
  <2>1. UnexploredDirs' \in Seq(Folders) /\ Head(UnexploredDirs) \in Folders
    BY <1>3, Taken DEF NextFolder, Types
  <2>2. QED
    BY <1>3, <2>1 DEF NextFolder, Types
<1>4. CASE NextRound
  <2>1. ParallelResults' \in Seq(Folders) /\ UnexploredDirs' \in Seq(Folders)
    BY <1>4, EmptySeq DEF NextRound, Types
  <2>2. pc' \in [Folders -> {"none", "open", "items", "size", "load", "store", "callback", "done"}]
    BY <1>4 DEF NextRound, Types
  <2>3. QED
    BY <1>4, <2>1, <2>2 DEF NextRound, Types
<1>5. CASE GetResult
  <2>1. ParallelResults' \in Seq(Folders) /\ Head(ParallelResults) \in Folders
    BY <1>5, Taken DEF GetResult, Types
  <2>2. Directories[Head(ParallelResults)] \in Seq(Folders)
    BY <2>1, <1>t, SeqMonotonic DEF Types
  <2>3. UnexploredDirs' \in Seq(Folders)
    BY <1>5, <2>2, Joined DEF GetResult, Types
  <2>4. QED
    BY <1>5, <2>1, <2>3 DEF GetResult, Types
<1>6. CASE RoundDone
  BY <1>6 DEF RoundDone, Types
<1>7. CASE Return
  BY <1>7 DEF Return, Types
<1>8. ASSUME NEW d \in Folders, FolderDone(d) PROVE Types'
  <2>1. Directories[d] \in Seq(Folders)
    BY <1>t, SeqMonotonic DEF Types
  <2>2. UnexploredDirs' \in Seq(Folders)
    BY <1>8, <2>1, Joined DEF FolderDone, Types
  <2>3. QED
    BY <1>8, <2>2 DEF FolderDone, Types
<1>9. ASSUME NEW d \in Folders, ThreadDone(d) PROVE Types'
  BY <1>9 DEF ThreadDone, Types
<1>10. ASSUME NEW d \in Folders, Open(d) PROVE Types'
  <2>1. Children(d) \in SUBSET Entries
    BY DEF Children
  <2>2. \/ todo' = [todo EXCEPT ![d] = Children(d)] /\ failed' = failed
        \/ todo' = todo /\ failed' = failed \cup {<<"open", d>>}
    BY <1>10 DEF Open
  <2>3. todo' \in [Folders -> SUBSET Entries]
    BY <2>1, <2>2 DEF Types
  <2>4. failed' \subseteq {"open", "size"} \X Folders
    BY <2>2 DEF Types
  <2>5. QED
    BY <1>10, <2>3, <2>4 DEF Open, Goto, Types
<1>11. ASSUME NEW d \in Folders, NEW e \in Entries, SkipBroken(d, e) PROVE Types'
  BY <1>11 DEF SkipBroken, Types
<1>12. ASSUME NEW d \in Folders, NEW e \in Entries, SkipOther(d, e) PROVE Types'
  BY <1>12 DEF SkipOther, Types
<1>13. ASSUME NEW d \in Folders, NEW e \in Entries, Take(d, e) PROVE Types'
  <2>1. Append(Directories[d], e) \in Seq(Entries)
    BY Appended DEF Types
  <2>2. Directories' \in [Folders -> Seq(Entries)]
    BY <1>13, <2>1 DEF Take, Types
  <2>3. QED
    BY <1>13, <1>t, <2>2 DEF Take, Goto, Types
<1>14. ASSUME NEW d \in Folders, Size(d) PROVE Types'
  <2>1. failed' \subseteq {"open", "size"} \X Folders
    BY <1>14 DEF Size, Types
  <2>2. QED
    BY <1>14, <2>1 DEF Size, Goto, Types
<1>15. ASSUME NEW d \in Folders, LoadFileId(d) PROVE Types'
  BY <1>15 DEF LoadFileId, Goto, Types
<1>16. ASSUME NEW d \in Folders, StoreFileId(d) PROVE Types'
  BY <1>16 DEF StoreFileId, Goto, Types
<1>17. ASSUME NEW d \in Folders, Callback(d) PROVE Types'
  <2>1. announced' \in Seq([id : Nat \ {0}, entry : Folders])
    <3>1. [id |-> id[d] + 1, entry |-> item[d]] \in [id : Nat \ {0}, entry : Folders]
      BY DEF Types
    <3>2. QED
      BY <1>17, <3>1, Appended DEF Callback, Types
  <2>2. QED
    BY <1>17, <2>1 DEF Callback, Goto, Types
<1>18. CASE UNCHANGED vars
  BY <1>18 DEF vars, Types
<1>19. QED
  BY <1>1, <1>2, <1>3, <1>4, <1>5, <1>6, <1>7, <1>8, <1>9, <1>10, <1>11, <1>12, <1>13, <1>14,
     <1>15, <1>16, <1>17, <1>18 DEF Next, ProcessFolder, Done

-----------------------------------------------------------------------------
(* What a call of ProcessFolder has come to *)

\* ProcessFolder(d) has come to the entry e of d; and come to an entry at all.
Past(d, e) ==
  pc[d] \notin {"none", "open"} /\ e \notin todo[d] /\ <<"open", d>> \notin failed
Come(e) == Past(tree.parent[e], e)

\* An entry that has been come to and is not dealt with yet.
InHand(d) == pc[d] \in {"size", "load", "store", "callback"}
Held(e) == InHand(tree.parent[e]) /\ item[tree.parent[e]] = e

ItemsOf(d) ==
  /\ todo[d] \subseteq Children(d)
  /\ pc[d] \in {"none", "open"} => Directories[d] = << >>
  /\ pc[d] \in {"none", "open"} => todo[d] = {} /\ ~Error[d]
  /\ pc[d] = "done" => todo[d] = {} \/ Error[d]
  /\ <<"open", d>> \in failed =>
       pc[d] \in {"items", "done"} /\ todo[d] = {} /\ Directories[d] = << >>
  /\ InHand(d) => /\ item[d] \in Children(d) \ todo[d]
                  /\ tree.kind[item[d]] \in {"dir", "file"}
  /\ Distinct(Directories[d])
  /\ \A e \in Entries :
       In(Directories[d], e) <=> e \in Children(d) /\ tree.kind[e] = "dir" /\ Past(d, e)
Items == \A d \in Folders : ItemsOf(d)

LEMMA ItemsSame ==
  ASSUME NEW d \in Folders, ItemsOf(d), tree' = tree, todo'[d] = todo[d],
         Directories'[d] = Directories[d], Error'[d] = Error[d],
         item'[d] = item[d], <<"open", d>> \in failed' <=> <<"open", d>> \in failed,
         \/ pc'[d] = pc[d]
         \/ pc[d] = "none" /\ pc'[d] = "open"
         \/ pc[d] = "items" /\ pc'[d] = "done" /\ (Error[d] \/ todo[d] = {})
         \/ pc[d] \in {"size", "load", "store", "callback"}
            /\ pc'[d] \in {"items", "size", "load", "store", "callback"}
  PROVE  ItemsOf(d)'
<1>1. Children(d)' = Children(d)
  BY DEF Children
<1>2. \A e \in Entries : Past(d, e)' <=> Past(d, e)
  BY DEF Past
<1>3. InHand(d)' => InHand(d)
  BY DEF InHand
<1>4. /\ pc'[d] \in {"none", "open"} => pc[d] \in {"none", "open"}
      /\ pc'[d] = "done" => pc[d] = "done" \/ Error[d] \/ todo[d] = {}
  OBVIOUS
<1>5. <<"open", d>> \in failed => pc'[d] \in {"items", "done"}
  BY DEF ItemsOf
<1>6. \A e \in Entries :
        (In(Directories[d], e) <=> e \in Children(d) /\ tree.kind[e] = "dir" /\ Past(d, e))'
  BY <1>1, <1>2 DEF ItemsOf, In
<1>7. QED
  BY <1>1, <1>3, <1>4, <1>5, <1>6 DEF ItemsOf, Distinct

LEMMA InitItems == Init => Items
<1> SUFFICES ASSUME Init, NEW d \in Folders PROVE ItemsOf(d)
  BY DEF Items
<1>1. /\ pc[d] = "none" /\ todo[d] = {} /\ ~Error[d]
      /\ Directories[d] = << >> /\ failed = {}
  BY DEF Init
<1>2. Distinct(<< >>) /\ \A e : ~In(<< >>, e)
  BY DEF Distinct, In
<1>3. QED
  BY <1>1, <1>2 DEF ItemsOf, InHand, Past

LEMMA NextItems ==
  ASSUME Types, Items, [Next]_vars,
         \A f \in Folders : In(UnexploredDirs, f) => pc[f] = "none"
  PROVE  Items'
<1> SUFFICES ASSUME NEW c \in Folders PROVE ItemsOf(c)'
  BY DEF Items
<1> USE DEF callVars, dirVars, folderVars
<1>i. ItemsOf(c)
  BY DEF Items
<1>1. CASE RootFails
  BY <1>1, <1>i, ItemsSame DEF RootFails
<1>2. CASE Start
  <2>1. failed' = failed \/ failed' = failed \cup {<<"size", Root>>}
    BY <1>2 DEF Start
  <2>2. QED
    BY <1>2, <1>i, <2>1, ItemsSame DEF Start
<1>3. CASE NextFolder
  <2>1. pc[Head(UnexploredDirs)] = "none"
    BY <1>3, Taken DEF NextFolder, Types
  <2>2. pc'[c] = pc[c] \/ (pc[c] = "none" /\ pc'[c] = "open")
    BY <1>3, <2>1 DEF NextFolder, Types
  <2>3. QED
    BY <1>3, <1>i, <2>2, ItemsSame DEF NextFolder
<1>4. CASE NextRound
  <2>1. c \in Range(UnexploredDirs) => pc[c] = "none"
    BY DEF Range, In
  <2>2. pc'[c] = pc[c] \/ (pc[c] = "none" /\ pc'[c] = "open")
    BY <1>4, <2>1 DEF NextRound, Types
  <2>3. QED
    BY <1>4, <1>i, <2>2, ItemsSame DEF NextRound
<1>5. CASE GetResult
  BY <1>5, <1>i, ItemsSame DEF GetResult
<1>6. CASE RoundDone
  BY <1>6, <1>i, ItemsSame DEF RoundDone
<1>7. CASE Return
  BY <1>7, <1>i, ItemsSame DEF Return
<1>8. ASSUME NEW d \in Folders, FolderDone(d) PROVE ItemsOf(c)'
  <2>1. pc'[c] = pc[c] \/ (pc[c] = "items" /\ pc'[c] = "done" /\ (Error[c] \/ todo[c] = {}))
    BY <1>8 DEF LoopOver, FolderDone, Types
  <2>2. QED
    BY <1>8, <1>i, <2>1, ItemsSame DEF FolderDone
<1>9. ASSUME NEW d \in Folders, ThreadDone(d) PROVE ItemsOf(c)'
  <2>1. pc'[c] = pc[c] \/ (pc[c] = "items" /\ pc'[c] = "done" /\ (Error[c] \/ todo[c] = {}))
    BY <1>9 DEF LoopOver, ThreadDone, Types
  <2>2. QED
    BY <1>9, <1>i, <2>1, ItemsSame DEF ThreadDone
<1>10. ASSUME NEW d \in Folders, Open(d) PROVE ItemsOf(c)'
  <2>1. \/ todo' = [todo EXCEPT ![d] = Children(d)] /\ failed' = failed
        \/ todo' = todo /\ failed' = failed \cup {<<"open", d>>}
    BY <1>10 DEF Open
  <2>2. CASE c # d
    <3>1. /\ pc'[c] = pc[c] /\ todo'[c] = todo[c]
          /\ <<"open", c>> \in failed' <=> <<"open", c>> \in failed
      BY <1>10, <2>1, <2>2 DEF Open, Goto, Types
    <3>2. QED
      BY <1>10, <1>i, <3>1, ItemsSame DEF Open
  <2>3. CASE c = d
    <3>1. /\ pc[d] = "open" /\ pc'[d] = "items" /\ tree' = tree
          /\ Directories' = Directories /\ Directories[d] = << >> /\ todo[d] = {}
          /\ <<"open", d>> \notin failed
      BY <1>10, <1>i, <2>3 DEF Open, Goto, Types, ItemsOf
    <3>2. \A e \in Entries : ~In(Directories[d], e)
      BY <1>i, <2>3, <3>1 DEF ItemsOf, Past
    <3>3. \/ todo'[d] = Children(d) /\ <<"open", d>> \notin failed'
          \/ todo'[d] = {} /\ <<"open", d>> \in failed'
      BY <2>1, <3>1 DEF Types
    <3>4. Children(d)' = Children(d) /\ ~InHand(d)'
      BY <3>1 DEF Children, InHand
    <3>5. \A e \in Children(d) : ~Past(d, e)'
      BY <3>3 DEF Past
    <3>6. Distinct(Directories'[d])
      BY <1>i, <2>3, <3>1 DEF ItemsOf
    <3>7. \A e \in Entries :
            In(Directories'[d], e) <=>
              e \in Children(d)' /\ tree'.kind[e] = "dir" /\ Past(d, e)'
      BY <3>1, <3>2, <3>4, <3>5
    <3>8. QED
      BY <2>3, <3>1, <3>3, <3>4, <3>6, <3>7 DEF ItemsOf
  <2>4. QED
    BY <2>2, <2>3
<1>11. ASSUME NEW d \in Folders, NEW e \in todo[d], pc[d] = "items",
              tree.kind[e] \notin {"dir", "file"}, todo' = [todo EXCEPT ![d] = @ \ {e}],
              UNCHANGED <<tree, pc, item, Directories, failed>>,
              Error' = Error \/ Error' = [Error EXCEPT ![d] = TRUE]
       PROVE  ItemsOf(c)'
  <2>1. CASE c # d
    BY <1>11, <1>i, <2>1, ItemsSame DEF Types
  <2>2. CASE c = d
    <3>1. todo'[d] = todo[d] \ {e} /\ <<"open", d>> \notin failed
      BY <1>11, <1>i, <2>2 DEF Types, ItemsOf
    <3>2. Children(d)' = Children(d) /\ ~InHand(d)' /\ e \in Children(d)
      BY <1>11, <1>i, <2>2 DEF Children, InHand, ItemsOf
    <3>3. \A f \in Entries \ {e} : Past(d, f)' <=> Past(d, f)
      BY <1>11, <3>1 DEF Past
    <3>4. \A f \in Entries :
            (In(Directories[d], f) <=> f \in Children(d) /\ tree.kind[f] = "dir" /\ Past(d, f))'
      BY <1>11, <1>i, <2>2, <3>2, <3>3 DEF ItemsOf
    <3>5. QED
      BY <1>11, <1>i, <2>2, <3>1, <3>2, <3>4 DEF ItemsOf, Distinct
  <2>3. QED
    BY <2>1, <2>2
<1>12. ASSUME NEW d \in Folders, NEW e \in Entries, SkipBroken(d, e) PROVE ItemsOf(c)'
  BY <1>11, <1>12 DEF AtItem, SkipBroken
<1>13. ASSUME NEW d \in Folders, NEW e \in Entries, SkipOther(d, e) PROVE ItemsOf(c)'
  BY <1>11, <1>13 DEF AtItem, SkipOther
<1>14. ASSUME NEW d \in Folders, NEW e \in Entries, Take(d, e) PROVE ItemsOf(c)'
  <2>1. CASE c # d
    <3>1. /\ pc'[c] = pc[c] /\ todo'[c] = todo[c] /\ item'[c] = item[c]
          /\ Directories'[c] = Directories[c]
      BY <1>14, <2>1 DEF Take, Goto, Types
    <3>2. QED
      BY <1>14, <1>i, <3>1, ItemsSame DEF Take
  <2>2. CASE c = d
    <3>1. /\ pc[d] = "items" /\ pc'[d] = "size" /\ e \in todo[d] /\ todo'[d] = todo[d] \ {e}
          /\ item'[d] = e /\ tree' = tree /\ failed' = failed
          /\ tree.kind[e] \in {"dir", "file"}
          /\ Directories'[d] = IF tree.kind[e] = "dir" THEN Append(Directories[d], e)
                                                       ELSE Directories[d]
      BY <1>14 DEF AtItem, Take, Goto, Types
    <3>2. <<"open", d>> \notin failed /\ e \in Children(d)
      BY <1>i, <2>2, <3>1 DEF ItemsOf
    <3>3. Children(d)' = Children(d)
      BY <3>1 DEF Children
    <3>4. Past(d, e)' /\ ~Past(d, e) /\ \A f \in Entries \ {e} : Past(d, f)' <=> Past(d, f)
      BY <3>1, <3>2 DEF Past
    <3>5. /\ Distinct(Directories'[d])
          /\ \A f \in Entries : In(Directories'[d], f) <=>
               In(Directories[d], f) \/ (f = e /\ tree.kind[e] = "dir")
      <4>1. Distinct(Directories[d]) /\ ~In(Directories[d], e) /\ Directories[d] \in Seq(Entries)
        BY <1>i, <2>2, <3>4 DEF ItemsOf, Types
      <4>2. CASE tree.kind[e] = "dir"
        BY <3>1, <4>1, <4>2, Appended
      <4>3. CASE tree.kind[e] # "dir"
        BY <3>1, <4>1, <4>3
      <4>4. QED
        BY <4>2, <4>3
    <3>6. ASSUME NEW f \in Entries
          PROVE  In(Directories'[d], f) <=>
                   f \in Children(d)' /\ tree'.kind[f] = "dir" /\ Past(d, f)'
      BY <1>i, <2>2, <3>1, <3>2, <3>3, <3>4, <3>5 DEF ItemsOf
    <3>7. QED
      BY <1>i, <2>2, <3>1, <3>2, <3>3, <3>5, <3>6 DEF ItemsOf
  <2>3. QED
    BY <2>1, <2>2
<1>15. ASSUME NEW d \in Folders, Size(d) PROVE ItemsOf(c)'
  <2>1. /\ failed' = failed \/ failed' = failed \cup {<<"size", item[d]>>}
        /\ \/ pc'[c] = pc[c]
           \/ pc[c] = "size" /\ pc'[c] \in {"load", "items"}
    BY <1>15 DEF Size, Goto, Types
  <2>2. QED
    BY <1>15, <1>i, <2>1, ItemsSame DEF Size
<1>16. ASSUME NEW d \in Folders, LoadFileId(d) PROVE ItemsOf(c)'
  <2>1. pc'[c] = pc[c] \/ (pc[c] = "load" /\ pc'[c] = "store")
    BY <1>16 DEF LoadFileId, Goto, Types
  <2>2. QED
    BY <1>16, <1>i, <2>1, ItemsSame DEF LoadFileId
<1>17. ASSUME NEW d \in Folders, StoreFileId(d) PROVE ItemsOf(c)'
  <2>1. pc'[c] = pc[c] \/ (pc[c] = "store" /\ pc'[c] = "callback")
    BY <1>17 DEF StoreFileId, Goto, Types
  <2>2. QED
    BY <1>17, <1>i, <2>1, ItemsSame DEF StoreFileId
<1>18. ASSUME NEW d \in Folders, Callback(d) PROVE ItemsOf(c)'
  <2>1. pc'[c] = pc[c] \/ (pc[c] = "callback" /\ pc'[c] = "items")
    BY <1>18 DEF Callback, Goto, Types
  <2>2. QED
    BY <1>18, <1>i, <2>1, ItemsSame DEF Callback
<1>19. CASE UNCHANGED vars
  BY <1>19, <1>i, ItemsSame DEF vars
<1>20. QED
  BY <1>1, <1>2, <1>3, <1>4, <1>5, <1>6, <1>7, <1>8, <1>9, <1>10, <1>12, <1>13, <1>14,
     <1>15, <1>16, <1>17, <1>18, <1>19 DEF Next, ProcessFolder, Done

-----------------------------------------------------------------------------
(* The folders to be read *)

Active(d) == pc[d] \notin {"none", "done"}

\* A folder whose turn has come: the folder it is in has been dealt with.
Opened(f) ==
  f # Root => /\ tree.kind[f] = "dir" /\ Come(f) /\ pc[tree.parent[f]] = "done"
              /\ ~In(ParallelResults, tree.parent[f])

Unstarted == at = "start" =>
  /\ UnexploredDirs = << >> /\ \A d \in Folders : pc[d] = "none"
  /\ announced = << >> /\ failed = {} /\ FileId = 0

Where ==
  /\ at = "folder" => /\ function = "FindFiles"
                      /\ \A d, f \in Folders : Active(d) /\ Active(f) => d = f
  /\ at = "round" => function = "FindFilesParallel"
  /\ at # "round" => ParallelResults = << >>
  /\ at = "returned" => UnexploredDirs = << >>
  /\ Distinct(UnexploredDirs) /\ Distinct(ParallelResults)

QueueOf(f) ==
  /\ In(UnexploredDirs, f) => pc[f] = "none" /\ Opened(f)
  /\ pc[f] # "none" => Opened(f)
  /\ In(ParallelResults, f) => pc[f] # "none"
  /\ Active(f) => at = "folder" \/ (at = "round" /\ In(ParallelResults, f))

Queue == Unstarted /\ Where /\ \A f \in Folders : QueueOf(f)

LEMMA ShortSeqs ==
  /\ Distinct(<< >>) /\ \A x : ~In(<< >>, x)
  /\ \A r : Distinct(<<r>>) /\ \A x : In(<<r>>, x) <=> x = r
BY DEF Distinct, In

LEMMA InitQueue == Init => Queue
BY ShortSeqs DEF Init, Queue, Unstarted, Where, QueueOf, Active

LEMMA Calls == [Next]_vars => tree' = tree /\ function' = function /\ stem' = stem
BY DEF Next, ProcessFolder, Done, RootFails, Start, NextFolder, NextRound, GetResult, RoundDone,
  Return, FolderDone, ThreadDone, Open, SkipBroken, SkipOther, Take, Size, LoadFileId,
  StoreFileId, Callback, vars, callVars

Reads(d, e) == SkipBroken(d, e) \/ SkipOther(d, e) \/ Take(d, e)

LEMMA PastSame ==
  ASSUME NEW d \in Folders, todo'[d] = todo[d],
         <<"open", d>> \in failed' <=> <<"open", d>> \in failed,
         pc'[d] \in {"none", "open"} <=> pc[d] \in {"none", "open"}
  PROVE  \A e : Past(d, e)' <=> Past(d, e)
BY DEF Past

LEMMA PastStep ==
  ASSUME Types, Items, Queue, [Next]_vars, NEW c \in Folders, NEW i \in Children(c)
  PROVE  (Past(c, i)' <=> Past(c, i)) \/ (~Past(c, i) /\ Past(c, i)' /\ Reads(c, i))
<1> DEFINE Goal == (Past(c, i)' <=> Past(c, i)) \/ (~Past(c, i) /\ Past(c, i)' /\ Reads(c, i))
<1> USE DEF callVars, dirVars, folderVars
<1>i. ItemsOf(c) /\ i \in Entries
  BY DEF Items, Children
<1>1. ASSUME RootFails PROVE Goal
  BY <1>1, PastSame DEF RootFails
<1>2. ASSUME Start PROVE Goal
  <2>1. failed' = failed \/ failed' = failed \cup {<<"size", Root>>}
    BY <1>2 DEF Start
  <2>2. QED
    BY <1>2, <2>1, PastSame DEF Start
<1>3. ASSUME NextFolder PROVE Goal
  <2>1. pc[Head(UnexploredDirs)] = "none"
    BY <1>3, Taken DEF NextFolder, Types, Queue, QueueOf
  <2>2. pc'[c] = pc[c] \/ (pc[c] = "none" /\ pc'[c] = "open")
    BY <1>3, <2>1 DEF NextFolder, Types
  <2>3. QED
    BY <1>3, <2>2, PastSame DEF NextFolder
<1>4. ASSUME NextRound PROVE Goal
  <2>1. c \in Range(UnexploredDirs) => pc[c] = "none"
    BY DEF Range, In, Queue, QueueOf
  <2>2. pc'[c] = pc[c] \/ (pc[c] = "none" /\ pc'[c] = "open")
    BY <1>4, <2>1 DEF NextRound, Types
  <2>3. QED
    BY <1>4, <2>2, PastSame DEF NextRound
<1>5. ASSUME GetResult PROVE Goal
  BY <1>5, PastSame DEF GetResult
<1>6. ASSUME RoundDone PROVE Goal
  BY <1>6, PastSame DEF RoundDone
<1>7. ASSUME Return PROVE Goal
  BY <1>7, PastSame DEF Return
<1>8. ASSUME NEW d \in Folders, FolderDone(d) PROVE Goal
  <2>1. pc'[c] = pc[c] \/ (pc[c] = "items" /\ pc'[c] = "done")
    BY <1>8 DEF LoopOver, FolderDone, Types
  <2>2. QED
    BY <1>8, <2>1, PastSame DEF FolderDone
<1>9. ASSUME NEW d \in Folders, ThreadDone(d) PROVE Goal
  <2>1. pc'[c] = pc[c] \/ (pc[c] = "items" /\ pc'[c] = "done")
    BY <1>9 DEF LoopOver, ThreadDone, Types
  <2>2. QED
    BY <1>9, <2>1, PastSame DEF ThreadDone
<1>10. ASSUME NEW d \in Folders, Open(d) PROVE Goal
  <2>1. \/ todo' = [todo EXCEPT ![d] = Children(d)] /\ failed' = failed
        \/ todo' = todo /\ failed' = failed \cup {<<"open", d>>}
    BY <1>10 DEF Open
  <2>2. CASE c # d
    <3>1. /\ pc'[c] = pc[c] /\ todo'[c] = todo[c]
          /\ <<"open", c>> \in failed' <=> <<"open", c>> \in failed
      BY <1>10, <2>1, <2>2 DEF Open, Goto, Types
    <3>2. QED
      BY <3>1, PastSame
  <2>3. CASE c = d
    <3>1. pc[d] = "open" /\ (i \in todo'[d] \/ <<"open", d>> \in failed')
      BY <1>10, <2>1, <2>3 DEF Open, Types
    <3>2. QED
      BY <2>3, <3>1 DEF Past
  <2>4. QED
    BY <2>2, <2>3
<1>11. ASSUME NEW d \in Folders, NEW e \in Entries, Reads(d, e) PROVE Goal
  <2>1. /\ pc[d] = "items" /\ e \in todo[d] /\ todo' = [todo EXCEPT ![d] = @ \ {e}]
        /\ failed' = failed
        /\ pc' = pc \/ pc' = [pc EXCEPT ![d] = "size"]
    BY <1>11 DEF Reads, AtItem, SkipBroken, SkipOther, Take, Goto
  <2>2. CASE c # d
    BY <2>1, <2>2, PastSame DEF Types
  <2>3. CASE c = d /\ i # e
    BY <2>1, <2>3 DEF Types, Past
  <2>4. CASE c = d /\ i = e
    BY <1>11, <1>i, <2>1, <2>4 DEF Types, Past, ItemsOf
  <2>5. QED
    BY <2>2, <2>3, <2>4
<1>12. ASSUME NEW d \in Folders, Size(d) PROVE Goal
  <2>1. /\ failed' = failed \/ failed' = failed \cup {<<"size", item[d]>>}
        /\ pc'[c] = pc[c] \/ (pc[c] = "size" /\ pc'[c] \in {"load", "items"})
    BY <1>12 DEF Size, Goto, Types
  <2>2. QED
    BY <1>12, <2>1, PastSame DEF Size
<1>13. ASSUME NEW d \in Folders, LoadFileId(d) PROVE Goal
  <2>1. pc'[c] = pc[c] \/ (pc[c] = "load" /\ pc'[c] = "store")
    BY <1>13 DEF LoadFileId, Goto, Types
  <2>2. QED
    BY <1>13, <2>1, PastSame DEF LoadFileId
<1>14. ASSUME NEW d \in Folders, StoreFileId(d) PROVE Goal
  <2>1. pc'[c] = pc[c] \/ (pc[c] = "store" /\ pc'[c] = "callback")
    BY <1>14 DEF StoreFileId, Goto, Types
  <2>2. QED
    BY <1>14, <2>1, PastSame DEF StoreFileId
<1>15. ASSUME NEW d \in Folders, Callback(d) PROVE Goal
  <2>1. pc'[c] = pc[c] \/ (pc[c] = "callback" /\ pc'[c] = "items")
    BY <1>15 DEF Callback, Goto, Types
  <2>2. QED
    BY <1>15, <2>1, PastSame DEF Callback
<1>16. ASSUME UNCHANGED vars PROVE Goal
  BY <1>16, PastSame DEF vars
<1> HIDE DEF Goal
<1>17. Goal
  BY <1>1, <1>2, <1>3, <1>4, <1>5, <1>6, <1>7, <1>8, <1>9, <1>10, <1>11, <1>12, <1>13, <1>14,
     <1>15, <1>16 DEF Next, ProcessFolder, Done, Reads
<1>18. QED
  BY <1>17 DEF Goal

\* What has been come to stays come to.
LEMMA ComeStep ==
  ASSUME Types, Items, Queue, [Next]_vars, NEW e \in Entries
  PROVE  /\ Come(e) => Come(e)'
         /\ Come(e)' => Come(e) \/ Reads(tree.parent[e], e)
<1>1. PICK p \in Folders : p = tree.parent[e]
  BY TreeTypes DEF Types
<1>2. e \in Children(p)
  BY <1>1 DEF Children
<1>3. (Come(e) <=> Past(p, e)) /\ (Come(e)' <=> Past(p, e)')
  BY <1>1, Calls DEF Come, Past
<1>4. QED
  BY <1>1, <1>2, <1>3, PastStep

\* How a call of ProcessFolder moves.
LEMMA PcStep ==
  ASSUME Types, Queue, [Next]_vars, NEW c \in Folders
  PROVE  \/ pc'[c] = pc[c]
         \/ pc[c] = "none" /\ pc'[c] = "open" /\ at = "loop" /\ In(UnexploredDirs, c)
         \/ pc[c] = "items" /\ pc'[c] = "done" /\ (FolderDone(c) \/ ThreadDone(c))
         \/ Active(c) /\ pc'[c] \notin {"none", "open", "done"}
<1> DEFINE Goal == \/ pc'[c] = pc[c]
                   \/ pc[c] = "none" /\ pc'[c] = "open" /\ at = "loop" /\ In(UnexploredDirs, c)
                   \/ pc[c] = "items" /\ pc'[c] = "done" /\ (FolderDone(c) \/ ThreadDone(c))
                   \/ Active(c) /\ pc'[c] \notin {"none", "open", "done"}
<1> USE DEF folderVars
<1>1. ASSUME RootFails \/ Start \/ GetResult \/ RoundDone \/ Return \/ UNCHANGED vars PROVE Goal
  BY <1>1 DEF RootFails, Start, GetResult, RoundDone, Return, vars
<1>2. ASSUME NextFolder PROVE Goal
  <2>1. In(UnexploredDirs, Head(UnexploredDirs)) /\ Head(UnexploredDirs) \in Folders
    BY <1>2, Taken DEF NextFolder, Types
  <2>2. pc[Head(UnexploredDirs)] = "none"
    BY <2>1 DEF Queue, QueueOf
  <2>3. QED
    BY <1>2, <2>1, <2>2 DEF NextFolder, Types
<1>3. ASSUME NextRound PROVE Goal
  <2>1. c \in Range(UnexploredDirs) => In(UnexploredDirs, c) /\ pc[c] = "none"
    BY DEF Range, In, Queue, QueueOf
  <2>2. QED
    BY <1>3, <2>1 DEF NextRound, Types
<1>4. ASSUME NEW d \in Folders, FolderDone(d) \/ ThreadDone(d) PROVE Goal
  BY <1>4 DEF LoopOver, FolderDone, ThreadDone, LoopOver, Types
<1>5. ASSUME NEW d \in Folders, Open(d) PROVE Goal
  BY <1>5 DEF Open, Goto, Active, Types
<1>6. ASSUME NEW d \in Folders, NEW e \in Entries, Reads(d, e) PROVE Goal
  BY <1>6 DEF Reads, AtItem, SkipBroken, SkipOther, Take, Goto, Active, Types
<1>7. ASSUME NEW d \in Folders, Size(d) PROVE Goal
  BY <1>7 DEF Size, Goto, Active, Types
<1>8. ASSUME NEW d \in Folders, LoadFileId(d) \/ StoreFileId(d) \/ Callback(d) PROVE Goal
  BY <1>8 DEF LoadFileId, StoreFileId, Callback, Goto, Active, Types
<1> HIDE DEF Goal
<1>9. Goal
  BY <1>1, <1>2, <1>3, <1>4, <1>5, <1>6, <1>7, <1>8 DEF Next, ProcessFolder, Done, Reads
<1>10. QED
  BY <1>9 DEF Goal

\* What a folder's own steps leave alone.
LEMMA Works ==
  ASSUME NEW d \in Folders, Types, Queue,
         \/ Open(d) \/ Size(d) \/ LoadFileId(d) \/ StoreFileId(d) \/ Callback(d)
         \/ \E e \in Entries : Reads(d, e)
  PROVE  /\ Active(d) /\ at \in {"folder", "round"}
         /\ at' = at /\ UNCHANGED dirVars
         /\ pc' = pc \/ \E l \in {"items", "size", "load", "store", "callback"} :
                          pc' = [pc EXCEPT ![d] = l]
<1>1. /\ Active(d) /\ at' = at /\ UNCHANGED dirVars
      /\ pc' = pc \/ \E l \in {"items", "size", "load", "store", "callback"} :
                          pc' = [pc EXCEPT ![d] = l]
  BY DEF Reads, Open, AtItem, SkipBroken, SkipOther, Take, Size, LoadFileId, StoreFileId,
    Callback, Goto,
     Active
<1>2. QED
  BY <1>1 DEF Queue, QueueOf

LEMMA ResultsStep ==
  ASSUME Types, Queue, [Next]_vars, NEW c \in Folders, In(ParallelResults', c)
  PROVE  In(ParallelResults, c) \/ (NextRound /\ In(UnexploredDirs, c))
<1> USE DEF dirVars
<1>1. CASE NextRound
  BY <1>1 DEF NextRound
<1>2. CASE GetResult
  BY <1>2, Taken DEF GetResult, Types
<1>3. CASE ParallelResults' = ParallelResults
  BY <1>3
<1>4. NextRound \/ GetResult \/ ParallelResults' = ParallelResults
  BY DEF Next, ProcessFolder, Done, RootFails, Start, NextFolder, RoundDone,
    Return, FolderDone, ThreadDone, Open, SkipBroken, SkipOther, Take, Size, LoadFileId,
    StoreFileId, Callback, vars
<1>5. QED
  BY <1>1, <1>2, <1>3, <1>4

\* A folder whose turn has come stays so.
LEMMA OpenedStays ==
  ASSUME Types, Items, Queue, [Next]_vars, NEW f \in Folders, Opened(f)
  PROVE  Opened(f)'
<1> SUFFICES ASSUME f # Root
             PROVE  /\ tree'.kind[f] = "dir" /\ Come(f)' /\ pc'[tree'.parent[f]] = "done"
                    /\ ~In(ParallelResults', tree'.parent[f])
  BY DEF Opened
<1>1. f \in Entries /\ tree' = tree
  BY Calls DEF Folders
<1>2. PICK p \in Folders : p = tree.parent[f]
  BY <1>1, TreeTypes DEF Types
<1>3. tree.kind[f] = "dir" /\ Come(f) /\ pc[p] = "done" /\ ~In(ParallelResults, p)
  BY <1>2 DEF Opened
<1>4. pc'[p] = "done"
  BY <1>3, PcStep DEF Active
<1>5. ~In(UnexploredDirs, p)
  BY <1>3 DEF Queue, QueueOf
<1>6. ~In(ParallelResults', p)
  BY <1>3, <1>5, ResultsStep
<1>7. QED
  BY <1>1, <1>2, <1>3, <1>4, <1>6, ComeStep

LEMMA NextUnstarted == Types /\ Queue /\ [Next]_vars => Unstarted'
<1> SUFFICES ASSUME Types, Queue, [Next]_vars, at' = "start" PROVE Unstarted'
  BY DEF Unstarted
<1>1. at = "start" /\ \A d \in Folders : pc[d] = "none"
  <2>1. at = "start"
    BY DEF Next, ProcessFolder, Done, RootFails, Start, NextFolder, NextRound, GetResult,
      RoundDone, Return, FolderDone, ThreadDone, Open, SkipBroken, SkipOther, Take, Size,
      LoadFileId, StoreFileId, Callback, vars
  <2>2. QED
    BY <2>1 DEF Queue, Unstarted
<1>2. UNCHANGED vars
  BY <1>1 DEF Next, ProcessFolder, Done, RootFails, Start, NextFolder, NextRound, GetResult,
    RoundDone, Return, FolderDone, ThreadDone, LoopOver, Open, AtItem, SkipBroken, SkipOther,
    Take, Size,
    LoadFileId, StoreFileId, Callback
<1>3. QED
  BY <1>2 DEF Queue, Unstarted, vars, dirVars, folderVars

\* The folders found in one are new.
LEMMA Found ==
  ASSUME Types, Items, Queue, NEW d \in Folders, pc[d] # "done" \/ In(ParallelResults, d)
  PROVE  /\ Distinct(Directories[d]) /\ Directories[d] \in Seq(Folders)
         /\ \A f : In(Directories[d], f) =>
              /\ f \in Entries /\ tree.parent[f] = d /\ tree.kind[f] = "dir" /\ Come(f)
              /\ pc[f] = "none" /\ ~In(UnexploredDirs, f)
<1>1. Directories[d] \in Seq(Entries) /\ Directories[d] \in Seq(Folders)
  BY SeqMonotonic DEF Types, Folders
<1>2. ASSUME NEW f, In(Directories[d], f)
      PROVE  /\ f \in Entries /\ tree.parent[f] = d /\ tree.kind[f] = "dir" /\ Come(f)
             /\ pc[f] = "none" /\ ~In(UnexploredDirs, f)
  <2>1. f \in Entries
    BY <1>1, <1>2, ElementOfSeq, LenProperties DEF In
  <2>2. tree.parent[f] = d /\ tree.kind[f] = "dir" /\ Come(f)
    <3>1. f \in Children(d) /\ tree.kind[f] = "dir" /\ Past(d, f)
      BY <1>2, <2>1 DEF Items, ItemsOf
    <3>2. QED
      BY <3>1 DEF Children, Come
  <2>3. ~Opened(f)
    BY <2>1, <2>2, FindFilesAssumption DEF Opened
  <2>4. QED
    BY <2>1, <2>2, <2>3 DEF Queue, QueueOf, Folders
<1>3. QED
  BY <1>1, <1>2 DEF Items, ItemsOf

LEMMA NextWhere == Types /\ Items /\ Queue /\ [Next]_vars => Where'
<1> SUFFICES ASSUME Types, Items, Queue, [Next]_vars PROVE Where'
  OBVIOUS
<1> USE DEF callVars, dirVars, folderVars
<1>q. Where /\ Unstarted
  BY DEF Queue
<1>s. Distinct(<< >>) /\ \A x : ~In(<< >>, x)
  BY ShortSeqs
<1>1. CASE RootFails
  BY <1>1, <1>q DEF RootFails, Where, Unstarted
<1>2. CASE Start
  BY <1>2, <1>q, ShortSeqs DEF Start, Where
<1>3. CASE NextFolder
  <2>1. \A d \in Folders : ~Active(d)
    BY <1>3 DEF NextFolder, Queue, QueueOf
  <2>2. \A d \in Folders : Active(d)' => d = Head(UnexploredDirs)
    BY <1>3, <2>1 DEF NextFolder, Types, Active
  <2>3. Distinct(UnexploredDirs')
    BY <1>3, <1>q, Taken DEF NextFolder, Types, Where
  <2>4. QED
    BY <1>3, <1>q, <2>2, <2>3 DEF NextFolder, Where
<1>4. CASE NextRound
  BY <1>4, <1>q, <1>s DEF NextRound, Where
<1>5. CASE GetResult
  <2>1. /\ Head(ParallelResults) \in Folders /\ In(ParallelResults, Head(ParallelResults))
        /\ Distinct(ParallelResults')
    BY <1>5, <1>q, Taken DEF GetResult, Types, Where
  <2>2. Distinct(UnexploredDirs')
    BY <1>5, <1>q, <2>1, Found, Joined DEF GetResult, Types, Where
  <2>3. QED
    BY <1>5, <1>q, <2>1, <2>2 DEF GetResult, Where
<1>6. CASE RoundDone
  BY <1>6, <1>q DEF RoundDone, Where
<1>7. CASE Return
  BY <1>7, <1>q DEF Return, Where
<1>8. ASSUME NEW d \in Folders, FolderDone(d) PROVE Where'
  <2>1. Distinct(UnexploredDirs')
    BY <1>8, <1>q, Found, Joined DEF LoopOver, FolderDone, Types, Where
  <2>2. QED
    BY <1>8, <1>q, <2>1 DEF FolderDone, Where
<1>9. ASSUME NEW d \in Folders, ThreadDone(d) PROVE Where'
  BY <1>9, <1>q DEF ThreadDone, Where
<1>10. ASSUME NEW d \in Folders,
              \/ Open(d) \/ Size(d) \/ LoadFileId(d) \/ StoreFileId(d) \/ Callback(d)
              \/ \E e \in Entries : Reads(d, e)
       PROVE  Where'
  <2>1. \A f \in Folders : Active(f)' => Active(f)
    BY <1>10, Works DEF Types, Active
  <2>2. QED
    BY <1>10, <1>q, <2>1, Works, Calls DEF Where
<1>11. CASE UNCHANGED vars
  BY <1>11, <1>q DEF vars, Where, Active
<1>12. QED
  BY <1>1, <1>2, <1>3, <1>4, <1>5, <1>6, <1>7, <1>8, <1>9, <1>10, <1>11
  DEF Next, ProcessFolder, Done, Reads

\* How a folder comes into UnexploredDirs, and leaves it.
LEMMA WaitStep ==
  ASSUME Types, Items, Queue, [Next]_vars, NEW c \in Folders
  PROVE  /\ In(UnexploredDirs', c) =>
              \/ In(UnexploredDirs, c) /\ pc'[c] = pc[c]
              \/ Start /\ c = Root
              \/ \E d \in Folders : FolderDone(d) /\ In(Directories[d], c)
              \/ GetResult /\ In(Directories[Head(ParallelResults)], c)
         /\ In(UnexploredDirs, c) => In(UnexploredDirs', c) \/ pc'[c] = "open"
<1> DEFINE Goal == /\ In(UnexploredDirs', c) =>
                        \/ In(UnexploredDirs, c) /\ pc'[c] = pc[c]
                        \/ Start /\ c = Root
                        \/ \E d \in Folders : FolderDone(d) /\ In(Directories[d], c)
                        \/ GetResult /\ In(Directories[Head(ParallelResults)], c)
                   /\ In(UnexploredDirs, c) => In(UnexploredDirs', c) \/ pc'[c] = "open"
<1> USE DEF callVars, dirVars, folderVars
<1>1. ASSUME RootFails \/ RoundDone \/ Return \/ UNCHANGED vars PROVE Goal
  BY <1>1 DEF RootFails, RoundDone, Return, vars
<1>2. ASSUME Start PROVE Goal
  <2>1. ~In(UnexploredDirs, c)
    BY <1>2, ShortSeqs DEF Start, Queue, Unstarted
  <2>2. In(UnexploredDirs', c) => c = Root
    BY <1>2, ShortSeqs DEF Start
  <2>3. QED
    BY <1>2, <2>1, <2>2
<1>3. ASSUME NextFolder PROVE Goal
  <2>1. /\ In(UnexploredDirs, c) <=> In(UnexploredDirs', c) \/ c = Head(UnexploredDirs)
        /\ ~In(UnexploredDirs', Head(UnexploredDirs)) /\ Head(UnexploredDirs) \in Folders
    BY <1>3, Taken DEF NextFolder, Types, Queue, Where
  <2>2. pc'[c] = IF c = Head(UnexploredDirs) THEN "open" ELSE pc[c]
    BY <1>3, <2>1 DEF NextFolder, Types
  <2>3. QED
    BY <2>1, <2>2
<1>4. ASSUME NextRound PROVE Goal
  <2>1. In(UnexploredDirs, c) => c \in Range(UnexploredDirs)
    BY DEF In, Range
  <2>2. ~In(UnexploredDirs', c)
    BY <1>4, ShortSeqs DEF NextRound
  <2>3. QED
    BY <1>4, <2>1, <2>2 DEF NextRound, Types
<1>5. ASSUME GetResult PROVE Goal
  <2>1. Head(ParallelResults) \in Folders
    BY <1>5, Taken DEF GetResult, Types
  <2>2. Directories[Head(ParallelResults)] \in Seq(Folders)
    BY <2>1, SeqMonotonic DEF Types, Folders
  <2>3. In(UnexploredDirs', c) <=>
          In(UnexploredDirs, c) \/ In(Directories[Head(ParallelResults)], c)
    BY <1>5, <2>2, Joined DEF GetResult, Types
  <2>4. QED
    BY <1>5, <2>3 DEF GetResult
<1>6. ASSUME NEW d \in Folders, FolderDone(d) PROVE Goal
  <2>1. Directories[d] \in Seq(Folders)
    BY SeqMonotonic DEF Types, Folders
  <2>2. In(UnexploredDirs', c) <=> In(UnexploredDirs, c) \/ In(Directories[d], c)
    BY <1>6, <2>1, Joined DEF FolderDone, Types
  <2>3. In(UnexploredDirs, c) => pc[c] = "none"
    BY DEF Queue, QueueOf
  <2>4. In(UnexploredDirs, c) => pc'[c] = pc[c]
    BY <1>6, <2>3 DEF LoopOver, FolderDone, Types
  <2>5. QED
    BY <1>6, <2>2, <2>4
<1>7. ASSUME NEW d \in Folders,
             \/ ThreadDone(d)
             \/ Open(d) \/ Size(d) \/ LoadFileId(d) \/ StoreFileId(d) \/ Callback(d)
             \/ \E e \in Entries : Reads(d, e)
      PROVE  Goal
  <2>1. UnexploredDirs' = UnexploredDirs
    BY <1>7, Works DEF ThreadDone
  <2>2. In(UnexploredDirs, c) => pc[c] = "none"
    BY DEF Queue, QueueOf
  <2>3. pc[d] # "none" /\ (c # d => pc'[c] = pc[c])
    BY <1>7, Works DEF LoopOver, ThreadDone, Types, Active
  <2>4. QED
    BY <2>1, <2>2, <2>3
<1> HIDE DEF Goal
<1>8. Goal
  BY <1>1, <1>2, <1>3, <1>4, <1>5, <1>6, <1>7 DEF Next, ProcessFolder, Done, Reads
<1>9. QED
  BY <1>8 DEF Goal

LEMMA NextQueueOf ==
  ASSUME Types, Items, Queue, [Next]_vars, NEW c \in Folders
  PROVE  QueueOf(c)'
<1>q. QueueOf(c) /\ Where
  BY DEF Queue
<1>1. ASSUME In(UnexploredDirs', c) PROVE pc'[c] = "none" /\ Opened(c)'
  <2>1. CASE In(UnexploredDirs, c) /\ pc'[c] = pc[c]
    BY <1>q, <2>1, OpenedStays DEF QueueOf
  <2>2. CASE Start /\ c = Root
    BY <2>2 DEF Start, Queue, Unstarted, Opened, folderVars
  <2>3. ASSUME NEW d \in Folders, In(Directories[d], c), pc'[d] = "done", pc'[c] = pc[c],
               pc[d] # "done" \/ In(ParallelResults, d), ~In(ParallelResults', d)
        PROVE  pc'[c] = "none" /\ Opened(c)'
    <3>1. /\ c \in Entries /\ tree.parent[c] = d /\ tree.kind[c] = "dir" /\ Come(c)
          /\ pc[c] = "none"
      BY <2>3, Found
    <3>2. QED
      BY <2>3, <3>1, Calls, ComeStep DEF Opened
  <2>4. ASSUME NEW d \in Folders, FolderDone(d), In(Directories[d], c)
        PROVE  pc'[c] = "none" /\ Opened(c)'
    <3>1. pc[c] = "none"
      BY <2>4, Found DEF LoopOver, FolderDone
    <3>2. pc[d] # "done" /\ pc'[d] = "done" /\ pc'[c] = pc[c]
      BY <2>4, <3>1 DEF LoopOver, FolderDone, Types
    <3>3. ~In(ParallelResults', d)
      BY <1>q, <2>4, ShortSeqs DEF FolderDone, Where
    <3>4. QED
      BY <2>3, <2>4, <3>2, <3>3
  <2>5. ASSUME GetResult, In(Directories[Head(ParallelResults)], c)
        PROVE  pc'[c] = "none" /\ Opened(c)'
    <3>1. /\ Head(ParallelResults) \in Folders /\ In(ParallelResults, Head(ParallelResults))
          /\ ~In(ParallelResults', Head(ParallelResults))
      BY <1>q, <2>5, Taken DEF GetResult, Types, Where
    <3>2. pc' = pc /\ pc[Head(ParallelResults)] = "done"
      BY <2>5 DEF GetResult, folderVars
    <3>3. QED
      BY <2>3, <2>5, <3>1, <3>2
  <2>6. QED
    BY <1>1, <2>1, <2>2, <2>4, <2>5, WaitStep
<1>2. ASSUME pc'[c] # "none" PROVE Opened(c)'
  BY <1>2, <1>q, PcStep, OpenedStays DEF QueueOf, Active
<1>3. ASSUME In(ParallelResults', c) PROVE pc'[c] # "none"
  <2>1. CASE In(ParallelResults, c)
    BY <1>q, <2>1, PcStep DEF QueueOf
  <2>2. CASE NextRound /\ In(UnexploredDirs, c)
    BY <2>2 DEF NextRound, In, Range
  <2>3. QED
    BY <1>3, <2>1, <2>2, ResultsStep
<1>4. ASSUME Active(c)' PROVE at' = "folder" \/ (at' = "round" /\ In(ParallelResults', c))
  <2> DEFINE Goal == at' = "folder" \/ (at' = "round" /\ In(ParallelResults', c))
  <2> USE DEF callVars, dirVars, folderVars
  <2>1. ASSUME RootFails \/ Start \/ RoundDone \/ Return PROVE Goal
    <3>1. pc' = pc
      BY <2>1 DEF RootFails, Start, RoundDone, Return
    <3>2. Active(c)
      BY <1>4, <3>1 DEF Active
    <3>3. at \notin {"folder", "round"} \/ (at = "round" /\ ParallelResults = << >>)
      BY <2>1 DEF RootFails, Start, RoundDone, Return
    <3>4. QED
      BY <1>q, <3>2, <3>3, ShortSeqs DEF QueueOf
  <2>2. ASSUME NextFolder PROVE Goal
    BY <2>2 DEF NextFolder
  <2>3. ASSUME NextRound PROVE Goal
    <3>1. ~Active(c)
      BY <1>q, <2>3 DEF NextRound, QueueOf
    <3>2. c \in Range(UnexploredDirs)
      BY <1>4, <2>3, <3>1 DEF NextRound, Types, Active
    <3>3. In(UnexploredDirs, c)
      BY <3>2 DEF In, Range
    <3>4. QED
      BY <2>3, <3>3 DEF NextRound
  <2>4. ASSUME GetResult PROVE Goal
    <3>1. Active(c) /\ at' = "round" /\ at = "round"
      BY <1>4, <2>4 DEF GetResult, Active
    <3>2. c # Head(ParallelResults)
      BY <2>4, <3>1 DEF GetResult, Active
    <3>3. In(ParallelResults, c)
      BY <1>q, <3>1 DEF QueueOf
    <3>4. QED
      BY <2>4, <3>1, <3>2, <3>3, Taken DEF GetResult, Types
  <2>5. ASSUME NEW d \in Folders, FolderDone(d) PROVE Goal
    <3>1. Active(d) /\ Active(c) /\ c # d
      BY <1>4, <2>5 DEF LoopOver, FolderDone, Types, Active
    <3>2. QED
      BY <1>q, <2>5, <3>1 DEF FolderDone, Where
  <2>6. ASSUME NEW d \in Folders, ThreadDone(d) PROVE Goal
    <3>1. Active(c)
      BY <1>4, <2>6 DEF ThreadDone, Types, Active
    <3>2. QED
      BY <1>q, <2>6, <3>1 DEF ThreadDone, QueueOf
  <2>7. ASSUME NEW d \in Folders,
               \/ Open(d) \/ Size(d) \/ LoadFileId(d) \/ StoreFileId(d) \/ Callback(d)
               \/ \E e \in Entries : Reads(d, e)
        PROVE  Goal
    <3>1. Active(c)
      BY <1>4, <2>7, Works DEF Types, Active
    <3>2. QED
      BY <1>q, <2>7, <3>1, Works DEF QueueOf
  <2>8. ASSUME UNCHANGED vars PROVE Goal
    BY <1>4, <1>q, <2>8 DEF vars, QueueOf, Active
  <2> HIDE DEF Goal
  <2>9. Goal
    BY <2>1, <2>2, <2>3, <2>4, <2>5, <2>6, <2>7, <2>8 DEF Next, ProcessFolder, Done, Reads
  <2>10. QED
    BY <2>9 DEF Goal
<1>5. QED
  BY <1>1, <1>2, <1>3, <1>4 DEF QueueOf

LEMMA NextQueue == Types /\ Items /\ Queue /\ [Next]_vars => Queue'
<1> SUFFICES ASSUME Types, Items, Queue, [Next]_vars PROVE Queue'
  OBVIOUS
<1>1. Unstarted' /\ Where'
  BY NextUnstarted, NextWhere
<1>2. \A c \in Folders : QueueOf(c)'
  BY NextQueueOf
<1>3. Folders' = Folders
  BY DEF Folders
<1>4. QED
  BY <1>1, <1>2, <1>3 DEF Queue

\* A folder whose turn has come is read, or waits.
Covered ==
  at # "start" /\ (at = "returned" => Result = TRUE) =>
    \A f \in Folders : Opened(f) => pc[f] # "none" \/ In(UnexploredDirs, f)

LEMMA NextCovered == Types /\ Items /\ Queue /\ Covered /\ [Next]_vars => Covered'
<1> SUFFICES ASSUME Types, Items, Queue, Covered, [Next]_vars,
                    at' # "start", at' = "returned" => Result' = TRUE,
                    NEW c \in Folders, Opened(c)'
             PROVE  pc'[c] # "none" \/ In(UnexploredDirs', c)
  BY DEF Covered, Folders
<1>1. CASE at = "start"
  <2>1. Start
    BY <1>1 DEF Queue, Unstarted, Next, ProcessFolder, Done, RootFails, NextFolder, NextRound,
      GetResult, RoundDone, Return, FolderDone, ThreadDone, Open, SkipBroken, SkipOther, Take,
      Size, LoadFileId, StoreFileId, Callback, vars
  <2>2. \A p \in Folders : pc'[p] = "none"
    BY <1>1, <2>1 DEF Start, Queue, Unstarted, folderVars
  <2>3. c = Root
    BY <2>1, <2>2, Calls, TreeTypes DEF Opened, Types, Folders
  <2>4. QED
    BY <2>1, <2>3, ShortSeqs DEF Start
<1>2. CASE at # "start"
  <2>1. at = "returned" => UNCHANGED vars
    BY DEF Queue, QueueOf, Active, Next, ProcessFolder, Done, RootFails, Start, NextFolder,
      NextRound, GetResult, RoundDone, Return, FolderDone, ThreadDone, LoopOver, Open, AtItem,
      SkipBroken, SkipOther,
      Take, Size, LoadFileId, StoreFileId, Callback
  <2>2. \A f \in Folders : Opened(f) => pc[f] # "none" \/ In(UnexploredDirs, f)
    BY <1>2, <2>1 DEF Covered, vars
  <2>3. CASE Opened(c)
    <3>1. CASE pc[c] # "none"
      BY <3>1, PcStep DEF Active
    <3>2. CASE In(UnexploredDirs, c)
      BY <3>2, WaitStep
    <3>3. QED
      BY <2>2, <2>3, <3>1, <3>2
  <2>4. CASE ~Opened(c)
    <3>1. c \in Entries /\ c # Root /\ tree' = tree
      BY <2>4, Calls DEF Opened, Folders
    <3>2. PICK p \in Folders : p = tree.parent[c]
      BY <3>1, TreeTypes DEF Types
    <3>3. /\ tree.kind[c] = "dir" /\ Come(c)' /\ pc'[p] = "done" /\ ~In(ParallelResults', p)
      BY <3>1, <3>2 DEF Opened
    <3>4. ~Reads(p, c)
      BY <3>3 DEF Reads, AtItem, SkipBroken, SkipOther, Take, Goto, Types
    <3>5. Come(c)
      BY <3>1, <3>2, <3>3, <3>4, ComeStep
    <3>6. In(Directories[p], c)
      <4>1. c \in Children(p) /\ Past(p, c)
        BY <3>1, <3>2, <3>5 DEF Come, Children
      <4>2. QED
        BY <3>1, <3>3, <4>1 DEF Items, ItemsOf
    <3>7. pc[p] # "done" \/ In(ParallelResults, p)
      BY <2>4, <3>2, <3>3, <3>5 DEF Opened
    <3>8. Directories[p] \in Seq(Folders)
      BY SeqMonotonic DEF Types, Folders
    <3>9. CASE FolderDone(p)
      BY <3>6, <3>8, <3>9, Joined DEF FolderDone, Types
    <3>10. CASE In(ParallelResults, p)
      <4>1. GetResult
        <5>1. at = "round"
          BY <3>10, ShortSeqs DEF Queue, Where
        <5>2. \/ GetResult \/ ParallelResults' = ParallelResults
          BY <5>1 DEF Next, ProcessFolder, Done, RootFails, Start, NextFolder, NextRound,
            RoundDone, Return, FolderDone, ThreadDone, Open, SkipBroken, SkipOther, Take, Size,
            LoadFileId, StoreFileId, Callback, vars, dirVars
        <5>3. QED
          BY <3>3, <3>10, <5>2
      <4>2. p = Head(ParallelResults)
        BY <3>3, <3>10, <4>1, Taken DEF GetResult, Types
      <4>3. QED
        BY <3>6, <3>8, <4>1, <4>2, Joined DEF GetResult, Types
    <3>11. CASE pc[p] # "done" /\ ~In(ParallelResults, p)
      <4>1. FolderDone(p) \/ ThreadDone(p)
        BY <3>3, <3>11, PcStep
      <4>2. ~ThreadDone(p)
        BY <3>11 DEF LoopOver, ThreadDone, Queue, QueueOf, Active
      <4>3. QED
        BY <3>9, <4>1, <4>2
    <3>12. QED
      BY <3>7, <3>10, <3>11
  <2>5. QED
    BY <2>3, <2>4
<1>3. QED
  BY <1>1, <1>2

\* A call that leaves its loop early has the scan return false.
Broken == \A d \in Folders : Error[d] => Result = FALSE

LEMMA NextBroken == Types /\ Broken /\ [Next]_vars => Broken'
<1> SUFFICES ASSUME Types, Broken, [Next]_vars, NEW c \in Folders, Error'[c]
             PROVE  Result' = FALSE
  BY DEF Broken, Folders
<1>1. \/ Error' = Error /\ (Result' = Result \/ Result' = FALSE)
      \/ Result' = FALSE
  BY DEF Next, ProcessFolder, Done, RootFails, Start, NextFolder, NextRound, GetResult, RoundDone,
    Return, FolderDone, ThreadDone, Open, SkipBroken, SkipOther, Take, Size, LoadFileId,
    StoreFileId, Callback, vars, folderVars
<1>2. QED
  BY <1>1 DEF Broken

-----------------------------------------------------------------------------
(* What is announced *)

Sent(e) == \E k \in DOMAIN announced : announced[k].entry = e

SentOnce ==
  \A j, k \in DOMAIN announced : announced[j].entry = announced[k].entry => j = k

Callbacks ==
  /\ \A e \in Folders : Sent(e) => IF e = Root THEN RootIsSent ELSE Come(e) /\ ~Held(e)
  /\ SentOnce
  /\ \A e \in Entries : Come(e) =>
       /\ tree.kind[e] = "broken" => Result = FALSE
       /\ tree.kind[e] \in {"dir", "file"} /\ ~Held(e) /\ <<"size", e>> \notin failed
            => Sent(e)
  /\ RootIsSent /\ at \notin {"start", "returned"} /\ <<"size", Root>> \notin failed
       => Sent(Root)

LEMMA InitCallbacks == Init => Covered /\ Callbacks /\ ParentFirst
<1> SUFFICES ASSUME Init PROVE Covered /\ Callbacks /\ ParentFirst
  OBVIOUS
<1>1. at = "start" /\ tree \in Trees /\ pc = [d \in Folders |-> "none"] /\ announced = << >>
  BY DEF Init
<1>2. \A e \in Entries : ~Come(e)
  BY <1>1, TreeTypes DEF Come, Past
<1>3. DOMAIN announced = {}
  BY <1>1
<1>4. QED
  BY <1>1, <1>2, <1>3 DEF Covered, Callbacks, SentOnce, Sent, ParentFirst

Announcements == [id : Nat \ {0}, entry : Folders]

\* One more announcement.
LEMMA SentAppend ==
  ASSUME Types, NEW n \in Nat \ {0}, NEW x \in Folders,
         announced' = Append(announced, [id |-> n, entry |-> x])
  PROVE  /\ Len(announced) \in Nat /\ DOMAIN announced = 1..Len(announced)
         /\ DOMAIN announced' = 1..(Len(announced) + 1)
         /\ \A k \in 1..Len(announced) : announced'[k] = announced[k]
         /\ announced'[Len(announced) + 1] = [id |-> n, entry |-> x]
         /\ \A y : Sent(y)' <=> Sent(y) \/ y = x
<1> DEFINE m == Len(announced)
<1>1. [id |-> n, entry |-> x] \in [id : Nat \ {0}, entry : Folders]
  OBVIOUS
<1>2. /\ m \in Nat /\ DOMAIN announced = 1..m /\ DOMAIN announced' = 1..(m + 1)
      /\ \A k \in 1..m : announced'[k] = announced[k]
      /\ announced'[m + 1] = [id |-> n, entry |-> x]
  BY <1>1, AppendProperties, LenProperties DEF Types
<1>3. /\ \A k \in 1..(m + 1) : k \in 1..m \/ k = m + 1
      /\ \A k \in 1..m : k \in 1..(m + 1)
      /\ m + 1 \in 1..(m + 1)
  BY <1>2
<1>4. ASSUME NEW y PROVE Sent(y)' <=> Sent(y) \/ y = x
  <2>1. Sent(y) => Sent(y)'
    BY <1>2, <1>3 DEF Sent
  <2>2. Sent(x)'
    BY <1>2, <1>3 DEF Sent
  <2>3. Sent(y)' => Sent(y) \/ y = x
    BY <1>2, <1>3 DEF Sent
  <2>4. QED
    BY <2>1, <2>2, <2>3
<1>5. QED
  BY <1>2, <1>4

\* Who announces.
LEMMA SentStep ==
  ASSUME Types, Items, Queue, [Next]_vars
  PROVE  \/ announced' = announced
         \/ Start /\ RootIsSent /\ FileId' = FileId + 1
            /\ announced' = Append(announced, [id |-> FileId + 1, entry |-> Root])
         \/ \E d \in Folders : Callback(d)
BY DEF Next, ProcessFolder, Done, RootFails, Start, NextFolder, NextRound, GetResult, RoundDone,
  Return, FolderDone, ThreadDone, Open, SkipBroken, SkipOther, Take, Size, LoadFileId,
  StoreFileId, vars

LEMMA SentStays ==
  ASSUME Types, Items, Queue, [Next]_vars, NEW e, Sent(e)
  PROVE  Sent(e)'
<1>1. CASE announced' = announced
  BY <1>1 DEF Sent
<1>2. CASE announced' = Append(announced, [id |-> FileId + 1, entry |-> Root])
  <2>1. FileId + 1 \in Nat \ {0} /\ Root \in Folders
    BY DEF Types, Folders
  <2>2. QED
    BY <1>2, <2>1, SentAppend
<1>3. ASSUME NEW d \in Folders, Callback(d) PROVE Sent(e)'
  <2>1. id[d] + 1 \in Nat \ {0} /\ item[d] \in Folders
    BY DEF Types
  <2>2. QED
    BY <1>3, <2>1, SentAppend DEF Callback
<1>4. QED
  BY <1>1, <1>2, <1>3, SentStep

\* What is taken is dealt with by Callback, or by a size that is not to be had.
LEMMA HandStep ==
  ASSUME Types, Items, Queue, [Next]_vars, NEW p \in Folders
  PROVE  \/ (InHand(p)' <=> InHand(p)) /\ (InHand(p) => item'[p] = item[p])
         \/ \E e \in Entries : Take(p, e)
         \/ Callback(p)
         \/ Size(p) /\ pc'[p] = "items" /\ <<"size", item[p]>> \in failed'
<1> DEFINE Goal == \/ (InHand(p)' <=> InHand(p)) /\ (InHand(p) => item'[p] = item[p])
                   \/ \E e \in Entries : Take(p, e)
                   \/ Callback(p)
                   \/ Size(p) /\ pc'[p] = "items" /\ <<"size", item[p]>> \in failed'
<1> USE DEF folderVars
<1>1. ASSUME RootFails \/ Start \/ GetResult \/ RoundDone \/ Return \/ UNCHANGED vars PROVE Goal
  <2>1. pc' = pc /\ item' = item
    BY <1>1 DEF RootFails, Start, GetResult, RoundDone, Return, vars
  <2>2. QED
    BY <2>1 DEF InHand
<1>2. ASSUME NextFolder \/ NextRound PROVE Goal
  <2>1. item' = item
    BY <1>2 DEF NextFolder, NextRound
  <2>2. at = "loop" /\ ~Active(p)
    BY <1>2 DEF NextFolder, NextRound, Queue, QueueOf
  <2>3. pc'[p] \in {pc[p], "open"}
    BY <2>2, PcStep DEF Active, FolderDone, ThreadDone
  <2>4. QED
    BY <2>1, <2>2, <2>3 DEF InHand, Active
<1>3. ASSUME NEW d \in Folders, FolderDone(d) \/ ThreadDone(d) \/ Open(d) PROVE Goal
  <2>1. /\ item' = item
        /\ \/ pc'[p] = pc[p]
           \/ pc[p] \in {"items", "open"} /\ pc'[p] \in {"items", "done"}
    BY <1>3 DEF LoopOver, FolderDone, ThreadDone, LoopOver, Open, Goto, Types
  <2>2. QED
    BY <2>1 DEF InHand
<1>4. ASSUME NEW d \in Folders, NEW e \in Entries, SkipBroken(d, e) \/ SkipOther(d, e) PROVE Goal
  BY <1>4 DEF SkipBroken, SkipOther, InHand
<1>5. ASSUME NEW d \in Folders, NEW e \in Entries, Take(d, e) PROVE Goal
  BY <1>5 DEF Take, Goto, Types, InHand
<1>6. ASSUME NEW d \in Folders, Size(d) PROVE Goal
  <2>1. CASE d = p
    BY <1>6, <2>1 DEF Size, Goto, Types, InHand
  <2>2. CASE d # p
    <3>1. pc'[p] = pc[p] /\ item' = item
      BY <1>6, <2>2 DEF Size, Goto, Types
    <3>2. QED
      BY <3>1 DEF InHand
  <2>3. QED
    BY <2>1, <2>2
<1>7. ASSUME NEW d \in Folders, LoadFileId(d) \/ StoreFileId(d) PROVE Goal
  BY <1>7 DEF LoadFileId, StoreFileId, Goto, Types, InHand
<1>8. ASSUME NEW d \in Folders, Callback(d) PROVE Goal
  BY <1>8 DEF Callback, Goto, Types, InHand
<1> HIDE DEF Goal
<1>9. Goal
  BY <1>1, <1>2, <1>3, <1>4, <1>5, <1>6, <1>7, <1>8 DEF Next, ProcessFolder, Done
<1>10. QED
  BY <1>9 DEF Goal

LEMMA HeldStep ==
  ASSUME Types, Items, Queue, [Next]_vars, NEW p \in Folders, NEW e \in Children(p)
  PROVE  /\ Held(e)' => Held(e) \/ Take(p, e)
         /\ Held(e) => \/ Held(e)'
                       \/ Callback(p) /\ item[p] = e
                       \/ <<"size", e>> \in failed'
<1>1. /\ Held(e) <=> InHand(p) /\ item[p] = e
      /\ Held(e)' <=> InHand(p)' /\ item'[p] = e
  BY Calls DEF Held, Children, InHand
<1>2. ASSUME NEW i \in Entries, Take(p, i) PROVE item'[p] = i /\ ~InHand(p)
  BY <1>2 DEF AtItem, Take, Types, InHand
<1>3. Callback(p) => ~InHand(p)'
  BY DEF Callback, Goto, Types, InHand
<1>4. pc'[p] = "items" => ~InHand(p)'
  BY DEF InHand
<1>5. QED
  BY <1>1, <1>2, <1>3, <1>4, HandStep

LEMMA Memory ==
  ASSUME Types, Items, Queue, [Next]_vars
  PROVE  /\ failed \subseteq failed' /\ (Result = FALSE => Result' = FALSE)
         /\ (RootIsSent' <=> RootIsSent)
<1>1. failed \subseteq failed' /\ (Result = FALSE => Result' = FALSE)
  BY DEF Next, ProcessFolder, Done, RootFails, Start, NextFolder, NextRound, GetResult, RoundDone,
    Return, FolderDone, ThreadDone, Open, SkipBroken, SkipOther, Take, Size, LoadFileId,
    StoreFileId, Callback, vars
<1>2. QED
  BY <1>1, Calls DEF RootIsSent

\* What Callback announces is in hand.
LEMMA ToSend ==
  ASSUME Types, Items, Queue, Callbacks, NEW d \in Folders, InHand(d)
  PROVE  /\ item[d] \in Entries /\ item[d] # Root /\ tree.parent[item[d]] = d
         /\ Come(item[d]) /\ Held(item[d]) /\ ~Sent(item[d])
<1>1. /\ item[d] \in Children(d) \ todo[d] /\ <<"open", d>> \notin failed
      /\ pc[d] \notin {"none", "open"}
  BY DEF Items, ItemsOf, InHand
<1>2. item[d] \in Entries /\ tree.parent[item[d]] = d /\ item[d] # Root
  BY <1>1, FindFilesAssumption DEF Children
<1>3. Come(item[d]) /\ Held(item[d])
  BY <1>1, <1>2 DEF Come, Past, Held
<1>4. QED
  BY <1>2, <1>3 DEF Callbacks, Folders

LEMMA NextSent ==
  ASSUME Types, Items, Queue, Callbacks, [Next]_vars, NEW e \in Folders, Sent(e)'
  PROVE  IF e = Root THEN RootIsSent' ELSE Come(e)' /\ ~Held(e)'
<1>r. FileId + 1 \in Nat \ {0} /\ Root \in Folders
  BY DEF Types, Folders
<1>1. CASE e = Root
  <2>1. RootIsSent
    <3>1. CASE announced' = announced
      BY <1>1, <3>1 DEF Sent, Callbacks
    <3>2. ASSUME NEW d \in Folders, Callback(d) PROVE RootIsSent
      <4>1. id[d] + 1 \in Nat \ {0} /\ item[d] \in Folders /\ InHand(d)
        BY <3>2 DEF Types, Callback, InHand
      <4>2. item[d] # Root
        BY <4>1, ToSend
      <4>3. Sent(Root)
        BY <1>1, <3>2, <4>1, <4>2, SentAppend DEF Callback
      <4>4. QED
        BY <1>r, <4>3 DEF Callbacks
    <3>3. QED
      BY <3>1, <3>2, SentStep
  <2>2. QED
    BY <1>1, <2>1, Memory
<1>2. CASE e # Root
  <2>1. PICK p \in Folders : e \in Entries /\ p = tree.parent[e] /\ e \in Children(p)
    BY <1>2, TreeTypes DEF Types, Folders, Children
  <2>2. CASE Sent(e)
    <3>1. Come(e) /\ ~Held(e)
      BY <1>2, <2>2 DEF Callbacks
    <3>2. ~Take(p, e)
      BY <2>1, <3>1 DEF AtItem, Take, Come, Past
    <3>3. QED
      BY <1>2, <2>1, <3>1, <3>2, ComeStep, HeldStep
  <2>3. CASE ~Sent(e)
    <3>1. PICK d \in Folders : Callback(d)
      BY <1>2, <1>r, <2>3, SentStep, SentAppend DEF Sent
    <3>2. id[d] + 1 \in Nat \ {0} /\ item[d] \in Folders /\ InHand(d)
      BY <3>1 DEF Types, Callback, InHand
    <3>3. e = item[d]
      BY <2>3, <3>1, <3>2, SentAppend DEF Callback
    <3>4. Come(e) /\ d = p
      BY <2>1, <3>2, <3>3, ToSend
    <3>5. ~InHand(p)'
      BY <3>1, <3>4 DEF Callback, Goto, InHand, Types
    <3>6. ~Held(e)'
      BY <2>1, <3>5, Calls DEF Held, InHand
    <3>7. QED
      BY <1>2, <2>1, <3>4, <3>6, ComeStep
  <2>4. QED
    BY <2>2, <2>3
<1>3. QED
  BY <1>1, <1>2

LEMMA NextOnce == Types /\ Items /\ Queue /\ Callbacks /\ [Next]_vars => SentOnce'
<1> SUFFICES ASSUME Types, Items, Queue, Callbacks, [Next]_vars PROVE SentOnce'
  OBVIOUS
<1>1. SentOnce
  BY DEF Callbacks
<1>2. CASE announced' = announced
  BY <1>1, <1>2 DEF SentOnce
<1>3. ASSUME NEW n \in Nat \ {0}, NEW x \in Folders, ~Sent(x),
             announced' = Append(announced, [id |-> n, entry |-> x])
      PROVE  SentOnce'
  <2> DEFINE m == Len(announced)
  <2>1. /\ m \in Nat /\ DOMAIN announced = 1..m /\ DOMAIN announced' = 1..(m + 1)
        /\ \A k \in 1..m : announced'[k] = announced[k]
        /\ announced'[m + 1].entry = x
    BY <1>3, SentAppend
  <2> HIDE DEF m
  <2>2. \A k \in 1..(m + 1) : k \in 1..m \/ k = m + 1
    BY <2>1
  <2>3. \A k \in 1..m : announced'[k].entry # x
    BY <1>3, <2>1 DEF Sent
  <2>4. \A j, k \in 1..m : announced'[j].entry = announced'[k].entry => j = k
    BY <1>1, <2>1 DEF SentOnce
  <2>5. QED
    BY <2>1, <2>2, <2>3, <2>4 DEF SentOnce
<1>4. CASE Start /\ announced' = Append(announced, [id |-> FileId + 1, entry |-> Root])
  <2>1. FileId + 1 \in Nat \ {0} /\ Root \in Folders
    BY DEF Types, Folders
  <2>2. announced = << >>
    BY <1>4 DEF Start, Queue, Unstarted
  <2>3. ~Sent(Root)
    BY <2>2 DEF Sent
  <2>4. QED
    BY <1>3, <1>4, <2>1, <2>3
<1>5. ASSUME NEW d \in Folders, Callback(d) PROVE SentOnce'
  <2>1. id[d] + 1 \in Nat \ {0} /\ item[d] \in Folders /\ InHand(d)
    BY <1>5 DEF Types, Callback, InHand
  <2>2. QED
    BY <1>3, <1>5, <2>1, ToSend DEF Callback
<1>6. QED
  BY <1>2, <1>4, <1>5, SentStep

LEMMA NextCome ==
  ASSUME Types, Items, Queue, Callbacks, [Next]_vars, NEW e \in Entries, Come(e)'
  PROVE  /\ tree'.kind[e] = "broken" => Result' = FALSE
         /\ tree'.kind[e] \in {"dir", "file"} /\ ~Held(e)' /\ <<"size", e>> \notin failed'
              => Sent(e)'
<1>1. PICK p \in Folders : p = tree.parent[e] /\ e \in Children(p)
  BY TreeTypes DEF Types, Children
<1>2. tree' = tree
  BY Calls
<1>3. CASE Come(e)
  <2>1. tree.kind[e] = "broken" => Result' = FALSE
    BY <1>3, Memory DEF Callbacks
  <2>2. ASSUME tree.kind[e] \in {"dir", "file"}, ~Held(e)', <<"size", e>> \notin failed'
        PROVE  Sent(e)'
    <3>1. CASE Held(e)
      <4>1. Callback(p) /\ item[p] = e
        BY <1>1, <2>2, <3>1, HeldStep
      <4>2. id[p] + 1 \in Nat \ {0} /\ item[p] \in Folders
        BY DEF Types
      <4>3. QED
        BY <4>1, <4>2, SentAppend DEF Callback
    <3>2. CASE ~Held(e)
      BY <1>3, <2>2, <3>2, Memory, SentStays DEF Callbacks
    <3>3. QED
      BY <3>1, <3>2
  <2>3. QED
    BY <1>2, <2>1, <2>2
<1>4. CASE ~Come(e)
  <2>1. Reads(p, e)
    BY <1>1, <1>4, ComeStep
  <2>2. tree.kind[e] = "broken" => Result' = FALSE
    BY <2>1 DEF Reads, AtItem, SkipBroken, SkipOther, Take
  <2>3. tree.kind[e] \in {"dir", "file"} => Take(p, e)
    BY <2>1 DEF Reads, SkipBroken, SkipOther
  <2>4. Take(p, e) => Held(e)'
    BY <1>1, <1>2 DEF Take, Goto, Types, Held, InHand
  <2>5. QED
    BY <1>2, <2>2, <2>3, <2>4
<1>5. QED
  BY <1>3, <1>4

LEMMA NextRoot ==
  ASSUME Types, Items, Queue, Callbacks, [Next]_vars,
         RootIsSent', at' \notin {"start", "returned"}, <<"size", Root>> \notin failed'
  PROVE  Sent(Root)'
<1>1. RootIsSent /\ <<"size", Root>> \notin failed
  BY Memory
<1>2. CASE at = "start"
  <2>1. Start
    BY <1>2 DEF Queue, Unstarted, Next, ProcessFolder, Done, RootFails, NextFolder,
      NextRound, GetResult, RoundDone, Return, FolderDone, ThreadDone, Open, SkipBroken,
      SkipOther, Take, Size, LoadFileId, StoreFileId, Callback, vars
  <2>2. announced' = Append(announced, [id |-> FileId + 1, entry |-> Root])
    BY <1>1, <2>1 DEF Start
  <2>3. FileId + 1 \in Nat \ {0} /\ Root \in Folders
    BY DEF Types, Folders
  <2>4. QED
    BY <2>2, <2>3, SentAppend
<1>3. CASE at # "start"
  <2>1. at # "returned"
    BY DEF Queue, QueueOf, Active, Next, ProcessFolder, Done, RootFails, Start, NextFolder,
      NextRound, GetResult, RoundDone, Return, FolderDone, ThreadDone, Open, SkipBroken, SkipOther,
      Take, Size, LoadFileId, StoreFileId, Callback, vars
  <2>2. QED
    BY <1>1, <1>3, <2>1, SentStays DEF Callbacks
<1>4. QED
  BY <1>2, <1>3

LEMMA NextCallbacks == Types /\ Items /\ Queue /\ Callbacks /\ [Next]_vars => Callbacks'
<1> SUFFICES ASSUME Types, Items, Queue, Callbacks, [Next]_vars PROVE Callbacks'
  OBVIOUS
<1>1. Folders' = Folders
  BY DEF Folders
<1>2. QED
  BY <1>1, NextSent, NextOnce, NextCome, NextRoot DEF Callbacks

\* A folder is announced before what is in it is read, unless its size was not
\* to be had.
LEMMA FolderSent ==
  ASSUME Types, Items, Queue, Callbacks, NEW d \in Folders, Active(d),
         d # Root \/ RootIsSent, <<"size", d>> \notin failed
  PROVE  Sent(d)
<1>1. CASE d = Root
  BY <1>1 DEF Callbacks, Queue, QueueOf
<1>2. CASE d # Root
  <2>1. d \in Entries /\ tree.kind[d] = "dir" /\ Come(d) /\ pc[tree.parent[d]] = "done"
    BY <1>2 DEF Queue, QueueOf, Opened, Active, Folders
  <2>2. ~Held(d)
    BY <2>1 DEF Held, InHand
  <2>3. QED
    BY <2>1, <2>2 DEF Callbacks
<1>3. QED
  BY <1>1, <1>2

LEMMA NextParent ==
  Types /\ Items /\ Queue /\ Callbacks /\ ParentFirst /\ [Next]_vars => ParentFirst'
<1> SUFFICES ASSUME Types, Items, Queue, Callbacks, ParentFirst, [Next]_vars PROVE ParentFirst'
  OBVIOUS
<1>0. tree' = tree /\ (RootIsSent' <=> RootIsSent)
  BY Calls, Memory
<1> SUFFICES ASSUME NEW k \in DOMAIN announced',
                    NEW e, e = announced'[k].entry, e # Root,
                    NEW p, p = tree.parent[e], p # Root \/ RootIsSent, <<"size", p>> \notin failed'
             PROVE  \E j \in 1..(k - 1) : announced'[j].entry = p
  BY <1>0 DEF ParentFirst
<1>1. <<"size", p>> \notin failed
  BY Memory
<1> DEFINE m == Len(announced)
<1>2. m \in Nat /\ DOMAIN announced = 1..m
  BY LenProperties DEF Types
<1> HIDE DEF m
<1>3. ASSUME k \in 1..m, announced'[k] = announced[k],
             \A j \in 1..m : announced'[j] = announced[j]
      PROVE  \E j \in 1..(k - 1) : announced'[j].entry = p
  <2>1. PICK j \in 1..(k - 1) : announced[j].entry = p
    BY <1>1, <1>2, <1>3 DEF ParentFirst
  <2>2. j \in 1..m
    BY <1>2, <1>3
  <2>3. QED
    BY <1>3, <2>1, <2>2
<1>4. CASE announced' = announced
  BY <1>2, <1>3, <1>4
<1>5. ASSUME NEW n \in Nat \ {0}, NEW x \in Folders,
             announced' = Append(announced, [id |-> n, entry |-> x]),
             e = x => Sent(p)
      PROVE  \E j \in 1..(k - 1) : announced'[j].entry = p
  <2>1. /\ DOMAIN announced' = 1..(m + 1)
        /\ \A j \in 1..m : announced'[j] = announced[j]
        /\ announced'[m + 1].entry = x
    BY <1>5, SentAppend DEF m
  <2>2. CASE k \in 1..m
    BY <1>3, <2>1, <2>2
  <2>3. CASE k = m + 1
    <3>1. Sent(p)
      BY <1>5, <2>1, <2>3
    <3>2. PICK j \in 1..m : announced[j].entry = p
      BY <1>2, <3>1 DEF Sent
    <3>3. j \in 1..(k - 1)
      BY <1>2, <2>3
    <3>4. QED
      BY <2>1, <3>2, <3>3
  <2>4. k \in 1..m \/ k = m + 1
    BY <1>2, <2>1
  <2>5. QED
    BY <2>2, <2>3, <2>4
<1>6. CASE Start /\ announced' = Append(announced, [id |-> FileId + 1, entry |-> Root])
  <2>1. FileId + 1 \in Nat \ {0} /\ Root \in Folders
    BY DEF Types, Folders
  <2>2. QED
    BY <1>5, <1>6, <2>1
<1>7. ASSUME NEW d \in Folders, Callback(d)
      PROVE  \E j \in 1..(k - 1) : announced'[j].entry = p
  <2>1. /\ id[d] + 1 \in Nat \ {0} /\ item[d] \in Folders /\ InHand(d) /\ Active(d)
        /\ announced' = Append(announced, [id |-> id[d] + 1, entry |-> item[d]])
    <3>1. /\ pc[d] = "callback"
          /\ announced' = Append(announced, [id |-> id[d] + 1, entry |-> item[d]])
      BY <1>7 DEF Callback
    <3>2. id[d] \in Nat /\ item[d] \in Folders
      BY DEF Types
    <3>3. QED
      BY <3>1, <3>2 DEF InHand, Active
  <2>2. e = item[d] => p = d
    BY <2>1, ToSend
  <2>3. e = item[d] => Sent(p)
    BY <1>1, <2>1, <2>2, FolderSent
  <2>4. QED
    BY <1>5, <2>1, <2>3
<1>8. QED
  BY <1>4, <1>6, <1>7, SentStep

-----------------------------------------------------------------------------
(* Completeness *)

\* When FindFiles returns true, what can be reached has been come to.
Seen == {e \in Folders : e = Root \/ (Come(e) /\ tree.kind[e] \in {"dir", "file"})}

LEMMA SeenClosed ==
  ASSUME Types, Items, Queue, Covered, Broken, at = "returned", Result = TRUE
  PROVE  /\ Closed(Seen)
         /\ \A e \in Entries :
              LET p == tree.parent[e] IN
              p \in Seen /\ <<"open", p>> \notin failed => pc[p] = "done" /\ Come(e)
<1>1. /\ UnexploredDirs = << >> /\ ParallelResults = << >>
      /\ \A f \in Folders : ~Active(f)
  BY DEF Queue, Where, QueueOf
<1>2. ASSUME NEW f \in Folders, Opened(f) PROVE pc[f] = "done"
  BY <1>1, <1>2, ShortSeqs DEF Covered, Active
<1>3. ASSUME NEW e \in Entries, NEW p \in Folders, p = tree.parent[e], p \in Seen,
             <<"open", p>> \notin failed
      PROVE  pc[p] = "done" /\ Come(e)
  <2>1. Opened(p)
    <3>1. CASE p = Root
      BY <3>1 DEF Opened
    <3>2. CASE p # Root
      <4>1. p \in Entries /\ tree.kind[p] = "dir" /\ Come(p)
        BY <1>3, <3>2, TreeTypes DEF Types, Seen
      <4>2. PICK q \in Folders : q = tree.parent[p]
        BY <4>1, TreeTypes DEF Types
      <4>3. pc[q] # "none"
        BY <4>1, <4>2 DEF Come, Past
      <4>4. pc[q] = "done"
        BY <1>1, <4>3 DEF Active
      <4>5. QED
        BY <1>1, <4>1, <4>2, <4>4, ShortSeqs DEF Opened
    <3>3. QED
      BY <3>1, <3>2
  <2>2. pc[p] = "done"
    BY <1>2, <2>1
  <2>3. todo[p] = {}
    BY <2>2 DEF Broken, Items, ItemsOf
  <2>4. QED
    BY <1>3, <2>2, <2>3 DEF Come, Past
<1>4. \A e \in Entries : tree.parent[e] \in Folders
  BY TreeTypes DEF Types
<1>5. Closed(Seen)
  BY <1>3, <1>4 DEF Closed, Seen, Folders
<1>6. QED
  BY <1>3, <1>4, <1>5

LEMMA Completed ==
  ASSUME Types, Items, Queue, Covered, Callbacks, Broken PROVE Complete
<1>1. ASSUME at = "returned", Result = TRUE, NEW e \in Entries
      PROVE  /\ tree.kind[e] = "broken" =>
                  tree.parent[e] \notin Reached \/ <<"open", tree.parent[e]>> \in failed
             /\ e \in Reached /\ <<"size", e>> \notin failed =>
                  \E k \in DOMAIN announced : announced[k].entry = e
  <2>1. Reached \subseteq Seen
    <3>1. Seen \in SUBSET Folders
      BY DEF Seen
    <3>2. QED
      BY <1>1, <3>1, SeenClosed DEF Reached
  <2>2. tree.kind[e] = "broken" =>
          tree.parent[e] \notin Reached \/ <<"open", tree.parent[e]>> \in failed
    <3>1. SUFFICES ASSUME tree.kind[e] = "broken", tree.parent[e] \in Reached,
                          <<"open", tree.parent[e]>> \notin failed
                   PROVE  FALSE
      OBVIOUS
    <3>2. Come(e)
      BY <1>1, <2>1, <3>1, SeenClosed
    <3>3. QED
      BY <1>1, <3>1, <3>2 DEF Callbacks
  <2>3. ASSUME e \in Reached, <<"size", e>> \notin failed
        PROVE  \E k \in DOMAIN announced : announced[k].entry = e
    <3>1. Come(e) /\ tree.kind[e] \in {"dir", "file"}
      BY <2>1, <2>3, FindFilesAssumption DEF Seen
    <3>2. ~Held(e)
      <4>1. ~Active(tree.parent[e])
        BY <1>1, TreeTypes DEF Queue, QueueOf, Types
      <4>2. QED
        BY <4>1 DEF Held, InHand, Active
    <3>3. QED
      BY <2>3, <3>1, <3>2 DEF Callbacks, Sent
  <2>4. QED
    BY <2>2, <2>3
<1>2. SentOnce
  BY DEF Callbacks
<1>3. QED
  BY <1>1, <1>2 DEF Complete, SentOnce

-----------------------------------------------------------------------------
(* The ids *)

\* The entries that have been given an id that is stored.
Stored == {e \in Folders : Sent(e) \/ \E d \in Folders : pc[d] = "callback" /\ item[d] = e}

Counted ==
  /\ FileId <= Cardinality(Stored)
  /\ \A d \in Folders : id[d] <= Cardinality(Stored)
                        /\ (pc[d] = "callback" => id[d] + 1 <= Cardinality(Stored))
  /\ \A k \in DOMAIN announced : announced[k].id <= Cardinality(Stored)

Numbered ==
  function = "FindFiles" =>
    /\ \A k \in DOMAIN announced : announced[k].id <= FileId
    /\ \A d \in Folders :
         /\ pc[d] = "store" => id[d] = FileId
         /\ pc[d] = "callback" =>
              /\ FileId = id[d] + 1
              /\ \A k \in DOMAIN announced : announced[k].id <= id[d]

LEMMA StoredFinite ==
  /\ IsFiniteSet(Folders) /\ Bound \in Nat
  /\ IsFiniteSet(Stored) /\ Cardinality(Stored) \in Nat /\ Cardinality(Stored) <= Bound
<1>1. IsFiniteSet(Folders)
  BY FindFilesAssumption, FS_AddElement DEF Folders
<1>2. Stored \in SUBSET Folders
  BY DEF Stored
<1>3. QED
  BY <1>1, <1>2, FS_Subset, FS_CardinalityType DEF Bound

LEMMA InitCounted == Init => Counted /\ Numbered /\ UniqueIds
<1> SUFFICES ASSUME Init PROVE Counted /\ Numbered /\ UniqueIds
  OBVIOUS
<1>1. DOMAIN announced = {} /\ FileId = 0
      /\ \A d \in Folders : id[d] = 0 /\ pc[d] = "none"
  BY DEF Init
<1>2. QED
  BY <1>1, StoredFinite DEF Counted, Numbered, UniqueIds

\* Where FileId, an id or an announcement changes.
LEMMA IdStep ==
  ASSUME Types, Items, Queue, [Next]_vars
  PROVE  \/ /\ UNCHANGED <<FileId, id, announced>>
            /\ \A d \in Folders :
                 /\ pc'[d] \in {"store", "callback"} => pc[d] = pc'[d]
                 /\ pc[d] = "callback" => pc'[d] = "callback" /\ item'[d] = item[d]
         \/ Start
         \/ \E d \in Folders : LoadFileId(d) \/ StoreFileId(d) \/ Callback(d)
<1> DEFINE Goal == \/ /\ UNCHANGED <<FileId, id, announced>>
                      /\ \A d \in Folders :
                           /\ pc'[d] \in {"store", "callback"} => pc[d] = pc'[d]
                           /\ pc[d] = "callback" => pc'[d] = "callback" /\ item'[d] = item[d]
                   \/ Start
                   \/ \E d \in Folders : LoadFileId(d) \/ StoreFileId(d) \/ Callback(d)
<1> USE DEF folderVars
<1>1. ASSUME RootFails \/ GetResult \/ RoundDone \/ Return \/ UNCHANGED vars PROVE Goal
  BY <1>1 DEF RootFails, GetResult, RoundDone, Return, vars
<1>2. ASSUME NextFolder \/ NextRound PROVE Goal
  <2>1. UNCHANGED <<FileId, id, announced>> /\ at = "loop"
    BY <1>2 DEF NextFolder, NextRound
  <2>2. \A d \in Folders : pc[d] \in {"none", "done"}
    BY <2>1 DEF Queue, QueueOf, Active
  <2>3. \A d \in Folders : pc'[d] \in {pc[d], "open"}
    BY <2>2, PcStep DEF Active, FolderDone, ThreadDone
  <2>4. QED
    BY <2>1, <2>2, <2>3
<1>3. ASSUME NEW d \in Folders, FolderDone(d) \/ ThreadDone(d) \/ Open(d) PROVE Goal
  BY <1>3 DEF LoopOver, FolderDone, ThreadDone, LoopOver, Open, Goto, Types
<1>4. ASSUME NEW d \in Folders, NEW e \in Entries, Reads(d, e) PROVE Goal
  BY <1>4 DEF Reads, AtItem, SkipBroken, SkipOther, Take, Goto, Types
<1>5. ASSUME NEW d \in Folders, Size(d) PROVE Goal
  BY <1>5 DEF Size, Goto, Types
<1> HIDE DEF Goal
<1>6. Start \/ (\E d \in Folders : LoadFileId(d) \/ StoreFileId(d) \/ Callback(d)) => Goal
  BY DEF Goal
<1>7. Goal
  BY <1>1, <1>2, <1>3, <1>4, <1>5, <1>6 DEF Next, ProcessFolder, Done, Reads
<1>8. QED
  BY <1>7 DEF Goal

\* What is stored stays so.
LEMMA StoredGrows ==
  ASSUME Types, Items, Queue, [Next]_vars
  PROVE  /\ Stored \subseteq Stored'
         /\ Cardinality(Stored) \in Nat /\ Cardinality(Stored') \in Nat
         /\ Cardinality(Stored) <= Cardinality(Stored') /\ IsFiniteSet(Stored)
<1>1. ASSUME NEW e \in Stored PROVE e \in Stored'
  <2>1. CASE Sent(e)
    BY <2>1, SentStays DEF Stored, Folders
  <2>2. ASSUME NEW d \in Folders, pc[d] = "callback", item[d] = e PROVE e \in Stored'
    <3>1. CASE Callback(d)
      <4>1. id[d] + 1 \in Nat \ {0} /\ e \in Folders
        BY <2>2 DEF Types
      <4>2. Sent(e)'
        BY <2>2, <3>1, <4>1, SentAppend DEF Callback
      <4>3. QED
        BY <4>1, <4>2 DEF Stored, Folders
    <3>2. CASE ~Callback(d)
      <4>1. pc'[d] = "callback" /\ item'[d] = item[d]
        <5>1. ASSUME NEW c \in Folders, LoadFileId(c) \/ StoreFileId(c) \/ Callback(c)
              PROVE  pc'[d] = "callback" /\ item'[d] = item[d]
          BY <2>2, <3>2, <5>1 DEF LoadFileId, StoreFileId, Callback, Goto, Types
        <5>2. CASE Start
          BY <2>2, <5>2 DEF Start, folderVars
        <5>3. QED
          BY <2>2, <5>1, <5>2, IdStep
      <4>2. QED
        BY <2>2, <4>1 DEF Stored, Folders
    <3>3. QED
      BY <3>1, <3>2
  <2>3. QED
    BY <1>1, <2>1, <2>2 DEF Stored
<1>2. IsFiniteSet(Stored) /\ Cardinality(Stored) \in Nat
  BY StoredFinite
<1>3. IsFiniteSet(Stored)' /\ (Cardinality(Stored) \in Nat)'
  <2>1. Stored' \in SUBSET Folders
    BY DEF Stored, Folders
  <2>2. QED
    BY <2>1, StoredFinite, FS_Subset, FS_CardinalityType
<1>4. QED
  BY <1>1, <1>2, <1>3, FS_Subset

LEMMA AnnouncedIds == Types => \A k \in DOMAIN announced : announced[k].id \in Nat
<1> SUFFICES ASSUME Types PROVE \A k \in DOMAIN announced : announced[k].id \in Nat
  OBVIOUS
<1>1. announced \in Seq(Announcements)
  BY DEF Types, Announcements
<1>2. announced \in [1..Len(announced) -> Announcements] /\ DOMAIN announced = 1..Len(announced)
  BY <1>1, LenProperties
<1>3. \A r \in Announcements : r.id \in Nat
  BY DEF Announcements
<1>4. QED
  BY <1>2, <1>3

LEMMA NextCounted ==
  Types /\ Items /\ Queue /\ Callbacks /\ Counted /\ [Next]_vars => Counted'
<1> SUFFICES ASSUME Types, Items, Queue, Callbacks, Counted, [Next]_vars PROVE Counted'
  OBVIOUS
<1> DEFINE n == Cardinality(Stored)
           m == Cardinality(Stored')
<1>1. n \in Nat /\ m \in Nat /\ n <= m
  BY StoredGrows
<1>2. FileId \in Nat /\ \A d \in Folders : id[d] \in Nat
  BY DEF Types
<1>3. /\ FileId <= n
      /\ \A d \in Folders : id[d] <= n /\ (pc[d] = "callback" => id[d] + 1 <= n)
      /\ \A k \in DOMAIN announced : announced[k].id <= n
  BY DEF Counted
<1>4. \A k \in DOMAIN announced : announced[k].id \in Nat
  BY AnnouncedIds
<1> HIDE DEF n, m
<1>5. SUFFICES /\ FileId' <= m
               /\ \A d \in Folders : id'[d] <= m /\ (pc'[d] = "callback" => id'[d] + 1 <= m)
               /\ \A k \in DOMAIN announced' : announced'[k].id <= m
  BY DEF Counted, m, Folders
<1>6. /\ FileId <= m /\ \A d \in Folders : id[d] <= m /\ (pc[d] = "callback" => id[d] + 1 <= m)
      /\ \A k \in DOMAIN announced : announced[k].id <= m
  BY <1>1, <1>2, <1>3, <1>4
<1>7. CASE /\ UNCHANGED <<FileId, id, announced>>
           /\ \A d \in Folders : pc'[d] \in {"store", "callback"} => pc[d] = pc'[d]
  BY <1>6, <1>7
<1>8. CASE Start
  <2>1. /\ FileId = 0 /\ announced = << >> /\ \A d \in Folders : pc[d] = "none"
        /\ pc' = pc /\ id' = id
    BY <1>8 DEF Start, Queue, Unstarted, folderVars
  <2>2. CASE announced' = announced /\ FileId' = FileId
    BY <1>6, <2>1, <2>2
  <2>3. CASE /\ FileId' = FileId + 1
             /\ announced' = Append(announced, [id |-> FileId + 1, entry |-> Root])
    <3>1. Root \in Folders /\ FileId + 1 \in Nat \ {0}
      BY <2>1 DEF Folders
    <3>2. Sent(Root)'
      BY <2>3, <3>1, SentAppend
    <3>3. Root \in Stored'
      BY <3>1, <3>2 DEF Stored, Folders
    <3>4. IsFiniteSet(Stored')
      <4>1. Stored' \in SUBSET Folders
        BY DEF Stored, Folders
      <4>2. QED
        BY <4>1, StoredFinite, FS_Subset
    <3>5. m # 0
      BY <3>3, <3>4, FS_EmptySet DEF m
    <3>6. 1 <= m
      BY <1>1, <3>5
    <3>7. DOMAIN announced' = 1..1 /\ announced'[1].id = 1
      <4>1. Len(announced) = 0
        BY <2>1
      <4>2. QED
        BY <2>1, <2>3, <3>1, <4>1, SentAppend
    <3>8. QED
      BY <1>6, <2>1, <2>3, <3>6, <3>7
  <2>4. QED
    BY <1>8, <2>2, <2>3 DEF Start
<1>9. ASSUME NEW d \in Folders, LoadFileId(d)
      PROVE  /\ FileId' <= m
             /\ \A c \in Folders : id'[c] <= m /\ (pc'[c] = "callback" => id'[c] + 1 <= m)
             /\ \A k \in DOMAIN announced' : announced'[k].id <= m
  <2>1. /\ FileId' = FileId /\ announced' = announced
        /\ id'[d] = FileId /\ pc'[d] = "store"
        /\ \A c \in Folders \ {d} : id'[c] = id[c] /\ pc'[c] = pc[c]
    BY <1>9 DEF LoadFileId, Goto, Types
  <2>2. QED
    BY <1>6, <2>1
<1>10. ASSUME NEW d \in Folders, StoreFileId(d)
       PROVE  /\ FileId' <= m
              /\ \A c \in Folders : id'[c] <= m /\ (pc'[c] = "callback" => id'[c] + 1 <= m)
              /\ \A k \in DOMAIN announced' : announced'[k].id <= m
  <2>1. /\ FileId' = id[d] + 1 /\ announced' = announced /\ id' = id /\ item' = item
        /\ pc[d] = "store" /\ pc'[d] = "callback"
        /\ \A c \in Folders \ {d} : pc'[c] = pc[c]
    BY <1>10 DEF StoreFileId, Goto, Types
  <2>2. InHand(d)
    BY <2>1 DEF InHand
  <2>3. item[d] \notin Stored
    <3>1. ~Sent(item[d])
      BY <2>2, ToSend
    <3>2. ASSUME NEW c \in Folders, pc[c] = "callback", item[c] = item[d] PROVE FALSE
      <4>1. tree.parent[item[c]] = c /\ tree.parent[item[d]] = d
        BY <2>2, <3>2, ToSend DEF InHand
      <4>2. QED
        BY <2>1, <3>2, <4>1
    <3>3. QED
      BY <3>1, <3>2 DEF Stored
  <2>4. item[d] \in Stored'
    BY <2>1 DEF Stored, Folders, Types
  <2>5. n + 1 <= m
    <3>1. Stored \cup {item[d]} \in SUBSET Stored' /\ IsFiniteSet(Stored)
      BY <2>4, StoredGrows
    <3>2. IsFiniteSet(Stored')
      <4>1. Stored' \in SUBSET Folders
        BY DEF Stored, Folders
      <4>2. QED
        BY <4>1, StoredFinite, FS_Subset
    <3>3. Cardinality(Stored \cup {item[d]}) = n + 1
      BY <2>3, <3>1, FS_AddElement DEF n
    <3>4. Cardinality(Stored \cup {item[d]}) <= m
      BY <3>1, <3>2, FS_Subset DEF m
    <3>5. QED
      BY <3>3, <3>4
  <2>6. id[d] + 1 <= m
    BY <1>1, <1>2, <1>3, <2>5
  <2>7. QED
    BY <1>6, <2>1, <2>6
<1>11. ASSUME NEW d \in Folders, Callback(d)
       PROVE  /\ FileId' <= m
              /\ \A c \in Folders : id'[c] <= m /\ (pc'[c] = "callback" => id'[c] + 1 <= m)
              /\ \A k \in DOMAIN announced' : announced'[k].id <= m
  <2>1. /\ FileId' = FileId /\ id' = id /\ pc[d] = "callback" /\ pc'[d] = "items"
        /\ announced' = Append(announced, [id |-> id[d] + 1, entry |-> item[d]])
        /\ \A c \in Folders \ {d} : pc'[c] = pc[c]
    BY <1>11 DEF Callback, Goto, Types
  <2>2. id[d] + 1 \in Nat \ {0} /\ item[d] \in Folders
    BY <1>2 DEF Types
  <2>3. \A k \in DOMAIN announced' : announced'[k].id <= m
    <3>1. /\ DOMAIN announced = 1..Len(announced) /\ Len(announced) \in Nat
          /\ DOMAIN announced' = 1..(Len(announced) + 1)
          /\ \A k \in 1..Len(announced) : announced'[k] = announced[k]
          /\ announced'[Len(announced) + 1].id = id[d] + 1
      BY <2>1, <2>2, SentAppend
    <3>2. \A k \in 1..(Len(announced) + 1) : k \in 1..Len(announced) \/ k = Len(announced) + 1
      BY <3>1
    <3>3. id[d] + 1 <= m
      BY <1>6, <2>1
    <3>4. QED
      BY <1>6, <3>1, <3>2, <3>3
  <2>4. QED
    BY <1>6, <2>1, <2>3
<1>12. QED
  BY <1>7, <1>8, <1>9, <1>10, <1>11, IdStep

LEMMA NextNumbered ==
  Types /\ Items /\ Queue /\ Numbered /\ UniqueIds /\ [Next]_vars => Numbered' /\ UniqueIds'
<1> SUFFICES ASSUME Types, Items, Queue, Numbered, UniqueIds, [Next]_vars,
                    function = "FindFiles"
             PROVE  Numbered' /\ UniqueIds'
  BY Calls DEF Numbered, UniqueIds
<1>1. /\ \A k \in DOMAIN announced : announced[k].id <= FileId
      /\ \A j, k \in DOMAIN announced : announced[j].id = announced[k].id => j = k
      /\ \A d \in Folders :
           /\ pc[d] = "store" => id[d] = FileId
           /\ pc[d] = "callback" =>
                /\ FileId = id[d] + 1
                /\ \A k \in DOMAIN announced : announced[k].id <= id[d]
  BY DEF Numbered, UniqueIds
<1>2. \A d, c \in Folders : Active(d) /\ Active(c) => d = c
  BY DEF Queue, QueueOf, Where
<1>3. FileId \in Nat /\ \A d \in Folders : id[d] \in Nat
  BY DEF Types
<1>4. \A k \in DOMAIN announced : announced[k].id \in Nat
  BY AnnouncedIds
<1> DEFINE Goal == /\ \A k \in DOMAIN announced' : announced'[k].id <= FileId'
                   /\ \A j, k \in DOMAIN announced' : announced'[j].id = announced'[k].id => j = k
                   /\ \A d \in Folders :
                        /\ pc'[d] = "store" => id'[d] = FileId'
                        /\ pc'[d] = "callback" =>
                             /\ FileId' = id'[d] + 1
                             /\ \A k \in DOMAIN announced' : announced'[k].id <= id'[d]
<1>5. SUFFICES Goal
  BY DEF Numbered, UniqueIds, Folders
<1>6. ASSUME UNCHANGED <<FileId, id, announced>>,
             \A d \in Folders : pc'[d] \in {"store", "callback"} => pc[d] = pc'[d]
      PROVE  Goal
  BY <1>1, <1>6
<1>7. ASSUME Start PROVE Goal
  <2>1. /\ FileId = 0 /\ announced = << >> /\ \A d \in Folders : pc[d] = "none"
        /\ pc' = pc /\ id' = id
    BY <1>7 DEF Start, Queue, Unstarted, folderVars
  <2>2. CASE announced' = announced /\ FileId' = FileId
    BY <2>1, <2>2
  <2>3. ASSUME FileId' = FileId + 1,
               announced' = Append(announced, [id |-> FileId + 1, entry |-> Root])
        PROVE  Goal
    <3>1. DOMAIN announced' = 1..1 /\ announced'[1].id = 1
      <4>1. Len(announced) = 0 /\ Root \in Folders /\ FileId + 1 \in Nat \ {0}
        BY <2>1 DEF Folders
      <4>2. QED
        BY <2>1, <2>3, <4>1, SentAppend
    <3>2. QED
      BY <2>1, <2>3, <3>1
  <2>4. QED
    BY <1>7, <2>2, <2>3 DEF Start
<1>8. ASSUME NEW d \in Folders, LoadFileId(d) PROVE Goal
  <2>1. /\ FileId' = FileId /\ announced' = announced
        /\ id'[d] = FileId /\ pc'[d] = "store" /\ Active(d)
        /\ \A c \in Folders \ {d} : id'[c] = id[c] /\ pc'[c] = pc[c]
    BY <1>8 DEF LoadFileId, Goto, Types, Active
  <2>2. QED
    BY <1>1, <2>1
<1>9. ASSUME NEW d \in Folders, StoreFileId(d) PROVE Goal
  <2>1. /\ FileId' = id[d] + 1 /\ announced' = announced /\ id' = id
        /\ pc[d] = "store" /\ pc'[d] = "callback"
        /\ \A c \in Folders \ {d} : pc'[c] = pc[c]
    BY <1>9 DEF StoreFileId, Goto, Types
  <2>2. \A c \in Folders \ {d} : pc[c] \notin {"store", "callback"}
    BY <1>2, <2>1 DEF Active
  <2>3. id[d] = FileId
    BY <1>1, <2>1
  <2>4. \A k \in DOMAIN announced : announced[k].id <= id[d] /\ announced[k].id <= id[d] + 1
    BY <1>1, <1>3, <1>4, <2>3
  <2>5. QED
    BY <1>1, <2>1, <2>2, <2>4
<1>10. ASSUME NEW d \in Folders, Callback(d) PROVE Goal
  <2> DEFINE m == Len(announced)
  <2>1. /\ FileId' = FileId /\ id' = id /\ pc[d] = "callback" /\ pc'[d] = "items"
        /\ announced' = Append(announced, [id |-> id[d] + 1, entry |-> item[d]])
        /\ \A c \in Folders \ {d} : pc'[c] = pc[c]
    BY <1>10 DEF Callback, Goto, Types
  <2>2. id[d] + 1 \in Nat \ {0} /\ item[d] \in Folders
    BY <1>3 DEF Types
  <2>3. /\ DOMAIN announced = 1..m /\ m \in Nat
        /\ DOMAIN announced' = 1..(m + 1)
        /\ \A k \in 1..m : announced'[k] = announced[k]
        /\ announced'[m + 1].id = id[d] + 1
    BY <2>1, <2>2, SentAppend
  <2> HIDE DEF m
  <2>4. \A k \in 1..(m + 1) : k \in 1..m \/ k = m + 1
    BY <2>3
  <2>5. \A c \in Folders : pc'[c] \notin {"store", "callback"}
    BY <1>2, <2>1 DEF Active
  <2>6. FileId' = id[d] + 1 /\ \A k \in 1..m : announced[k].id <= id[d] /\ announced[k].id \in Nat
    BY <1>1, <1>4, <2>1, <2>3
  <2>7. \A k \in 1..m : announced'[k].id # id[d] + 1 /\ announced'[k].id <= id[d] + 1
    BY <1>3, <2>3, <2>6
  <2>8. \A k \in 1..(m + 1) : announced'[k].id <= FileId'
    BY <1>3, <2>3, <2>4, <2>6, <2>7
  <2>9. \A j, k \in 1..(m + 1) : announced'[j].id = announced'[k].id => j = k
    <3>1. ASSUME NEW j \in 1..m, NEW k \in 1..m, announced'[j].id = announced'[k].id PROVE j = k
      BY <1>1, <2>3, <3>1
    <3>2. QED
      BY <2>3, <2>4, <2>7, <3>1
  <2>10. QED
    BY <2>3, <2>5, <2>8, <2>9
<1> HIDE DEF Goal
<1>11. QED
  BY <1>6, <1>7, <1>8, <1>9, <1>10, IdStep

-----------------------------------------------------------------------------
(* The theorems *)

ScanInv ==
  Types /\ Items /\ Queue /\ Covered /\ Broken /\ Callbacks /\ ParentFirst /\ Counted /\ Numbered
  /\ UniqueIds

LEMMA ScanInvAlways == Spec => []ScanInv
<1>1. Init => ScanInv
  <2>1. Init => Broken
    BY DEF Init, Broken
  <2>2. QED
    BY <2>1, InitTypes, InitItems, InitQueue, InitCallbacks, InitCounted DEF ScanInv
<1>2. ScanInv /\ [Next]_vars => ScanInv'
  <2> SUFFICES ASSUME ScanInv, [Next]_vars PROVE ScanInv'
    OBVIOUS
  <2>1. /\ Types /\ Items /\ Queue /\ Covered /\ Broken /\ Callbacks /\ ParentFirst
        /\ Counted /\ Numbered /\ UniqueIds
    BY DEF ScanInv
  <2>2. Items'
    BY <2>1, NextItems DEF Queue, QueueOf
  <2>3. Types' /\ Queue' /\ Covered' /\ Broken' /\ Callbacks' /\ ParentFirst'
    BY <2>1, NextTypes, NextQueue, NextCovered, NextBroken, NextCallbacks, NextParent
  <2>4. Counted' /\ Numbered' /\ UniqueIds'
    BY <2>1, NextCounted, NextNumbered
  <2>5. QED
    BY <2>2, <2>3, <2>4 DEF ScanInv
<1>3. QED
  BY <1>1, <1>2, PTL DEF Spec, Safety

LEMMA Typed == ScanInv => TypeOK
<1> SUFFICES ASSUME ScanInv PROVE TypeOK
  OBVIOUS
<1>1. Types /\ Counted /\ Distinct(UnexploredDirs)
  BY DEF ScanInv, Queue, Where
<1>2. Len(UnexploredDirs) <= Bound
  BY <1>1, DistinctLength DEF Types
<1>3. Bound \in Nat /\ Cardinality(Stored) \in Nat /\ Cardinality(Stored) <= Bound
  BY StoredFinite
<1>4. FileId \in 0..Bound /\ id \in [Folders -> 0..Bound]
  <2>1. FileId \in Nat /\ id \in [Folders -> Nat] /\ \A d \in Folders : id[d] \in Nat
    BY <1>1 DEF Types
  <2>2. FileId <= Bound /\ \A d \in Folders : id[d] <= Bound
    BY <1>1, <1>3, <2>1 DEF Counted
  <2>3. \A d \in Folders : id[d] \in 0..Bound
    BY <1>3, <2>1, <2>2
  <2>4. QED
    BY <1>3, <2>1, <2>2, <2>3
<1>5. announced \in Seq([id : 1..Bound, entry : Folders])
  <2>1. announced \in Seq(Announcements)
    BY <1>1 DEF Types, Announcements
  <2>2. Len(announced) \in Nat /\ announced \in [1..Len(announced) -> Announcements]
    BY <2>1, LenProperties
  <2>3. ASSUME NEW k \in 1..Len(announced)
        PROVE  announced[k] \in [id : 1..Bound, entry : Folders]
    <3>1. announced[k] \in [id : Nat \ {0}, entry : Folders]
      BY <2>2 DEF Announcements
    <3>2. announced[k].id <= Cardinality(Stored)
      BY <1>1, <2>2 DEF Counted
    <3>3. announced[k].id \in 1..Bound
      BY <1>3, <3>1, <3>2
    <3>4. QED
      BY <3>1, <3>3
  <2>4. announced \in [1..Len(announced) -> [id : 1..Bound, entry : Folders]]
    BY <2>2, <2>3
  <2>5. QED
    BY <2>2, <2>4, SeqDef
<1>6. QED
  BY <1>1, <1>2, <1>4, <1>5 DEF Types, TypeOK

(* The types of the scan, and that no more ids are given than there are    *)
(* entries, whatever the threads of a round do to the counter.             *)
THEOREM TypeCorrect == Spec => []TypeOK
BY ScanInvAlways, Typed, PTL

(* DirItemToFileInfo's ++FileId: one id for each entry in FindFiles, which *)
(* has one call of ProcessFolder at a time.                                *)
THEOREM IdsUnique == Spec => []UniqueIds
<1>1. ScanInv => UniqueIds
  BY DEF ScanInv
<1>2. QED
  BY <1>1, ScanInvAlways, PTL

(* A folder is announced before what is in it, by both functions.          *)
THEOREM FoldersFirst == Spec => []ParentFirst
<1>1. ScanInv => ParentFirst
  BY DEF ScanInv
<1>2. QED
  BY <1>1, ScanInvAlways, PTL

(* A scan that returns true has come to all that can be reached, announced *)
(* it once, and met nothing broken: by both functions.                     *)
THEOREM NothingMissed == Spec => []Complete
<1>1. ScanInv => Complete
  BY Completed DEF ScanInv
<1>2. QED
  BY <1>1, ScanInvAlways, PTL
=============================================================================
