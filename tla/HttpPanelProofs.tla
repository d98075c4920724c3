--------------------------- MODULE HttpPanelProofs ---------------------------
(***************************************************************************)
(* Proofs about the HTTP panel.  The editor first, for any requests and    *)
(* collections, any number of changes, tree operations and saves under     *)
(* way, and any calls that fail; then the responses, for any number of     *)
(* requests, answers and saves: what the viewer says is true, and no file  *)
(* of a response is forgotten.                                             *)
(***************************************************************************)
EXTENDS HttpPanel, SequenceTheorems, TLAPS

NoPlace == Places \cup {None}
Entry == [place : NoPlace, text : Vers]
TaskCall == [op : {"load", "move", "delete", "drop", "add"}, req : Requests \cup {None},
             from : NoPlace, to : NoPlace]
SaveCall == [req : Requests, to : NoPlace, text : Vers, at : {"sent", "stored", "refused"},
             stale : BOOLEAN]

BackendType ==
    /\ cols \in SUBSET Cols
    /\ place \in [Requests -> NoPlace]
    /\ disk \in [Requests -> Vers]
TreeType ==
    /\ loaded \in BOOLEAN /\ shown \in SUBSET Cols
    /\ tree \in [Requests -> Entry]
    /\ queue \in Seq(TaskCall)
    /\ step \in {"idle", "call", "cols", "roots", "layout"}
    /\ colsRead \in [cols : SUBSET Cols, tree : [Requests -> Entry]]
    /\ rootsRead \in [Requests -> Entry]
FieldsType ==
    /\ open \in Requests \cup {None} /\ col \in NoPlace
    /\ text \in Vers /\ timer \in BOOLEAN
    /\ saves \in Seq(SaveCall) /\ saveError \in BOOLEAN
    /\ remembered \in {None} \cup [req : Requests, place : Places]
HistoryType ==
    /\ typed \in [Requests -> Vers] /\ said \in SUBSET Requests
    /\ raced \in BOOLEAN /\ left \in BOOLEAN /\ faults \in Nat
EditorType == BackendType /\ TreeType /\ FieldsType /\ HistoryType /\ asked \in Nat

Reading == step \in {"cols", "roots", "layout"}

\* The answers loadTree has got are still true of places, which move in no
\* other step of a task than its call.
ReadsTrue ==
    /\ step # "idle" => queue # <<>>
    /\ step \in {"roots", "layout"} =>
          \A r \in Requests : colsRead.tree[r].place = IF place[r] \in Cols THEN place[r] ELSE None
    /\ step = "layout" =>
          \A r \in Requests : rootsRead[r].place = IF place[r] = Root THEN Root ELSE None

\* The request that is open lies where the tree shows it, and none is open
\* before the tree is loaded, once.
OpenTrue ==
    /\ open = None <=> col = None
    /\ open # None => col = tree[open].place
    /\ ~loaded => \A r \in Requests : tree[r].place = None
    /\ \A i \in DOMAIN queue : queue[i].op = "load" => i = 1 /\ ~loaded

\* A save whose refusal the user will be told of; the last save of a request,
\* still on its way; no save on its way.
TellsOf(ss, r) == \E i \in DOMAIN ss : ss[i].req = r /\ ss[i].at = "refused" /\ ~ss[i].stale
LastSent(ss, r, v) ==
    \E i \in DOMAIN ss :
        /\ ss[i].req = r /\ ss[i].at = "sent" /\ ss[i].text = v /\ ~ss[i].stale
        /\ \A j \in DOMAIN ss : ss[j].req = r => j <= i
NoneSent(ss, r) == \A i \in DOMAIN ss : ss[i].req = r => ss[i].at # "sent"

\* What is in the fields is stored, or is on its way, or the user is told.
Secured ==
    open # None =>
        \/ timer \/ raced \/ open \in said
        \/ TellsOf(saves, open)
        \/ LastSent(saves, open, text)
        \/ disk[open] = text /\ NoneSent(saves, open)

\* Unless something failed or another request was opened: the tree is right
\* while no task reads it, every save whose answer is awaited is one of the
\* open request to where the editor has it, and an error that is shown will be
\* taken back by a later save, or by the task that has moved the request.
TreeTrue == loaded /\ ~Reading => \A r \in Requests : tree[r].place = place[r]
SavesOf(ss, r, p) == \A i \in DOMAIN ss : ~ss[i].stale => r # None /\ ss[i].req = r /\ ss[i].to = p
RefusalsStale(ss) == \A i \in DOMAIN ss : ss[i].at = "refused" => ss[i].stale
Awaited(ss) == \E i \in DOMAIN ss : ~ss[i].stale
ErrorTrue ==
    /\ open = None => ~saveError
    /\ open # None /\ place[open] = col => RefusalsStale(saves) /\ (saveError => Awaited(saves))
Calm == faults = 0 /\ ~left => TreeTrue /\ SavesOf(saves, open, col) /\ ErrorTrue

EditorInv == EditorType /\ ReadsTrue /\ OpenTrue /\ Secured /\ Calm
----------------------------------------------------------------------------
\* A sequence with an element taken out.
LEMMA RemoveAtKeeps ==
  ASSUME NEW S, NEW s \in Seq(S), NEW k \in 1..Len(s)
  PROVE  /\ RemoveAt(s, k) \in Seq(S)
         /\ DOMAIN RemoveAt(s, k) = 1..(Len(s) - 1)
         /\ \A i \in 1..(Len(s) - 1) : RemoveAt(s, k)[i] = IF i < k THEN s[i] ELSE s[i + 1]
<1> DEFINE n == Len(s)
           before == SubSeq(s, 1, k - 1)
           after == SubSeq(s, k + 1, n)
<1>1. n \in Nat /\ k \in 1..n /\ \A i \in 1..n : s[i] \in S
  BY LenProperties, ElementOfSeq
<1>2. RemoveAt(s, k) = before \o after
  BY DEF RemoveAt
<1>3. before \in Seq(S) /\ Len(before) = k - 1 /\ \A i \in 1..(k - 1) : before[i] = s[i]
  BY <1>1, SubSeqProperties
<1>4. after \in Seq(S) /\ Len(after) = n - k /\ \A i \in 1..(n - k) : after[i] = s[k + i]
  <2> HIDE DEF n
  <2>1. k + 1 \in Int /\ n \in Int /\ \A i \in (k + 1)..n : s[i] \in S
    BY <1>1
  <2>2. /\ SubSeq(s, k + 1, n) \in Seq(S)
        /\ Len(SubSeq(s, k + 1, n)) = IF k + 1 <= n THEN n - (k + 1) + 1 ELSE 0
        /\ \A i \in 1..(n - (k + 1) + 1) : SubSeq(s, k + 1, n)[i] = s[(k + 1) + i - 1]
    BY <2>1, SubSeqProperties
  <2>3. n - (k + 1) + 1 = n - k
    BY <1>1
  <2>4. k + 1 <= n \/ n - k = 0
    BY <1>1
  <2>5. ASSUME NEW i \in 1..(n - k) PROVE after[i] = s[k + i]
    <3>1. (k + 1) + i - 1 = k + i
      BY <1>1
    <3>2. QED
      BY <2>2, <2>3, <3>1, Zenon
  <2>6. QED
    BY <2>2, <2>3, <2>4, <2>5, Zenon
<1> HIDE DEF n, before, after
<1>5. /\ before \o after \in Seq(S)
      /\ Len(before \o after) = Len(before) + Len(after)
      /\ \A i \in 1..(Len(before) + Len(after)) :
            (before \o after)[i] = IF i <= Len(before) THEN before[i] ELSE after[i - Len(before)]
  BY <1>3, <1>4, ConcatProperties
<1>6. (k - 1) + (n - k) = n - 1
  BY <1>1
<1>7. ASSUME NEW i \in 1..(n - 1)
      PROVE  RemoveAt(s, k)[i] = IF i < k THEN s[i] ELSE s[i + 1]
  <2>1. CASE i < k
    BY <1>1, <1>2, <1>3, <1>4, <1>5, <2>1
  <2>2. CASE ~(i < k)
    <3>1. i - (k - 1) \in 1..(n - k) /\ k + (i - (k - 1)) = i + 1
      BY <1>1, <2>2
    <3>2. RemoveAt(s, k)[i] = after[i - (k - 1)]
      BY <1>1, <1>2, <1>3, <1>4, <1>5, <2>2
    <3>3. QED
      BY <1>4, <2>2, <3>1, <3>2
  <2>3. QED
    BY <2>1, <2>2
<1>8. RemoveAt(s, k) \in Seq(S) /\ DOMAIN RemoveAt(s, k) = 1..(n - 1)
  BY <1>2, <1>3, <1>4, <1>5, <1>6, LenProperties
<1>9. QED
  BY <1>7, <1>8 DEF n

\* A sequence with an element put at its end.
LEMMA AppendKeeps ==
  ASSUME NEW S, NEW s \in Seq(S), NEW e \in S
  PROVE  /\ Len(s) \in Nat /\ DOMAIN s = 1..Len(s)
         /\ Append(s, e) \in Seq(S)
         /\ DOMAIN Append(s, e) = 1..(Len(s) + 1)
         /\ \A i \in 1..Len(s) : Append(s, e)[i] = s[i]
         /\ Append(s, e)[Len(s) + 1] = e
BY AppendProperties, LenProperties

\* What the constants say of the identifiers.
LEMMA Apart == None \notin Places /\ None \notin Requests /\ Root \notin Cols
BY EditorAssumption

LEMMA VersNat == MaxVer \in Nat /\ 0 \in Vers
BY EditorAssumption DEF Vers

LEMMA EmptyTypes == EmptyTree \in [Requests -> Entry]
                    /\ NothingRead \in [cols : SUBSET Cols, tree : [Requests -> Entry]]
BY VersNat DEF EmptyTree, NothingRead, Absent, Entry, NoPlace

\* What is read of requests are requests.
LEMMA SeenType ==
  ASSUME BackendType, NEW places
  PROVE  SeenIn(places) \in [Requests -> Entry]
<1>1. \A r \in Requests : [place |-> place[r], text |-> disk[r]] \in Entry
  BY DEF BackendType, Entry
<1>2. Absent \in Entry
  BY VersNat DEF Absent, Entry, NoPlace
<1>3. QED
  BY <1>1, <1>2 DEF SeenIn

\* A save is sent for the open request only.
LEMMA SaveType ==
  ASSUME NEW r \in Requests, NEW p \in NoPlace, NEW v \in Vers
  PROVE  /\ SaveOf(r, p, v) \in SaveCall
         /\ SaveOf(r, p, v).req = r /\ SaveOf(r, p, v).to = p /\ SaveOf(r, p, v).text = v
         /\ SaveOf(r, p, v).at = "sent" /\ ~SaveOf(r, p, v).stale
BY DEF SaveOf, SaveCall

\* The saves under way.
LEMMA SavesKnown ==
  ASSUME FieldsType
  PROVE  /\ saves \in Seq(SaveCall) /\ Len(saves) \in Nat /\ DOMAIN saves = 1..Len(saves)
         /\ \A i \in DOMAIN saves : saves[i] \in SaveCall
BY LenProperties, ElementOfSeq DEF FieldsType

\* A save that joins the others is the last.
LEMMA SaveJoins ==
  ASSUME NEW ss \in Seq(SaveCall), NEW s \in SaveCall, s.at = "sent", ~s.stale
  PROVE  /\ Append(ss, s) \in Seq(SaveCall)
         /\ LastSent(Append(ss, s), s.req, s.text)
         /\ \A r : TellsOf(ss, r) => TellsOf(Append(ss, s), r)
         /\ RefusalsStale(ss) => RefusalsStale(Append(ss, s))
         /\ Awaited(Append(ss, s))
         /\ SavesOf(ss, s.req, s.to) /\ s.req # None => SavesOf(Append(ss, s), s.req, s.to)
<1> DEFINE n == Len(ss)
           tt == Append(ss, s)
<1>1. /\ n \in Nat /\ DOMAIN ss = 1..n
      /\ tt \in Seq(SaveCall) /\ DOMAIN tt = 1..(n + 1)
      /\ \A i \in 1..n : tt[i] = ss[i]
      /\ tt[n + 1] = s
  BY AppendKeeps
<1> HIDE DEF n, tt
<1>2. n + 1 \in DOMAIN tt /\ (\A j \in DOMAIN tt : j <= n + 1) /\ DOMAIN ss \subseteq DOMAIN tt
  BY <1>1
<1>3. \A j \in DOMAIN tt : (j \in DOMAIN ss /\ tt[j] = ss[j]) \/ tt[j] = s
  BY <1>1
<1>4. LastSent(tt, s.req, s.text)
  BY <1>1, <1>2 DEF LastSent
<1>5. ASSUME NEW r, TellsOf(ss, r) PROVE TellsOf(tt, r)
  BY <1>1, <1>2, <1>5 DEF TellsOf
<1>6. RefusalsStale(ss) => RefusalsStale(tt)
  BY <1>3 DEF RefusalsStale
<1>7. Awaited(tt)
  BY <1>1, <1>2 DEF Awaited
<1>8. SavesOf(ss, s.req, s.to) /\ s.req # None => SavesOf(tt, s.req, s.to)
  BY <1>3 DEF SavesOf
<1>9. QED
  BY <1>1, <1>4, <1>5, <1>6, <1>7, <1>8 DEF tt

\* saveTarget++: nobody waits for the saves that were sent.
LEMMA SavesStale ==
  ASSUME NEW ss \in Seq(SaveCall)
  PROVE  /\ Stale(ss) \in Seq(SaveCall)
         /\ RefusalsStale(Stale(ss))
         /\ \A r, p : SavesOf(Stale(ss), r, p)
<1> DEFINE n == Len(ss)
<1>1. n \in Nat /\ DOMAIN ss = 1..n /\ \A i \in 1..n : ss[i] \in SaveCall
  BY LenProperties, ElementOfSeq
<1>2. \A i \in 1..n : [ss[i] EXCEPT !.stale = TRUE] \in SaveCall /\ [ss[i] EXCEPT !.stale = TRUE].stale
  BY <1>1 DEF SaveCall
<1>3. Stale(ss) = [i \in 1..n |-> [ss[i] EXCEPT !.stale = TRUE]]
  BY <1>1 DEF Stale
<1> HIDE DEF n
<1>4. Stale(ss) \in [1..n -> SaveCall]
  BY <1>2, <1>3
<1>5. Stale(ss) \in Seq(SaveCall)
  BY <1>1, <1>4, SeqDef
<1>6. \A i \in DOMAIN Stale(ss) : Stale(ss)[i].stale
  BY <1>2, <1>3
<1>7. QED
  BY <1>5, <1>6 DEF RefusalsStale, SavesOf

\* saveCurrentRequest.
LEMMA CurrentSaved ==
  ASSUME FieldsType, open = None <=> col = None
  PROVE  /\ SaveCurrent(saves) \in Seq(SaveCall)
         /\ open = None => SaveCurrent(saves) = saves
         /\ open # None => /\ LastSent(SaveCurrent(saves), open, text)
                           /\ RefusalsStale(saves) => RefusalsStale(SaveCurrent(saves))
                           /\ Awaited(SaveCurrent(saves))
                           /\ SavesOf(saves, open, col) => SavesOf(SaveCurrent(saves), open, col)
<1>1. CASE open = None
  BY <1>1 DEF SaveCurrent, FieldsType
<1>2. CASE open # None
  <2> DEFINE s == SaveOf(open, col, text)
  <2>1. s \in SaveCall /\ s.req = open /\ s.to = col /\ s.text = text /\ s.at = "sent" /\ ~s.stale
    BY <1>2, SaveType DEF FieldsType
  <2>2. SaveCurrent(saves) = Append(saves, s) /\ saves \in Seq(SaveCall)
    BY <1>2 DEF SaveCurrent, FieldsType
  <2> HIDE DEF s
  <2>3. QED
    BY <1>2, <2>1, <2>2, SaveJoins
<1>3. QED
  BY <1>1, <1>2

\* The backend has met one of the saves.
LEMMA SaveMoves ==
  ASSUME FieldsType, NEW i \in DOMAIN saves, NEW to \in {"stored", "refused"},
         saves' = [saves EXCEPT ![i].at = to]
  PROVE  /\ saves' \in Seq(SaveCall) /\ saves'[i] \in SaveCall
         /\ DOMAIN saves' = DOMAIN saves
         /\ saves'[i].at = to /\ saves'[i].req = saves[i].req /\ saves'[i].to = saves[i].to
         /\ saves'[i].text = saves[i].text /\ saves'[i].stale = saves[i].stale
         /\ \A j \in DOMAIN saves : j # i => saves'[j] = saves[j]
<1>1. /\ saves \in Seq(SaveCall) /\ DOMAIN saves = 1..Len(saves) /\ saves[i] \in SaveCall
  BY SavesKnown
<1>2. [saves[i] EXCEPT !.at = to] \in SaveCall
  BY <1>1 DEF SaveCall
<1>3. saves' = [saves EXCEPT ![i] = [saves[i] EXCEPT !.at = to]]
  OBVIOUS
<1>4. saves' \in Seq(SaveCall)
  BY <1>1, <1>2, <1>3, ExceptSeq
<1>5. DOMAIN saves' = DOMAIN saves /\ saves'[i] = [saves[i] EXCEPT !.at = to]
      /\ \A j \in DOMAIN saves : j # i => saves'[j] = saves[j]
  BY <1>1, <1>3
<1>6. QED
  BY <1>1, <1>2, <1>4, <1>5 DEF SaveCall

\* One of the saves has been answered.
LEMMA SaveLeaves ==
  ASSUME FieldsType, NEW i \in DOMAIN saves, saves' = RemoveAt(saves, i)
  PROVE  /\ saves' \in Seq(SaveCall)
         /\ \A j \in DOMAIN saves' : \E m \in DOMAIN saves : saves'[j] = saves[m]
         /\ \A m \in DOMAIN saves : m # i =>
               \E j \in DOMAIN saves' :
                  /\ saves'[j] = saves[m]
                  /\ \A k \in DOMAIN saves' : \E o \in DOMAIN saves :
                        saves'[k] = saves[o] /\ (o <= m => k <= j)
<1> DEFINE n == Len(saves)
           from(j) == IF j < i THEN j ELSE j + 1
           to(m) == IF m < i THEN m ELSE m - 1
<1>1. saves \in Seq(SaveCall) /\ n \in Nat /\ DOMAIN saves = 1..n /\ i \in 1..n
  BY SavesKnown
<1>2. /\ saves' \in Seq(SaveCall)
      /\ DOMAIN saves' = 1..(n - 1)
      /\ \A j \in 1..(n - 1) : saves'[j] = saves[from(j)]
  BY <1>1, RemoveAtKeeps
<1>3. \A j \in 1..(n - 1) : from(j) \in 1..n
  BY <1>1
<1>4. \A m \in 1..n : m # i => /\ to(m) \in 1..(n - 1) /\ from(to(m)) = m
                              /\ \A k \in 1..(n - 1) : from(k) <= m => k <= to(m)
  BY <1>1
<1> HIDE DEF n, from, to
<1>5. \A j \in DOMAIN saves' : \E m \in DOMAIN saves : saves'[j] = saves[m]
  BY <1>1, <1>2, <1>3
<1>6. ASSUME NEW m \in DOMAIN saves, m # i
      PROVE  \E j \in DOMAIN saves' :
                /\ saves'[j] = saves[m]
                /\ \A k \in DOMAIN saves' : \E o \in DOMAIN saves :
                      saves'[k] = saves[o] /\ (o <= m => k <= j)
  <2>1. to(m) \in DOMAIN saves' /\ saves'[to(m)] = saves[m]
    BY <1>1, <1>2, <1>4, <1>6
  <2>2. \A k \in DOMAIN saves' : from(k) \in DOMAIN saves /\ saves'[k] = saves[from(k)]
                                 /\ (from(k) <= m => k <= to(m))
    BY <1>1, <1>2, <1>3, <1>4, <1>6
  <2>3. QED
    BY <2>1, <2>2
<1>7. QED
  BY <1>2, <1>5, <1>6
----------------------------------------------------------------------------
\* A save on its way stays the last when another is answered.
LEMMA SentStays ==
  ASSUME FieldsType, NEW i \in DOMAIN saves, saves' = RemoveAt(saves, i), saves[i].at # "sent",
         NEW r, NEW v, LastSent(saves, r, v)
  PROVE  LastSent(saves', r, v)
<1>1. PICK m \in DOMAIN saves :
         /\ saves[m].req = r /\ saves[m].at = "sent" /\ saves[m].text = v /\ ~saves[m].stale
         /\ \A j \in DOMAIN saves : saves[j].req = r => j <= m
  BY DEF LastSent
<1>2. PICK j \in DOMAIN saves' :
         /\ saves'[j] = saves[m]
         /\ \A k \in DOMAIN saves' : \E o \in DOMAIN saves :
               saves'[k] = saves[o] /\ (o <= m => k <= j)
  BY <1>1, SaveLeaves
<1>3. \A k \in DOMAIN saves' : saves'[k].req = r => k <= j
  BY <1>1, <1>2
<1>4. QED
  BY <1>1, <1>2, <1>3 DEF LastSent

\* The steps of the editor that others take a part in keep its types.
LEMMA LoadType ==
  ASSUME FieldsType, open = None <=> col = None,
         NEW r \in Requests, NEW p \in Places, NEW v \in Vers, Load(r, p, v)
  PROVE  FieldsType'
<1>1. saves' \in Seq(SaveCall)
  BY CurrentSaved DEF Load
<1>2. [req |-> r, place |-> p] \in [req : Requests, place : Places]
  OBVIOUS
<1>3. timer' \in BOOLEAN
  BY DEF Load, FieldsType
<1>4. QED
  BY <1>1, <1>2, <1>3 DEF FieldsType, Load, Remember, NoPlace

LEMMA CloseType == ASSUME FieldsType, Close PROVE FieldsType'
<1>1. saves' \in Seq(SaveCall)
  BY SavesStale DEF Close, FieldsType
<1>2. QED
  BY <1>1, VersNat DEF FieldsType, Close, Forget, NoPlace

LEMMA RelocateType ==
  ASSUME FieldsType, open # None, NEW p \in Places, Relocate(p)
  PROVE  /\ FieldsType'
         /\ LastSent(saves', open, text) /\ RefusalsStale(saves') /\ Awaited(saves')
         /\ SavesOf(saves', open, p)
<1> DEFINE s == SaveOf(open, p, text)
           ss == Stale(saves)
<1>1. open \in Requests /\ p \in NoPlace /\ text \in Vers /\ open # None
  BY DEF FieldsType, NoPlace
<1>2. s \in SaveCall /\ s.req = open /\ s.to = p /\ s.text = text /\ s.at = "sent" /\ ~s.stale
  BY <1>1, SaveType
<1>3. ss \in Seq(SaveCall) /\ RefusalsStale(ss) /\ SavesOf(ss, open, p)
  BY SavesStale DEF FieldsType
<1>4. saves' = Append(ss, s)
  BY DEF Relocate
<1> HIDE DEF s, ss
<1>5. /\ saves' \in Seq(SaveCall) /\ LastSent(saves', open, text)
      /\ RefusalsStale(saves') /\ Awaited(saves') /\ SavesOf(saves', open, p)
  BY <1>1, <1>2, <1>3, <1>4, SaveJoins
<1>6. [req |-> open, place |-> p] \in [req : Requests, place : Places]
  BY <1>1
<1>7. FieldsType'
  BY <1>1, <1>5, <1>6 DEF FieldsType, Relocate, Remember
<1>8. QED
  BY <1>5, <1>7

\* The tree that loadTree puts in place is that of the moment, as far as
\* places go: the editor has moved with it, or closed what is gone.
LEMMA LayoutRead ==
  ASSUME EditorType, ReadsTrue, OpenTrue, ReadLayout
  PROVE  /\ tree' \in [Requests -> Entry]
         /\ \A r \in Requests : tree'[r].place = place[r]
         /\ loaded' = TRUE /\ step' = "idle" /\ queue # <<>> /\ queue' = Tail(queue)
         /\ \/ UNCHANGED editorVars /\ (open # None => place[open] = col)
            \/ open # None /\ place[open] = None /\ Close
            \/ open # None /\ place[open] \in Places /\ place[open] # col /\ Relocate(place[open])
            \/ /\ open = None
               /\ \E r \in Requests, p \in Places, v \in Vers : place[r] = p /\ Load(r, p, v)
<1> DEFINE t == Joined(colsRead.tree, rootsRead)
<1>1. /\ colsRead.tree \in [Requests -> Entry] /\ rootsRead \in [Requests -> Entry]
      /\ place \in [Requests -> NoPlace]
  BY DEF EditorType, TreeType, BackendType
<1>2. \A r \in Requests :
         /\ colsRead.tree[r].place = IF place[r] \in Cols THEN place[r] ELSE None
         /\ rootsRead[r].place = IF place[r] = Root THEN Root ELSE None
  BY DEF ReadLayout, ReadsTrue
<1>3. t \in [Requests -> Entry]
  BY <1>1 DEF Joined
<1>4. ASSUME NEW r \in Requests PROVE t[r].place = place[r]
  <2>1. place[r] \in Cols \/ place[r] = Root \/ place[r] = None
    BY <1>1 DEF NoPlace, Places
  <2>2. t[r] = IF rootsRead[r].place = Root THEN rootsRead[r] ELSE colsRead.tree[r]
    BY DEF Joined
  <2>3. None # Root
    BY Apart DEF Places
  <2>4. QED
    BY <1>2, <2>1, <2>2, <2>3, Apart
<1>5. tree' = t /\ loaded' = TRUE /\ step' = "idle" /\ queue # <<>> /\ queue' = Tail(queue)
  BY DEF ReadLayout, EndTask, ReadsTrue
<1>6. IF Head(queue).op = "load" THEN Restore(t) ELSE Track(t)
  BY DEF ReadLayout
<1> HIDE DEF t
<1>7. open \in Requests \cup {None} /\ (open = None <=> col = None)
  BY DEF EditorType, FieldsType, OpenTrue
<1>8. CASE Head(queue).op = "load"
  <2>1. queue[1].op = "load" /\ 1 \in DOMAIN queue
    <3>1. queue \in Seq(TaskCall)
      BY DEF EditorType, TreeType
    <3>2. Len(queue) \in Nat \ {0} /\ DOMAIN queue = 1..Len(queue)
      BY <1>5, <3>1, EmptySeq, LenProperties
    <3>3. QED
      BY <1>8, <3>2
  <2>2. open = None
    <3>1. ~loaded
      BY <2>1 DEF OpenTrue
    <3>2. open # None => tree[open].place = None
      BY <1>7, <3>1 DEF OpenTrue
    <3>3. QED
      BY <1>7, <3>2 DEF OpenTrue
  <2>3. Restore(t)
    BY <1>6, <1>8
  <2>4. CASE remembered # None /\ Location(t, remembered.req) = remembered.place
    <3>1. remembered \in [req : Requests, place : Places]
      BY <2>4 DEF EditorType, FieldsType
    <3>2. remembered.req \in Requests /\ remembered.place \in Places
      BY <3>1
    <3>3. t[remembered.req].text \in Vers
      BY <1>3, <3>2 DEF Entry
    <3>4. place[remembered.req] = remembered.place
      BY <1>4, <2>4, <3>2 DEF Location
    <3>5. Load(remembered.req, remembered.place, t[remembered.req].text)
      BY <2>2, <2>3, <2>4 DEF Restore
    <3>6. QED
      BY <1>3, <1>4, <1>5, <2>2, <3>2, <3>3, <3>4, <3>5
  <2>5. CASE ~(remembered # None /\ Location(t, remembered.req) = remembered.place)
    <3>1. UNCHANGED editorVars
      BY <2>3, <2>5 DEF Restore
    <3>2. QED
      BY <1>3, <1>4, <1>5, <2>2, <3>1
  <2>6. QED
    BY <2>4, <2>5
<1>9. CASE Head(queue).op # "load"
  <2>1. Track(t)
    BY <1>6, <1>9
  <2>2. CASE open = None
    <3>1. UNCHANGED editorVars
      BY <1>7, <2>1, <2>2 DEF Track
    <3>2. QED
      BY <1>3, <1>4, <1>5, <2>2, <3>1
  <2>3. CASE open # None
    <3>1. Location(t, open) = place[open] /\ place[open] \in NoPlace
      BY <1>1, <1>4, <1>7, <2>3 DEF Location
    <3>2. \/ place[open] = col /\ UNCHANGED editorVars
          \/ place[open] = None /\ Close
          \/ place[open] \notin {None, col} /\ Relocate(place[open])
      BY <2>1, <2>3, <3>1 DEF Track
    <3>3. QED
      BY <1>3, <1>4, <1>5, <2>3, <3>1, <3>2 DEF NoPlace
  <2>4. QED
    BY <2>2, <2>3
<1>10. QED
  BY <1>8, <1>9
----------------------------------------------------------------------------
\* At the start nothing is open and nothing is under way but the load.
LEMMA EditorInit == Init => EditorInv
<1> SUFFICES ASSUME Init PROVE EditorInv
  OBVIOUS
<1>1. BackendType /\ HistoryType /\ asked \in Nat
  BY VersNat DEF Init, BackendType, HistoryType, NoPlace
<1>2. queue = <<LoadTask>> /\ LoadTask \in TaskCall /\ LoadTask.op = "load"
  BY DEF Init, LoadTask, Task, TaskCall, NoPlace
<1>3. queue \in Seq(TaskCall) /\ \A i \in DOMAIN queue : i = 1
  BY <1>2
<1>4. TreeType
  BY <1>3, EmptyTypes DEF Init, TreeType
<1>5. saves \in Seq(SaveCall)
  BY EmptySeq DEF Init
<1>6. FieldsType
  BY <1>5, VersNat DEF Init, FieldsType, NoPlace
<1>7. ReadsTrue
  BY <1>2 DEF Init, ReadsTrue
<1>8. OpenTrue
  BY <1>3 DEF Init, OpenTrue, EmptyTree, Absent
<1>9. Secured
  BY DEF Init, Secured
<1>10. Calm
  BY Apart DEF Init, Calm, TreeTrue, SavesOf, ErrorTrue
<1>11. QED
  BY <1>1, <1>4, <1>6, <1>7, <1>8, <1>9, <1>10 DEF EditorInv, EditorType

\* A task that joins the queue is the last, and one that ends leaves it.
LEMMA TaskJoins ==
  ASSUME TreeType, NEW t \in TaskCall, t.op # "load", queue' = Append(queue, t)
  PROVE  /\ queue' \in Seq(TaskCall) /\ queue' # <<>>
         /\ (\A i \in DOMAIN queue : queue[i].op = "load" => i = 1 /\ ~loaded)
               => \A i \in DOMAIN queue' : queue'[i].op = "load" => i = 1 /\ ~loaded
<1>1. queue \in Seq(TaskCall)
  BY DEF TreeType
<1>2. /\ Len(queue) \in Nat /\ DOMAIN queue = 1..Len(queue)
      /\ queue' \in Seq(TaskCall) /\ DOMAIN queue' = 1..(Len(queue) + 1)
      /\ \A i \in 1..Len(queue) : queue'[i] = queue[i]
      /\ queue'[Len(queue) + 1] = t
  BY <1>1, AppendKeeps
<1>3. \A i \in DOMAIN queue' : i \in DOMAIN queue \/ i = Len(queue) + 1
  BY <1>2
<1>4. queue' # <<>>
  <2>1. Len(queue') = Len(queue) + 1
    BY <1>1, AppendProperties
  <2>2. QED
    BY <1>2, <2>1, EmptySeq
<1>5. QED
  BY <1>2, <1>3, <1>4

LEMMA TaskEnds ==
  ASSUME TreeType, queue # <<>>, queue' = Tail(queue)
  PROVE  /\ queue' \in Seq(TaskCall)
         /\ (\A i \in DOMAIN queue : queue[i].op = "load" => i = 1)
               => \A i \in DOMAIN queue' : queue'[i].op # "load"
<1>1. queue \in Seq(TaskCall) /\ Len(queue) \in Nat /\ DOMAIN queue = 1..Len(queue)
  BY LenProperties DEF TreeType
<1>2. /\ queue' \in Seq(TaskCall) /\ Len(queue') = Len(queue) - 1
      /\ DOMAIN queue' = 1..(Len(queue) - 1)
      /\ \A i \in 1..(Len(queue) - 1) : queue'[i] = queue[i + 1]
  BY <1>1, HeadTailProperties, LenProperties
<1>3. \A i \in 1..(Len(queue) - 1) : i + 1 \in 1..Len(queue) /\ i + 1 # 1
  BY <1>1
<1>4. QED
  BY <1>1, <1>2, <1>3

\* The tasks that are asked for.
LEMMA TasksKnown ==
  ASSUME TreeType
  PROVE  /\ \A r \in Handled, p \in Places : MoveTask(r, p) \in TaskCall /\ MoveTask(r, p).op # "load"
         /\ \A r \in Handled : DeleteTask(r) \in TaskCall /\ DeleteTask(r).op # "load"
         /\ \A c \in Cols : DropTask(c) \in TaskCall /\ DropTask(c).op # "load"
         /\ \A p \in Places : AddTask(p) \in TaskCall /\ AddTask(p).op # "load"
<1>1. \A r \in Handled : r \in Requests /\ tree[r].place \in NoPlace
  BY EditorAssumption DEF TreeType, Entry
<1>2. QED
  BY <1>1 DEF MoveTask, DeleteTask, DropTask, AddTask, Task, TaskCall, NoPlace, Places
----------------------------------------------------------------------------
\* Every step keeps the types.
LEMMA EditorTypeStep == EditorType /\ ReadsTrue /\ OpenTrue /\ [Next]_vars => EditorType'
<1> SUFFICES ASSUME EditorType, ReadsTrue, OpenTrue, [Next]_vars PROVE EditorType'
  OBVIOUS
<1>a. BackendType /\ TreeType /\ FieldsType /\ HistoryType /\ asked \in Nat /\ (open = None <=> col = None)
  BY DEF EditorType, OpenTrue
<1>b. /\ UNCHANGED backendVars => BackendType'
      /\ UNCHANGED treeVars => TreeType'
  BY <1>a DEF backendVars, BackendType, treeVars, TreeType
<1>c. /\ UNCHANGED editorVars => FieldsType'
      /\ UNCHANGED history => HistoryType'
      /\ UNCHANGED asked => asked' \in Nat
  BY <1>a DEF editorVars, FieldsType, history, HistoryType
<1>d. \A t \in TaskCall : t.op # "load" /\ Ask(t) => EditorType'
  <2> SUFFICES ASSUME NEW t \in TaskCall, t.op # "load", Ask(t) PROVE EditorType'
    OBVIOUS
  <2>1. queue' \in Seq(TaskCall)
    BY <1>a, TaskJoins DEF Ask
  <2>2. TreeType'
    BY <1>a, <2>1 DEF Ask, TreeType
  <2>3. asked' \in Nat
    BY <1>a DEF Ask
  <2>4. QED
    BY <1>b, <1>c, <2>2, <2>3 DEF Ask, EditorType
<1>1. CASE Type
  <2>1. open \in Requests /\ typed[open] + 1 \in Vers
    BY <1>1, <1>a, VersNat DEF Type, FieldsType, HistoryType, Vers
  <2>2. FieldsType' /\ HistoryType'
    BY <1>1, <1>a, <2>1 DEF Type, Change, FieldsType, HistoryType
  <2>3. QED
    BY <1>1, <1>a, <1>b, <2>2 DEF Type, EditorType
<1>2. CASE Dismiss
  <2>1. FieldsType'
    BY <1>2, <1>a DEF Dismiss, FieldsType
  <2>2. QED
    BY <1>2, <1>a, <1>b, <1>c, <2>1 DEF Dismiss, EditorType
<1>3. ASSUME NEW r \in Requests, Select(r) PROVE EditorType'
  <2>1. tree[r].place \in Places /\ tree[r].text \in Vers
    BY <1>3, <1>a DEF Select, TreeType, Entry, NoPlace
  <2>2. FieldsType'
    BY <1>3, <1>a, <2>1, LoadType DEF Select
  <2>3. HistoryType'
    BY <1>3, <1>a DEF Select, HistoryType
  <2>4. QED
    BY <1>3, <1>a, <1>b, <2>2, <2>3 DEF Select, EditorType
<1>4. ASSUME NEW r \in Handled, AskDelete(r) PROVE EditorType'
  BY <1>4, <1>a, <1>d, TasksKnown DEF AskDelete
<1>5. ASSUME NEW r \in Handled, NEW p \in Places, AskMove(r, p) PROVE EditorType'
  BY <1>5, <1>a, <1>d, TasksKnown DEF AskMove
<1>6. ASSUME NEW c \in Cols, AskDrop(c) PROVE EditorType'
  BY <1>6, <1>a, <1>d, TasksKnown DEF AskDrop
<1>7. ASSUME NEW p \in Places, AskAdd(p) PROVE EditorType'
  BY <1>7, <1>a, <1>d, TasksKnown DEF AskAdd
<1>8. CASE AutoSave
  <2>1. saves' \in Seq(SaveCall)
    BY <1>8, <1>a, CurrentSaved DEF AutoSave
  <2>2. FieldsType'
    BY <1>8, <1>a, <2>1 DEF AutoSave, FieldsType
  <2>3. QED
    BY <1>8, <1>a, <1>b, <1>c, <2>2 DEF AutoSave, EditorType
<1>9. ASSUME NEW i \in DOMAIN saves, SaveArrives(i) PROVE EditorType'
  <2>1. saves[i] \in SaveCall
    BY <1>a, SavesKnown
  <2>2. saves' \in Seq(SaveCall)
    BY <1>9, <1>a, SaveMoves DEF SaveArrives
  <2>3. FieldsType'
    BY <1>9, <1>a, <2>2 DEF SaveArrives, FieldsType
  <2>4. disk' \in [Requests -> Vers]
    BY <1>9, <1>a, <2>1 DEF SaveArrives, BackendType, SaveCall
  <2>5. BackendType'
    BY <1>9, <1>a, <2>4 DEF SaveArrives, BackendType
  <2>6. faults' \in Nat /\ raced' \in BOOLEAN
    BY <1>9, <1>a DEF SaveArrives, HistoryType, Fail
  <2>7. HistoryType'
    BY <1>9, <1>a, <2>6 DEF SaveArrives, HistoryType
  <2>8. QED
    BY <1>9, <1>a, <1>b, <2>3, <2>5, <2>7 DEF SaveArrives, EditorType
<1>10. ASSUME NEW i \in DOMAIN saves, SaveStored(i) PROVE EditorType'
  <2>1. saves[i] \in SaveCall
    BY <1>a, SavesKnown
  <2>2. saves' \in Seq(SaveCall)
    BY <1>10, <1>a, SaveLeaves DEF SaveStored
  <2>3. FieldsType'
    BY <1>10, <1>a, <2>2 DEF SaveStored, FieldsType
  <2>4. Patched(saves[i]) \in [Requests -> Entry]
    BY <1>a, <2>1 DEF Patched, TreeType, Entry, SaveCall
  <2>5. TreeType'
    BY <1>10, <1>a, <2>4 DEF SaveStored, TreeType
  <2>6. QED
    BY <1>10, <1>a, <1>b, <1>c, <2>3, <2>5 DEF SaveStored, EditorType
<1>11. ASSUME NEW i \in DOMAIN saves, SaveRefused(i) PROVE EditorType'
  <2>1. saves[i] \in SaveCall
    BY <1>a, SavesKnown
  <2>2. saves' \in Seq(SaveCall)
    BY <1>11, <1>a, SaveLeaves DEF SaveRefused
  <2>3. FieldsType'
    BY <1>11, <1>a, <2>2 DEF SaveRefused, FieldsType
  <2>4. HistoryType'
    BY <1>11, <1>a, <2>1 DEF SaveRefused, HistoryType, SaveCall
  <2>5. QED
    BY <1>11, <1>a, <1>b, <2>3, <2>4 DEF SaveRefused, EditorType
<1>12. CASE Begin
  <2>1. TreeType'
    BY <1>12, <1>a DEF Begin, TreeType
  <2>2. QED
    BY <1>12, <1>a, <1>b, <1>c, <2>1 DEF Begin, EditorType
<1>13. CASE CallSucceeds
  <2>1. TreeType'
    BY <1>13, <1>a DEF CallSucceeds, TreeType
  <2>2. Head(queue) \in TaskCall
    BY <1>13, <1>a, HeadTailProperties DEF CallSucceeds, TreeType, ReadsTrue
  <2>3. cols' \in SUBSET Cols /\ place' \in [Requests -> NoPlace]
    <3> DEFINE t == Head(queue)
    <3>1. t \in TaskCall /\ CallWorks(t)
      BY <1>13, <2>2 DEF CallSucceeds
    <3> HIDE DEF t
    <3>2. t.to \in NoPlace
      BY <3>1 DEF TaskCall
    <3>3. cols' \in SUBSET Cols
      BY <1>a, <3>1 DEF CallWorks, BackendType
    <3>4. place' \in [Requests -> NoPlace]
      BY <1>a, <3>1, <3>2 DEF CallWorks, BackendType, NoPlace
    <3>5. QED
      BY <3>3, <3>4
  <2>4. BackendType'
    BY <1>13, <1>a, <2>3 DEF CallSucceeds, BackendType
  <2>5. QED
    BY <1>13, <1>a, <1>c, <2>1, <2>4 DEF CallSucceeds, EditorType
<1>14. CASE CallFails
  <2>1. queue' \in Seq(TaskCall)
    BY <1>14, <1>a, TaskEnds DEF CallFails, EndTask, ReadsTrue
  <2>2. TreeType'
    BY <1>14, <1>a, <2>1 DEF CallFails, EndTask, TreeType
  <2>3. HistoryType'
    BY <1>14, <1>a DEF CallFails, HistoryType, Fail
  <2>4. QED
    BY <1>14, <1>a, <1>b, <1>c, <2>2, <2>3 DEF CallFails, EditorType
<1>15. CASE ReadCols
  <2>1. colsRead' \in [cols : SUBSET Cols, tree : [Requests -> Entry]]
    BY <1>15, <1>a, SeenType DEF ReadCols, BackendType
  <2>2. TreeType'
    BY <1>15, <1>a, <2>1 DEF ReadCols, TreeType
  <2>3. QED
    BY <1>15, <1>a, <1>b, <1>c, <2>2 DEF ReadCols, EditorType
<1>16. CASE ReadRoots
  <2>1. rootsRead' \in [Requests -> Entry]
    BY <1>16, <1>a, SeenType DEF ReadRoots
  <2>2. TreeType'
    BY <1>16, <1>a, <2>1 DEF ReadRoots, TreeType
  <2>3. QED
    BY <1>16, <1>a, <1>b, <1>c, <2>2 DEF ReadRoots, EditorType
<1>17. CASE ReadLayout
  <2>1. /\ tree' \in [Requests -> Entry] /\ loaded' = TRUE /\ step' = "idle"
        /\ queue # <<>> /\ queue' = Tail(queue)
    BY <1>17, LayoutRead
  <2>2. queue' \in Seq(TaskCall)
    BY <1>a, <2>1, TaskEnds
  <2>3. shown' \in SUBSET Cols /\ colsRead' = NothingRead /\ rootsRead' = EmptyTree
    BY <1>17, <1>a DEF ReadLayout, TreeType
  <2>4. TreeType'
    BY <2>1, <2>2, <2>3, EmptyTypes DEF TreeType
  <2>5. FieldsType'
    <3>1. CASE UNCHANGED editorVars
      BY <1>c, <3>1
    <3>2. CASE Close
      BY <1>a, <3>2, CloseType
    <3>3. CASE open # None /\ place[open] \in Places /\ Relocate(place[open])
      BY <1>a, <3>3, RelocateType
    <3>4. CASE \E x \in Requests, p \in Places, v \in Vers : Load(x, p, v)
      BY <1>a, <3>4, LoadType
    <3>5. QED
      BY <1>17, <3>1, <3>2, <3>3, <3>4, LayoutRead
  <2>6. QED
    BY <1>17, <1>a, <1>b, <1>c, <2>4, <2>5 DEF ReadLayout, EditorType
<1>18. CASE ReadFails
  <2>1. queue' \in Seq(TaskCall)
    BY <1>18, <1>a, TaskEnds DEF ReadFails, EndTask, ReadsTrue
  <2>2. TreeType'
    BY <1>18, <1>a, <2>1, EmptyTypes DEF ReadFails, EndTask, TreeType
  <2>3. HistoryType'
    BY <1>18, <1>a DEF ReadFails, HistoryType, Fail
  <2>4. QED
    BY <1>18, <1>a, <1>b, <1>c, <2>2, <2>3 DEF ReadFails, EditorType
<1>19. CASE UNCHANGED vars
  BY <1>19, <1>a, <1>b, <1>c DEF vars, EditorType
<1> QED
  BY <1>1, <1>2, <1>3, <1>4, <1>5, <1>6, <1>7, <1>8, <1>9, <1>10, <1>11, <1>12,
     <1>13, <1>14, <1>15, <1>16, <1>17, <1>18, <1>19
     DEF Next, User, SaveGoesOn, TaskGoesOn

\* Places move while no answer of loadTree is held.
LEMMA ReadsStep == EditorType /\ ReadsTrue /\ [Next]_vars => ReadsTrue'
<1> SUFFICES ASSUME EditorType, ReadsTrue, [Next]_vars PROVE ReadsTrue'
  OBVIOUS
<1>a. TreeType /\ step \in {"idle", "call", "cols", "roots", "layout"}
  BY DEF EditorType, TreeType
<1>b. ASSUME step' = step, queue' = queue, place' = place, colsRead' = colsRead, rootsRead' = rootsRead
      PROVE  ReadsTrue'
  BY <1>b DEF ReadsTrue
<1>c. ASSUME NEW t \in TaskCall, t.op # "load", Ask(t) PROVE ReadsTrue'
  BY <1>a, <1>c, TaskJoins DEF Ask, ReadsTrue, backendVars
<1>d. step' = "idle" => ReadsTrue'
  BY DEF ReadsTrue
<1>1. CASE Type
  BY <1>1, <1>b DEF Type, Change, backendVars, treeVars
<1>2. CASE Dismiss
  BY <1>2, <1>b DEF Dismiss, backendVars, treeVars
<1>3. ASSUME NEW r \in Requests, Select(r) PROVE ReadsTrue'
  BY <1>3, <1>b DEF Select, backendVars, treeVars
<1>4. ASSUME NEW r \in Handled, AskDelete(r) PROVE ReadsTrue'
  BY <1>4, <1>a, <1>c, TasksKnown DEF AskDelete
<1>5. ASSUME NEW r \in Handled, NEW p \in Places, AskMove(r, p) PROVE ReadsTrue'
  BY <1>5, <1>a, <1>c, TasksKnown DEF AskMove
<1>6. ASSUME NEW c \in Cols, AskDrop(c) PROVE ReadsTrue'
  BY <1>6, <1>a, <1>c, TasksKnown DEF AskDrop
<1>7. ASSUME NEW p \in Places, AskAdd(p) PROVE ReadsTrue'
  BY <1>7, <1>a, <1>c, TasksKnown DEF AskAdd
<1>8. CASE AutoSave
  BY <1>8, <1>b DEF AutoSave, backendVars, treeVars
<1>9. ASSUME NEW i \in DOMAIN saves, SaveArrives(i) PROVE ReadsTrue'
  BY <1>9, <1>b DEF SaveArrives, Fail, backendVars, treeVars
<1>10. ASSUME NEW i \in DOMAIN saves, SaveStored(i) PROVE ReadsTrue'
  BY <1>10, <1>b DEF SaveStored, backendVars, treeVars
<1>11. ASSUME NEW i \in DOMAIN saves, SaveRefused(i) PROVE ReadsTrue'
  BY <1>11, <1>b DEF SaveRefused, backendVars, treeVars
<1>12. CASE Begin
  BY <1>12 DEF Begin, ReadsTrue
<1>13. CASE CallSucceeds
  BY <1>13 DEF CallSucceeds, ReadsTrue
<1>14. CASE CallFails
  BY <1>14, <1>d DEF CallFails, EndTask
<1>15. CASE ReadCols
  <2>1. place' = place /\ queue' = queue /\ step' = "roots" /\ colsRead'.tree = SeenIn(Cols)
    BY <1>15 DEF ReadCols, backendVars
  <2>2. \A r \in Requests : SeenIn(Cols)[r].place = IF place[r] \in Cols THEN place[r] ELSE None
    BY DEF SeenIn, Absent
  <2>3. QED
    BY <1>15, <2>1, <2>2 DEF ReadCols, ReadsTrue
<1>16. CASE ReadRoots
  <2>1. place' = place /\ queue' = queue /\ step' = "layout" /\ rootsRead' = SeenIn({Root}) /\ colsRead' = colsRead
    BY <1>16 DEF ReadRoots, backendVars
  <2>2. \A r \in Requests : SeenIn({Root})[r].place = IF place[r] = Root THEN Root ELSE None
    BY DEF SeenIn, Absent
  <2>3. QED
    BY <1>16, <2>1, <2>2 DEF ReadRoots, ReadsTrue
<1>17. CASE ReadLayout
  BY <1>17, <1>d DEF ReadLayout, EndTask
<1>18. CASE ReadFails
  BY <1>18, <1>d DEF ReadFails, EndTask
<1>19. CASE UNCHANGED vars
  BY <1>19, <1>b DEF vars, backendVars, treeVars
<1> QED
  BY <1>1, <1>2, <1>3, <1>4, <1>5, <1>6, <1>7, <1>8, <1>9, <1>10, <1>11, <1>12,
     <1>13, <1>14, <1>15, <1>16, <1>17, <1>18, <1>19
     DEF Next, User, SaveGoesOn, TaskGoesOn

\* The editor follows the tree.
LEMMA OpenStep == EditorType /\ ReadsTrue /\ OpenTrue /\ [Next]_vars => OpenTrue'
<1> SUFFICES ASSUME EditorType, ReadsTrue, OpenTrue, [Next]_vars PROVE OpenTrue'
  OBVIOUS
<1>a. TreeType /\ FieldsType
  BY DEF EditorType
<1>b. ASSUME UNCHANGED <<open, col, tree, loaded, queue>> PROVE OpenTrue'
  BY <1>b DEF OpenTrue
<1>c. ASSUME NEW t \in TaskCall, t.op # "load", Ask(t) PROVE OpenTrue'
  <2>1. \A i \in DOMAIN queue' : queue'[i].op = "load" => i = 1 /\ ~loaded
    BY <1>a, <1>c, TaskJoins DEF Ask, OpenTrue
  <2>2. QED
    BY <1>c, <2>1 DEF Ask, OpenTrue, editorVars
<1>d. ASSUME UNCHANGED <<open, col, tree, loaded>>, queue # <<>>, queue' = Tail(queue) PROVE OpenTrue'
  <2>1. \A i \in DOMAIN queue' : queue'[i].op # "load"
    BY <1>a, <1>d, TaskEnds DEF OpenTrue
  <2>2. QED
    BY <1>d, <2>1 DEF OpenTrue
<1>1. CASE Type
  BY <1>1, <1>b DEF Type, Change, editorVars, treeVars
<1>2. CASE Dismiss
  BY <1>2, <1>b DEF Dismiss, editorVars, treeVars
<1>3. ASSUME NEW r \in Requests, Select(r) PROVE OpenTrue'
  <2>1. /\ open' = r /\ col' = tree[r].place /\ col' # None
        /\ tree' = tree /\ loaded' = loaded /\ queue' = queue
    BY <1>3 DEF Select, Load, treeVars
  <2>2. r # None
    BY Apart
  <2>3. QED
    BY <2>1, <2>2 DEF OpenTrue
<1>4. ASSUME NEW r \in Handled, AskDelete(r) PROVE OpenTrue'
  BY <1>4, <1>a, <1>c, TasksKnown DEF AskDelete
<1>5. ASSUME NEW r \in Handled, NEW p \in Places, AskMove(r, p) PROVE OpenTrue'
  BY <1>5, <1>a, <1>c, TasksKnown DEF AskMove
<1>6. ASSUME NEW c \in Cols, AskDrop(c) PROVE OpenTrue'
  BY <1>6, <1>a, <1>c, TasksKnown DEF AskDrop
<1>7. ASSUME NEW p \in Places, AskAdd(p) PROVE OpenTrue'
  BY <1>7, <1>a, <1>c, TasksKnown DEF AskAdd
<1>8. CASE AutoSave
  BY <1>8, <1>b DEF AutoSave, editorVars, treeVars
<1>9. ASSUME NEW i \in DOMAIN saves, SaveArrives(i) PROVE OpenTrue'
  BY <1>9, <1>b DEF SaveArrives, Fail, editorVars, treeVars
<1>10. ASSUME NEW i \in DOMAIN saves, SaveStored(i) PROVE OpenTrue'
  <2>1. \A r \in Requests : tree'[r].place = tree[r].place
    <3>1. tree \in [Requests -> Entry] /\ saves[i] \in SaveCall
      BY <1>a, SavesKnown DEF TreeType
    <3>2. \A r \in Requests : Patched(saves[i])[r].place = tree[r].place
      BY <3>1 DEF Patched, Entry, SaveCall
    <3>3. tree' = tree \/ tree' = Patched(saves[i])
      BY <1>10 DEF SaveStored
    <3>4. QED
      BY <3>2, <3>3
  <2>2. open \in Requests \cup {None}
    BY <1>a DEF FieldsType
  <2>3. QED
    BY <1>10, <2>1, <2>2 DEF SaveStored, OpenTrue
<1>11. ASSUME NEW i \in DOMAIN saves, SaveRefused(i) PROVE OpenTrue'
  BY <1>11, <1>b DEF SaveRefused, editorVars, treeVars
<1>12. CASE Begin
  BY <1>12, <1>b DEF Begin, editorVars, treeVars
<1>13. CASE CallSucceeds
  BY <1>13, <1>b DEF CallSucceeds, editorVars, treeVars
<1>14. CASE CallFails
  BY <1>14, <1>d DEF CallFails, EndTask, ReadsTrue, editorVars
<1>15. CASE ReadCols
  BY <1>15, <1>b DEF ReadCols, editorVars, treeVars
<1>16. CASE ReadRoots
  BY <1>16, <1>b DEF ReadRoots, editorVars, treeVars
<1>17. CASE ReadLayout
  <2>1. /\ \A r \in Requests : tree'[r].place = place[r]
        /\ loaded' = TRUE /\ queue # <<>> /\ queue' = Tail(queue)
    BY <1>17, LayoutRead
  <2>2. \A i \in DOMAIN queue' : queue'[i].op # "load"
    BY <1>a, <2>1, TaskEnds DEF OpenTrue
  <2>3. open \in Requests \cup {None} /\ (open = None <=> col = None)
    BY <1>a DEF FieldsType, OpenTrue
  <2>4. (open' = None <=> col' = None) /\ (open' # None => open' \in Requests /\ col' = place[open'])
    <3>1. CASE UNCHANGED editorVars /\ (open # None => place[open] = col)
      BY <2>3, <3>1 DEF editorVars
    <3>2. CASE Close
      BY <3>2 DEF Close
    <3>3. CASE open # None /\ place[open] \in Places /\ Relocate(place[open])
      BY <2>3, <3>3, Apart DEF Relocate
    <3>4. CASE \E x \in Requests, p \in Places, v \in Vers : place[x] = p /\ Load(x, p, v)
      BY <3>4, Apart DEF Load
    <3>5. QED
      BY <1>17, <3>1, <3>2, <3>3, <3>4, LayoutRead
  <2>5. QED
    BY <2>1, <2>2, <2>4 DEF OpenTrue
<1>18. CASE ReadFails
  BY <1>18, <1>d DEF ReadFails, EndTask, ReadsTrue, editorVars
<1>19. CASE UNCHANGED vars
  BY <1>19, <1>b DEF vars, editorVars, treeVars
<1> QED
  BY <1>1, <1>2, <1>3, <1>4, <1>5, <1>6, <1>7, <1>8, <1>9, <1>10, <1>11, <1>12,
     <1>13, <1>14, <1>15, <1>16, <1>17, <1>18, <1>19
     DEF Next, User, SaveGoesOn, TaskGoesOn

\* No change is left in the fields without a save that will store it, an
\* autosave that is due, or a word to the user.
LEMMA SecuredStep == EditorType /\ ReadsTrue /\ OpenTrue /\ Secured /\ [Next]_vars => Secured'
<1> SUFFICES ASSUME EditorType, ReadsTrue, OpenTrue, Secured, [Next]_vars PROVE Secured'
  OBVIOUS
<1>a. /\ TreeType /\ FieldsType /\ (open = None <=> col = None)
      /\ open \in Requests \cup {None} /\ disk \in [Requests -> Vers]
      /\ raced \in BOOLEAN /\ said \in SUBSET Requests
  BY DEF EditorType, OpenTrue, BackendType, FieldsType, HistoryType
<1>b. ASSUME UNCHANGED <<open, text, timer, raced, said, saves, disk>> PROVE Secured'
  BY <1>b DEF Secured, TellsOf, LastSent, NoneSent
<1>c. ASSUME NEW r \in Requests, NEW p \in Places, NEW v \in Vers, Load(r, p, v) PROVE Secured'
  <2>1. CASE r # open \/ v # text
    BY <1>c, <2>1 DEF Load, Secured
  <2>2. CASE r = open /\ v = text
    <3>1. open # None
      BY <2>2, Apart
    <3>2. LastSent(saves', open, text)
      BY <1>a, <1>c, <3>1, CurrentSaved DEF Load
    <3>3. QED
      BY <1>c, <2>2, <3>2 DEF Load, Secured
  <2>3. QED
    BY <2>1, <2>2
<1>1. CASE Type
  BY <1>1 DEF Type, Change, Secured
<1>2. CASE Dismiss
  BY <1>2, <1>b DEF Dismiss, backendVars, editorVars, history
<1>3. ASSUME NEW r \in Requests, Select(r) PROVE Secured'
  <2>1. tree[r].place \in Places /\ tree[r].text \in Vers
    BY <1>3, <1>a DEF Select, TreeType, Entry, NoPlace
  <2>2. QED
    BY <1>3, <1>c, <2>1 DEF Select
<1>4. ASSUME NEW r \in Handled, AskDelete(r) PROVE Secured'
  BY <1>4, <1>b DEF AskDelete, Ask, backendVars, editorVars, history
<1>5. ASSUME NEW r \in Handled, NEW p \in Places, AskMove(r, p) PROVE Secured'
  BY <1>5, <1>b DEF AskMove, Ask, backendVars, editorVars, history
<1>6. ASSUME NEW c \in Cols, AskDrop(c) PROVE Secured'
  BY <1>6, <1>b DEF AskDrop, Ask, backendVars, editorVars, history
<1>7. ASSUME NEW p \in Places, AskAdd(p) PROVE Secured'
  BY <1>7, <1>b DEF AskAdd, Ask, backendVars, editorVars, history
<1>8. CASE AutoSave
  <2>1. CASE open = None
    BY <1>8, <2>1 DEF AutoSave, Secured
  <2>2. CASE open # None
    <3>1. LastSent(saves', open, text)
      BY <1>8, <1>a, <2>2, CurrentSaved DEF AutoSave
    <3>2. QED
      BY <1>8, <3>1 DEF AutoSave, Secured
  <2>3. QED
    BY <2>1, <2>2
<1>9. ASSUME NEW i \in DOMAIN saves, SaveArrives(i) PROVE Secured'
  <2> SUFFICES ASSUME open # None, ~timer, ~raced', open \notin said PROVE Secured'
    BY <1>9 DEF SaveArrives, Secured
  <2>1. /\ open' = open /\ text' = text /\ saves[i].at = "sent" /\ saves[i] \in SaveCall
        /\ ~raced /\ ~\E j \in 1 .. i - 1 : saves[j].req = saves[i].req /\ saves[j].at = "sent"
    BY <1>9, <1>a, SavesKnown DEF SaveArrives
  <2>2. \/ /\ saves' = [saves EXCEPT ![i].at = "stored"] /\ disk' = [disk EXCEPT ![saves[i].req] = saves[i].text]
        \/ saves' = [saves EXCEPT ![i].at = "refused"] /\ disk' = disk
    BY <1>9 DEF SaveArrives
  <2>3. /\ DOMAIN saves' = DOMAIN saves /\ DOMAIN saves = 1..Len(saves) /\ Len(saves) \in Nat
        /\ saves'[i].at \in {"stored", "refused"} /\ saves'[i].req = saves[i].req
        /\ saves'[i].text = saves[i].text /\ saves'[i].stale = saves[i].stale
        /\ \A j \in DOMAIN saves : j # i => saves'[j] = saves[j]
    BY <1>a, <2>2, SaveMoves, SavesKnown
  <2>4. CASE TellsOf(saves, open)
    <3>1. PICK k \in DOMAIN saves : saves[k].req = open /\ saves[k].at = "refused" /\ ~saves[k].stale
      BY <2>4 DEF TellsOf
    <3>2. k # i
      BY <2>1, <3>1
    <3>3. TellsOf(saves', open)
      BY <2>3, <3>1, <3>2 DEF TellsOf
    <3>4. QED
      BY <2>1, <3>3 DEF Secured
  <2>5. CASE LastSent(saves, open, text)
    <3>1. PICK k \in DOMAIN saves :
             /\ saves[k].req = open /\ saves[k].at = "sent" /\ saves[k].text = text /\ ~saves[k].stale
             /\ \A j \in DOMAIN saves : saves[j].req = open => j <= k
      BY <2>5 DEF LastSent
    <3>2. CASE k # i
      <4>1. saves'[k] = saves[k] /\ \A j \in DOMAIN saves' : saves'[j].req = saves[j].req
        BY <2>3, <3>2
      <4>2. LastSent(saves', open, text)
        BY <2>3, <3>1, <4>1 DEF LastSent
      <4>3. QED
        BY <2>1, <4>2 DEF Secured
    <3>3. CASE k = i /\ saves' = [saves EXCEPT ![i].at = "refused"]
      <4>1. saves'[i].at = "refused"
        BY <1>a, <3>3, SaveMoves
      <4>2. TellsOf(saves', open)
        BY <2>3, <3>1, <3>3, <4>1 DEF TellsOf
      <4>3. QED
        BY <2>1, <4>2 DEF Secured
    <3>4. CASE k = i /\ saves' = [saves EXCEPT ![i].at = "stored"] /\ disk' = [disk EXCEPT ![saves[i].req] = saves[i].text]
      <4>1. disk'[open] = text
        BY <1>a, <3>1, <3>4
      <4>2. \A j \in DOMAIN saves' : saves'[j].req = open => saves'[j].at # "sent"
        <5> SUFFICES ASSUME NEW j \in DOMAIN saves', saves'[j].req = open, j # i, saves'[j].at = "sent" PROVE FALSE
          BY <2>3
        <5>1. saves[j].req = open /\ saves[j].at = "sent" /\ j \in DOMAIN saves
          BY <2>3
        <5>2. j <= i
          BY <3>1, <3>4, <5>1
        <5>3. j \in 1 .. i - 1
          BY <2>3, <5>1, <5>2
        <5>4. QED
          BY <2>1, <3>1, <3>4, <5>1, <5>3
      <4>3. QED
        BY <2>1, <4>1, <4>2 DEF Secured, NoneSent
    <3>5. QED
      BY <2>2, <3>2, <3>3, <3>4
  <2>6. CASE disk[open] = text /\ NoneSent(saves, open)
    <3>1. saves[i].req # open
      BY <2>1, <2>6 DEF NoneSent
    <3>2. disk'[open] = text
      BY <1>a, <2>2, <2>6, <3>1
    <3>3. NoneSent(saves', open)
      BY <2>3, <2>6 DEF NoneSent
    <3>4. QED
      BY <2>1, <3>2, <3>3 DEF Secured
  <2>7. QED
    BY <2>1, <2>4, <2>5, <2>6 DEF Secured
<1>10. ASSUME NEW i \in DOMAIN saves, SaveStored(i) PROVE Secured'
  <2> SUFFICES ASSUME open # None, ~timer, ~raced, open \notin said PROVE Secured'
    BY <1>10 DEF SaveStored, Secured, history
  <2>1. /\ open' = open /\ text' = text /\ disk' = disk
        /\ saves[i].at = "stored" /\ saves' = RemoveAt(saves, i)
    BY <1>10 DEF SaveStored, backendVars
  <2>2. TellsOf(saves, open) => TellsOf(saves', open)
    BY <1>a, <2>1, SaveLeaves DEF TellsOf
  <2>3. LastSent(saves, open, text) => LastSent(saves', open, text)
    BY <1>a, <2>1, SentStays
  <2>4. NoneSent(saves, open) => NoneSent(saves', open)
    BY <1>a, <2>1, SaveLeaves DEF NoneSent
  <2>5. QED
    BY <2>1, <2>2, <2>3, <2>4 DEF Secured
<1>11. ASSUME NEW i \in DOMAIN saves, SaveRefused(i) PROVE Secured'
  <2> SUFFICES ASSUME open # None, ~timer, ~raced, open \notin said' PROVE Secured'
    BY <1>11 DEF SaveRefused, Secured
  <2>1. /\ open' = open /\ text' = text /\ disk' = disk /\ open \notin said
        /\ saves[i].at = "refused" /\ saves' = RemoveAt(saves, i)
        /\ saves[i].stale \/ saves[i].req # open
    BY <1>11 DEF SaveRefused, backendVars
  <2>2. TellsOf(saves, open) => TellsOf(saves', open)
    BY <1>a, <2>1, SaveLeaves DEF TellsOf
  <2>3. LastSent(saves, open, text) => LastSent(saves', open, text)
    BY <1>a, <2>1, SentStays
  <2>4. NoneSent(saves, open) => NoneSent(saves', open)
    BY <1>a, <2>1, SaveLeaves DEF NoneSent
  <2>5. QED
    BY <2>1, <2>2, <2>3, <2>4 DEF Secured
<1>12. CASE Begin
  BY <1>12, <1>b DEF Begin, backendVars, editorVars, history
<1>13. CASE CallSucceeds
  BY <1>13, <1>b DEF CallSucceeds, backendVars, editorVars, history
<1>14. CASE CallFails
  BY <1>14, <1>b DEF CallFails, EndTask, Fail, backendVars, editorVars, history
<1>15. CASE ReadCols
  BY <1>15, <1>b DEF ReadCols, backendVars, editorVars, history
<1>16. CASE ReadRoots
  BY <1>16, <1>b DEF ReadRoots, backendVars, editorVars, history
<1>17. CASE ReadLayout
  <2>1. UNCHANGED <<disk, raced, said>>
    BY <1>17 DEF ReadLayout, backendVars, history
  <2>2. CASE UNCHANGED editorVars
    BY <1>b, <2>1, <2>2 DEF editorVars
  <2>3. CASE Close
    BY <2>3 DEF Close, Secured
  <2>4. CASE open # None /\ place[open] \in Places /\ Relocate(place[open])
    <3>1. LastSent(saves', open, text)
      BY <1>a, <2>4, RelocateType
    <3>2. QED
      BY <2>4, <3>1 DEF Relocate, Secured
  <2>5. CASE \E x \in Requests, p \in Places, v \in Vers : Load(x, p, v)
    BY <1>c, <2>5
  <2>6. QED
    BY <1>17, <2>2, <2>3, <2>4, <2>5, LayoutRead
<1>18. CASE ReadFails
  BY <1>18, <1>b DEF ReadFails, EndTask, Fail, backendVars, editorVars, history
<1>19. CASE UNCHANGED vars
  BY <1>19, <1>b DEF vars, backendVars, editorVars, history
<1> QED
  BY <1>1, <1>2, <1>3, <1>4, <1>5, <1>6, <1>7, <1>8, <1>9, <1>10, <1>11, <1>12,
     <1>13, <1>14, <1>15, <1>16, <1>17, <1>18, <1>19
     DEF Next, User, SaveGoesOn, TaskGoesOn

\* Faults and the opening of another request are not forgotten.
LEMMA CalmBefore ==
  EditorType /\ [Next]_vars /\ faults' = 0 /\ ~left' => faults = 0 /\ ~left
<1> SUFFICES ASSUME EditorType, [Next]_vars, faults' = 0, ~left' PROVE faults = 0 /\ ~left
  OBVIOUS
<1>a. faults \in Nat
  BY DEF EditorType, HistoryType
<1>1. CASE Type
  BY <1>1, <1>a DEF Type, Change, history
<1>2. CASE Dismiss
  BY <1>2, <1>a DEF Dismiss, history
<1>3. ASSUME NEW r \in Requests, Select(r) PROVE faults = 0 /\ ~left
  BY <1>3, <1>a DEF Select, history
<1>4. ASSUME NEW r \in Handled, AskDelete(r) PROVE faults = 0 /\ ~left
  BY <1>4 DEF AskDelete, Ask, history
<1>5. ASSUME NEW r \in Handled, NEW p \in Places, AskMove(r, p) PROVE faults = 0 /\ ~left
  BY <1>5 DEF AskMove, Ask, history
<1>6. ASSUME NEW c \in Cols, AskDrop(c) PROVE faults = 0 /\ ~left
  BY <1>6 DEF AskDrop, Ask, history
<1>7. ASSUME NEW p \in Places, AskAdd(p) PROVE faults = 0 /\ ~left
  BY <1>7 DEF AskAdd, Ask, history
<1>8. CASE AutoSave
  BY <1>8, <1>a DEF AutoSave, history
<1>9. ASSUME NEW i \in DOMAIN saves, SaveArrives(i) PROVE faults = 0 /\ ~left
  BY <1>9, <1>a DEF SaveArrives, Fail, history
<1>10. ASSUME NEW i \in DOMAIN saves, SaveStored(i) PROVE faults = 0 /\ ~left
  BY <1>10, <1>a DEF SaveStored, history
<1>11. ASSUME NEW i \in DOMAIN saves, SaveRefused(i) PROVE faults = 0 /\ ~left
  BY <1>11, <1>a DEF SaveRefused, history
<1>12. CASE Begin
  BY <1>12, <1>a DEF Begin, history
<1>13. CASE CallSucceeds
  BY <1>13, <1>a DEF CallSucceeds, history
<1>14. CASE CallFails
  BY <1>14, <1>a DEF CallFails, EndTask, Fail, history
<1>15. CASE ReadCols
  BY <1>15, <1>a DEF ReadCols, history
<1>16. CASE ReadRoots
  BY <1>16, <1>a DEF ReadRoots, history
<1>17. CASE ReadLayout
  BY <1>17, <1>a DEF ReadLayout, EndTask, history
<1>18. CASE ReadFails
  BY <1>18, <1>a DEF ReadFails, EndTask, Fail, history
<1>19. CASE UNCHANGED vars
  BY <1>19, <1>a DEF vars, history
<1> QED
  BY <1>1, <1>2, <1>3, <1>4, <1>5, <1>6, <1>7, <1>8, <1>9, <1>10, <1>11, <1>12,
     <1>13, <1>14, <1>15, <1>16, <1>17, <1>18, <1>19
     DEF Next, User, SaveGoesOn, TaskGoesOn

\* While nothing fails and no other request is opened, the editor and the tree
\* agree with the backend, but for what a running task is about to tell.
LEMMA CalmStep == EditorType /\ ReadsTrue /\ OpenTrue /\ Calm /\ [Next]_vars => Calm'
<1> SUFFICES ASSUME EditorType, ReadsTrue, OpenTrue, Calm, [Next]_vars, faults' = 0, ~left'
             PROVE  TreeTrue' /\ SavesOf(saves', open', col') /\ ErrorTrue'
  BY DEF Calm
<1>a. TreeTrue /\ SavesOf(saves, open, col) /\ ErrorTrue /\ faults = 0
  BY CalmBefore DEF Calm
<1>b. /\ TreeType /\ FieldsType /\ (open = None <=> col = None)
      /\ open \in Requests \cup {None} /\ place \in [Requests -> NoPlace]
      /\ tree \in [Requests -> Entry] /\ step \in {"idle", "call", "cols", "roots", "layout"}
      /\ open # None => loaded /\ col = tree[open].place /\ open \in Requests
  BY DEF EditorType, TreeType, OpenTrue, BackendType, FieldsType
<1>c. UNCHANGED <<tree, loaded, step, place>> => TreeTrue'
  BY <1>a DEF TreeTrue, Reading
<1>d. UNCHANGED <<open, col, saves>> => SavesOf(saves', open', col')
  BY <1>a
<1>e. UNCHANGED <<open, col, saves, saveError, place>> => ErrorTrue'
  BY <1>a DEF ErrorTrue
<1>f. ASSUME UNCHANGED <<tree, loaded, step, place, open, col, saves, saveError>>
      PROVE  TreeTrue' /\ SavesOf(saves', open', col') /\ ErrorTrue'
  BY <1>c, <1>d, <1>e, <1>f
<1>g. ASSUME open = None, NEW r \in Requests, NEW p \in Places, NEW v \in Vers, Load(r, p, v)
      PROVE  SavesOf(saves', open', col') /\ ErrorTrue'
  <2>1. saves' = saves /\ open' = r /\ saveError' = saveError /\ ~saveError /\ r # None
    BY <1>a, <1>g, Apart DEF Load, SaveCurrent, ErrorTrue
  <2>2. \A i \in DOMAIN saves : saves[i].stale
    BY <1>a, <1>g DEF SavesOf
  <2>3. QED
    BY <2>1, <2>2 DEF SavesOf, ErrorTrue, RefusalsStale
<1>h. ASSUME saves' = SaveCurrent(saves), UNCHANGED <<open, col, saveError, place>>
      PROVE  SavesOf(saves', open', col') /\ ErrorTrue'
  <2>1. CASE open = None
    BY <1>a, <1>h, <2>1 DEF SaveCurrent, ErrorTrue
  <2>2. CASE open # None
    BY <1>a, <1>b, <1>h, <2>2, CurrentSaved DEF ErrorTrue
  <2>3. QED
    BY <2>1, <2>2
<1>i. ASSUME Close PROVE SavesOf(saves', open', col') /\ ErrorTrue'
  BY <1>b, <1>i, SavesStale DEF Close, ErrorTrue, FieldsType
<1>1. CASE Type
  BY <1>1, <1>f DEF Type, Change, backendVars, treeVars
<1>2. CASE Dismiss
  BY <1>2, <1>a, <1>c, <1>d DEF Dismiss, ErrorTrue, backendVars, treeVars
<1>3. ASSUME NEW r \in Requests, Select(r) PROVE TreeTrue' /\ SavesOf(saves', open', col') /\ ErrorTrue'
  <2>1. tree[r].place \in Places /\ tree[r].text \in Vers
    BY <1>3, <1>b DEF Select, Entry, NoPlace
  <2>2. Load(r, tree[r].place, tree[r].text) /\ UNCHANGED <<tree, loaded, step, place>>
    BY <1>3 DEF Select, treeVars, backendVars
  <2>3. CASE open = None
    BY <1>c, <1>g, <2>1, <2>2, <2>3
  <2>4. CASE open # None
    <3>1. r = open /\ tree[r].place = col
      BY <1>3, <1>b, <2>4 DEF Select
    <3>2. QED
      BY <1>c, <1>h, <2>2, <3>1 DEF Load
  <2>5. QED
    BY <2>3, <2>4
<1>4. ASSUME NEW r \in Handled, AskDelete(r) PROVE TreeTrue' /\ SavesOf(saves', open', col') /\ ErrorTrue'
  BY <1>4, <1>f DEF AskDelete, Ask, backendVars, editorVars
<1>5. ASSUME NEW r \in Handled, NEW p \in Places, AskMove(r, p) PROVE TreeTrue' /\ SavesOf(saves', open', col') /\ ErrorTrue'
  BY <1>5, <1>f DEF AskMove, Ask, backendVars, editorVars
<1>6. ASSUME NEW c \in Cols, AskDrop(c) PROVE TreeTrue' /\ SavesOf(saves', open', col') /\ ErrorTrue'
  BY <1>6, <1>f DEF AskDrop, Ask, backendVars, editorVars
<1>7. ASSUME NEW p \in Places, AskAdd(p) PROVE TreeTrue' /\ SavesOf(saves', open', col') /\ ErrorTrue'
  BY <1>7, <1>f DEF AskAdd, Ask, backendVars, editorVars
<1>8. CASE AutoSave
  BY <1>8, <1>c, <1>h DEF AutoSave, backendVars, treeVars
<1>9. ASSUME NEW i \in DOMAIN saves, SaveArrives(i) PROVE TreeTrue' /\ SavesOf(saves', open', col') /\ ErrorTrue'
  <2>1. UNCHANGED <<open, col, saveError, place, tree, loaded, step>>
    BY <1>9 DEF SaveArrives, treeVars
  <2>2. PICK to \in {"stored", "refused"} :
           /\ saves' = [saves EXCEPT ![i].at = to]
           /\ to = "refused" => place[saves[i].req] # saves[i].to
    BY <1>9, <1>a DEF SaveArrives, Fail
  <2>3. /\ DOMAIN saves' = DOMAIN saves /\ saves'[i].at = to
        /\ saves'[i].req = saves[i].req /\ saves'[i].to = saves[i].to /\ saves'[i].stale = saves[i].stale
        /\ \A j \in DOMAIN saves : j # i => saves'[j] = saves[j]
    BY <1>b, <2>2, SaveMoves
  <2>4. SavesOf(saves', open, col)
    BY <1>a, <2>3 DEF SavesOf
  <2>5. place[open] = col /\ open # None /\ ~saves[i].stale => to # "refused"
    BY <1>a, <2>2 DEF SavesOf
  <2>6. place[open] = col /\ open # None => RefusalsStale(saves')
    BY <1>a, <2>3, <2>5 DEF ErrorTrue, RefusalsStale
  <2>7. Awaited(saves) => Awaited(saves')
    BY <2>3 DEF Awaited
  <2>8. ErrorTrue'
    BY <1>a, <2>1, <2>6, <2>7 DEF ErrorTrue
  <2>9. QED
    BY <1>c, <2>1, <2>4, <2>8
<1>10. ASSUME NEW i \in DOMAIN saves, SaveStored(i) PROVE TreeTrue' /\ SavesOf(saves', open', col') /\ ErrorTrue'
  <2>1. UNCHANGED <<open, col, place, loaded, step>> /\ saves' = RemoveAt(saves, i)
    BY <1>10 DEF SaveStored, backendVars
  <2>2. tree' = tree \/ tree' = Patched(saves[i])
    BY <1>10 DEF SaveStored
  <2>3. saves[i] \in SaveCall
    BY <1>b, SavesKnown
  <2>4. \A r \in Requests : tree'[r].place = tree[r].place
    BY <1>b, <2>2, <2>3 DEF Patched, Entry, SaveCall
  <2>5. TreeTrue'
    BY <1>a, <2>1, <2>4 DEF TreeTrue, Reading
  <2>6. SavesOf(saves', open, col) /\ (RefusalsStale(saves) => RefusalsStale(saves'))
    BY <1>a, <1>b, <2>1, SaveLeaves DEF SavesOf, RefusalsStale
  <2>7. saveError' => saveError /\ saves[i].stale
    BY <1>10 DEF SaveStored
  <2>8. Awaited(saves) /\ saves[i].stale => Awaited(saves')
    BY <1>b, <2>1, SaveLeaves DEF Awaited
  <2>9. ErrorTrue'
    BY <1>a, <2>1, <2>6, <2>7, <2>8 DEF ErrorTrue
  <2>10. QED
    BY <2>1, <2>5, <2>6, <2>9
<1>11. ASSUME NEW i \in DOMAIN saves, SaveRefused(i) PROVE TreeTrue' /\ SavesOf(saves', open', col') /\ ErrorTrue'
  <2>1. UNCHANGED <<open, col, place, loaded, step, tree>> /\ saves' = RemoveAt(saves, i)
    BY <1>11 DEF SaveRefused, backendVars, treeVars
  <2>2. saves[i].at = "refused"
    BY <1>11 DEF SaveRefused
  <2>3. SavesOf(saves', open, col) /\ (RefusalsStale(saves) => RefusalsStale(saves'))
    BY <1>a, <1>b, <2>1, SaveLeaves DEF SavesOf, RefusalsStale
  <2>4. saves[i].stale => saveError' = saveError
    BY <1>11 DEF SaveRefused
  <2>5. Awaited(saves) /\ saves[i].stale => Awaited(saves')
    BY <1>b, <2>1, SaveLeaves DEF Awaited
  <2>6. RefusalsStale(saves) => saves[i].stale
    BY <2>2 DEF RefusalsStale
  <2>7. ~saves[i].stale => open # None
    BY <1>a DEF SavesOf
  <2>8. ErrorTrue'
    BY <1>a, <2>1, <2>3, <2>4, <2>5, <2>6, <2>7 DEF ErrorTrue
  <2>9. QED
    BY <1>c, <2>1, <2>3, <2>8
<1>12. CASE Begin
  <2>1. UNCHANGED <<open, col, saves, saveError, place, tree, loaded>> /\ ~Reading
    BY <1>12, <1>b DEF Begin, backendVars, editorVars, Running, Reading
  <2>2. QED
    BY <1>a, <1>d, <1>e, <2>1 DEF TreeTrue, Reading
<1>13. CASE CallSucceeds
  <2>1. UNCHANGED <<open, col, saves, saveError>> /\ step = "call" /\ step' = "cols"
    BY <1>13 DEF CallSucceeds, editorVars
  <2>2. open # None => place[open] = col
    BY <1>a, <1>b, <2>1 DEF TreeTrue, Reading
  <2>3. QED
    BY <1>a, <1>d, <2>1, <2>2 DEF TreeTrue, Reading, ErrorTrue
<1>14. CASE CallFails
  <2>1. UNCHANGED <<open, col, saves, saveError, place, tree, loaded>> /\ step = "call"
    BY <1>14 DEF CallFails, backendVars, editorVars
  <2>2. QED
    BY <1>a, <1>d, <1>e, <2>1 DEF TreeTrue, Reading
<1>15. CASE ReadCols
  <2>1. UNCHANGED <<open, col, saves, saveError, place, tree, loaded>> /\ step' = "roots"
    BY <1>15 DEF ReadCols, backendVars, editorVars
  <2>2. QED
    BY <1>a, <1>d, <1>e, <2>1 DEF TreeTrue, Reading
<1>16. CASE ReadRoots
  <2>1. UNCHANGED <<open, col, saves, saveError, place, tree, loaded>> /\ step' = "layout"
    BY <1>16 DEF ReadRoots, backendVars, editorVars
  <2>2. QED
    BY <1>a, <1>d, <1>e, <2>1 DEF TreeTrue, Reading
<1>17. CASE ReadLayout
  <2>1. \A r \in Requests : tree'[r].place = place[r]
    BY <1>17, LayoutRead
  <2>2. place' = place
    BY <1>17 DEF ReadLayout, backendVars
  <2>3. TreeTrue'
    BY <2>1, <2>2 DEF TreeTrue
  <2>4. SavesOf(saves', open', col') /\ ErrorTrue'
    <3>1. CASE UNCHANGED editorVars
      BY <1>d, <1>e, <2>2, <3>1 DEF editorVars
    <3>2. CASE Close
      BY <1>i, <3>2
    <3>3. CASE open # None /\ place[open] \in Places /\ Relocate(place[open])
      <4>1. /\ RefusalsStale(saves') /\ Awaited(saves') /\ SavesOf(saves', open, place[open])
            /\ open' = open /\ col' = place[open]
        BY <1>b, <3>3, RelocateType DEF Relocate
      <4>2. QED
        BY <3>3, <4>1 DEF ErrorTrue
    <3>4. CASE open = None /\ \E x \in Requests, p \in Places, v \in Vers : Load(x, p, v)
      BY <1>g, <3>4
    <3>5. QED
      BY <1>17, <3>1, <3>2, <3>3, <3>4, LayoutRead
  <2>5. QED
    BY <2>3, <2>4
<1>18. CASE ReadFails
  BY <1>18, <1>a DEF ReadFails, Fail
<1>19. CASE UNCHANGED vars
  BY <1>19, <1>f DEF vars, backendVars, treeVars, editorVars
<1> QED
  BY <1>1, <1>2, <1>3, <1>4, <1>5, <1>6, <1>7, <1>8, <1>9, <1>10, <1>11, <1>12,
     <1>13, <1>14, <1>15, <1>16, <1>17, <1>18, <1>19
     DEF Next, User, SaveGoesOn, TaskGoesOn
----------------------------------------------------------------------------
\* The conjuncts of EditorInv together are inductive.
LEMMA EditorStep == EditorInv /\ [Next]_vars => EditorInv'
BY EditorTypeStep, ReadsStep, OpenStep, SecuredStep, CalmStep DEF EditorInv

\* What it says once nothing is under way.
LEMMA AtRestSaved == EditorInv => SavedOrSaid
<1> SUFFICES ASSUME EditorInv, AtRest, open # None
             PROVE  disk[open] = text \/ open \in said \/ raced
  BY DEF SavedOrSaid
<1>1. ~timer /\ DOMAIN saves = {} /\ Secured
  BY DEF AtRest, EditorInv
<1>2. QED
  BY <1>1 DEF Secured, TellsOf, LastSent

LEMMA AtRestQuiet == EditorInv => QuietWhenMoved
<1> SUFFICES ASSUME EditorInv, AtRest, faults = 0, ~left PROVE ~saveError
  BY DEF QuietWhenMoved
<1>1. TreeTrue /\ ErrorTrue /\ OpenTrue
  BY DEF EditorInv, Calm
<1>2. ~Reading /\ ~Awaited(saves)
  BY DEF EditorInv, ReadsTrue, AtRest, Reading, Awaited
<1>3. open # None => open \in Requests
  BY DEF EditorInv, EditorType, FieldsType
<1>4. open # None => place[open] = col
  BY <1>1, <1>2, <1>3 DEF OpenTrue, TreeTrue
<1>5. QED
  BY <1>1, <1>2, <1>4 DEF ErrorTrue

\* The editor closes in no step but that which ends a task.
LEMMA ClosesGone == EditorInv /\ [Next]_vars => [open # None /\ open' = None => place[open] = None]_vars
<1> SUFFICES ASSUME EditorInv, [Next]_vars, open # None, open' = None PROVE place[open] = None
  OBVIOUS
<1>a. EditorType /\ ReadsTrue /\ OpenTrue
  BY DEF EditorInv
<1>1. CASE Type
  BY <1>1 DEF Type, Change, editorVars
<1>2. CASE Dismiss
  BY <1>2 DEF Dismiss, editorVars
<1>3. ASSUME NEW r \in Requests, Select(r) PROVE place[open] = None
  BY <1>3, Apart DEF Select, Load
<1>4. ASSUME NEW r \in Handled, AskDelete(r) PROVE place[open] = None
  BY <1>4 DEF AskDelete, Ask, editorVars
<1>5. ASSUME NEW r \in Handled, NEW p \in Places, AskMove(r, p) PROVE place[open] = None
  BY <1>5 DEF AskMove, Ask, editorVars
<1>6. ASSUME NEW c \in Cols, AskDrop(c) PROVE place[open] = None
  BY <1>6 DEF AskDrop, Ask, editorVars
<1>7. ASSUME NEW p \in Places, AskAdd(p) PROVE place[open] = None
  BY <1>7 DEF AskAdd, Ask, editorVars
<1>8. CASE AutoSave
  BY <1>8 DEF AutoSave, editorVars
<1>9. ASSUME NEW i \in DOMAIN saves, SaveArrives(i) PROVE place[open] = None
  BY <1>9 DEF SaveArrives, Fail, editorVars
<1>10. ASSUME NEW i \in DOMAIN saves, SaveStored(i) PROVE place[open] = None
  BY <1>10 DEF SaveStored, editorVars
<1>11. ASSUME NEW i \in DOMAIN saves, SaveRefused(i) PROVE place[open] = None
  BY <1>11 DEF SaveRefused, editorVars
<1>12. CASE Begin
  BY <1>12 DEF Begin, editorVars
<1>13. CASE CallSucceeds
  BY <1>13 DEF CallSucceeds, editorVars
<1>14. CASE CallFails
  BY <1>14 DEF CallFails, EndTask, Fail, editorVars
<1>15. CASE ReadCols
  BY <1>15 DEF ReadCols, editorVars
<1>16. CASE ReadRoots
  BY <1>16 DEF ReadRoots, editorVars
<1>17. CASE ReadLayout
  BY <1>17, <1>a, LayoutRead DEF editorVars, Relocate
<1>18. CASE ReadFails
  BY <1>18 DEF ReadFails, EndTask, Fail, editorVars
<1>19. CASE UNCHANGED vars
  BY <1>19 DEF vars, editorVars
<1> QED
  BY <1>1, <1>2, <1>3, <1>4, <1>5, <1>6, <1>7, <1>8, <1>9, <1>10, <1>11, <1>12,
     <1>13, <1>14, <1>15, <1>16, <1>17, <1>18, <1>19
     DEF Next, User, SaveGoesOn, TaskGoesOn
----------------------------------------------------------------------------
\* The inductive invariant of the editor.
THEOREM EditorInvHolds == Spec => []EditorInv
BY EditorInit, EditorStep, PTL DEF Spec

\* What the editor shows is what is stored, or the failed save was notified,
\* also when the request was moved while its save was on the way
\* (request.ts:350-372).
THEOREM AlwaysSavedOrSaid == Spec => []SavedOrSaid
BY EditorInvHolds, AtRestSaved, PTL

\* Moving or deleting the open request leaves no error behind, although saves
\* to its old place fail meanwhile (request.ts:122-126, 354-372).
THEOREM AlwaysQuietWhenMoved == Spec => []QuietWhenMoved
BY EditorInvHolds, AtRestQuiet, PTL

\* A request closes only when it was deleted: the tree is read in three calls,
\* but by one task at a time, and no place changes between them
\* (collections.ts:162-175, active-request.ts:29-46).
THEOREM AlwaysClosesWhenGone == Spec => ClosesWhenGone
BY EditorInvHolds, ClosesGone, PTL DEF Spec, ClosesWhenGone
-----------------------------------------------------------------------------
(* The responses.                                                          *)

Export ==
    [of : Sends, at : {"memory", "asked", "dialog", "saved", "unavailable", "failed", "cancelled"}]

ResponseType ==
    /\ exec \in [Sends -> {"none", "running", "answered", "over"}]
    /\ answer \in [Sends -> {"error", "text", "binary", "cut"}]
    /\ file \in [Sends -> {"none", "ready", "saving", "gone"}]
    /\ view \in Nat
    /\ sentView \in [Sends -> Nat]
    /\ inFlight \in SUBSET Sends
    /\ current \in Sends \cup {NoResponse, Refusal}
    /\ saveState \in {"idle", "saved", "unavailable"}
    /\ exports \in Seq(Export)
    /\ discards \in SUBSET Sends
    /\ choice \in Sends \cup {NoResponse, Refusal}
    /\ exported \in SUBSET Sends
    /\ chosen \in SUBSET Sends
    /\ kept \in SUBSET Sends

\* The response shown has been settled, for the request that is open.
ShownTrue == current \in Sends => exec[current] = "over" /\ sentView[current] = view

\* Only a response that was cut off has a file, and one that was saved has
\* it no more.
FileTrue ==
    /\ \A x \in Sends : file[x] \in {"ready", "saving"} => answer[x] = "cut"
    /\ \A x \in exported : exec[x] = "over" /\ file[x] = "gone"

StateTrue ==
    /\ saveState = "saved" => current \in exported
    /\ saveState = "unavailable" => Cut(current) /\ file[current] = "gone"

ChoiceTrue == choice \in Sends => choice \in chosen

\* How far a save is says what has become of the file: the one whose dialog is
\* open holds the lease.
ExportTrue(e) ==
    e.at # "memory" =>
        /\ exec[e.of] = "over" /\ answer[e.of] = "cut"
        /\ e.at = "dialog" => file[e.of] = "saving"
        /\ e.at = "saved" => e.of \in exported
        /\ e.at = "unavailable" => file[e.of] = "gone"
OneLease ==
    \A i, j \in DOMAIN exports :
        exports[i].at = "dialog" /\ exports[j].at = "dialog" /\ exports[i].of = exports[j].of => i = j
ExportsTrue == OneLease /\ \A i \in DOMAIN exports : ExportTrue(exports[i])

\* A file is followed while it is being saved, too: the save may come to nothing.
Followed(x) ==
    \/ current = x /\ saveState = "idle"
    \/ x \in discards \cup kept
StillFollowed ==
    \A x \in Sends : exec[x] = "over" /\ file[x] \in {"ready", "saving"} => Followed(x)

ResponseInv ==
    /\ ResponseType /\ ShownTrue /\ FileTrue /\ StateTrue
    /\ ChoiceTrue /\ ExportsTrue /\ StillFollowed
----------------------------------------------------------------------------
\* One of the saves goes on.
LEMMA ExportMoves ==
  ASSUME ResponseType, NEW i \in DOMAIN exports, NEW from, NEW to, At(i, from, to),
         to \in {"dialog", "saved", "unavailable", "failed", "cancelled"}
  PROVE  /\ exports' \in Seq(Export)
         /\ DOMAIN exports' = DOMAIN exports
         /\ exports[i] \in Export
         /\ exports[i].at = from
         /\ exports'[i].of = exports[i].of /\ exports'[i].at = to
         /\ \A j \in DOMAIN exports : j # i => exports'[j] = exports[j]
<1>1. exports \in Seq(Export) /\ DOMAIN exports = 1..Len(exports) /\ exports[i] \in Export
  BY LenProperties, ElementOfSeq DEF ResponseType
<1>2. [exports[i] EXCEPT !.at = to] \in Export
  BY <1>1 DEF Export
<1>3. exports' = [exports EXCEPT ![i] = [exports[i] EXCEPT !.at = to]]
  BY DEF At
<1>4. exports' \in Seq(Export)
  BY <1>1, <1>2, <1>3, ExceptSeq
<1>5. QED
  BY <1>1, <1>2, <1>3, <1>4 DEF At, Export

\* One of the saves ends.
LEMMA ExportLeaves ==
  ASSUME ResponseType, NEW i \in DOMAIN exports, ForgetFile(i)
  PROVE  /\ exports' \in Seq(Export)
         /\ \A j \in DOMAIN exports' : \E m \in DOMAIN exports : exports'[j] = exports[m]
         /\ OneLease => OneLease'
<1> DEFINE n == Len(exports)
           from(j) == IF j < i THEN j ELSE j + 1
<1>1. exports \in Seq(Export) /\ n \in Nat /\ DOMAIN exports = 1..n /\ i \in 1..n
  BY LenProperties DEF ResponseType
<1>2. /\ exports' \in Seq(Export)
      /\ DOMAIN exports' = 1..(n - 1)
      /\ \A j \in 1..(n - 1) : exports'[j] = exports[from(j)]
  <2>1. exports' = RemoveAt(exports, i)
    BY DEF ForgetFile
  <2>2. /\ RemoveAt(exports, i) \in Seq(Export)
        /\ DOMAIN RemoveAt(exports, i) = 1..(Len(exports) - 1)
        /\ \A j \in 1..(Len(exports) - 1) :
              RemoveAt(exports, i)[j] = IF j < i THEN exports[j] ELSE exports[j + 1]
    BY <1>1, RemoveAtKeeps
  <2>3. QED
    BY <2>1, <2>2
<1>3. \A j \in 1..(n - 1) : from(j) \in 1..n
  BY <1>1
<1>4. \A j, m \in 1..(n - 1) : from(j) = from(m) => j = m
  BY <1>1
<1> HIDE DEF n, from
<1>5. ASSUME OneLease PROVE OneLease'
  <2>1. \A j, m \in 1..(n - 1) :
           exports[from(j)].at = "dialog" /\ exports[from(m)].at = "dialog"
           /\ exports[from(j)].of = exports[from(m)].of => from(j) = from(m)
    BY <1>1, <1>3, <1>5 DEF OneLease
  <2>2. QED
    BY <1>2, <1>4, <2>1 DEF OneLease
<1>6. QED
  BY <1>1, <1>2, <1>3, <1>5

\* A save begins.
LEMMA ExportBegins ==
  ASSUME ResponseType, ClickSave
  PROVE  LET e == [of |-> current, at |-> IF Cut(current) THEN "asked" ELSE "memory"] IN
         /\ e \in Export
         /\ exports' \in Seq(Export)
         /\ \A j \in DOMAIN exports' :
               (j \in DOMAIN exports /\ exports'[j] = exports[j]) \/ exports'[j] = e
<1> DEFINE e == [of |-> current, at |-> IF Cut(current) THEN "asked" ELSE "memory"]
<1>1. current \in Sends
  BY DEF ClickSave, OffersSave, Cut
<1>2. e \in Export
  BY <1>1 DEF Export
<1>3. exports' = Append(exports, e) /\ exports \in Seq(Export)
  BY DEF ClickSave, ResponseType
<1> HIDE DEF e
<1>4. /\ exports' \in Seq(Export) /\ DOMAIN exports = 1..Len(exports)
      /\ Len(exports') = Len(exports) + 1 /\ DOMAIN exports' = 1..Len(exports')
      /\ \A j \in 1..Len(exports) : exports'[j] = exports[j]
      /\ exports'[Len(exports) + 1] = e
  BY <1>2, <1>3, AppendProperties, LenProperties
<1>5. Len(exports) \in Nat
  BY <1>3, LenProperties
<1>6. \A j \in DOMAIN exports' : j \in DOMAIN exports \/ j = Len(exports) + 1
  BY <1>4, <1>5
<1>7. QED
  BY <1>2, <1>4, <1>6 DEF e
----------------------------------------------------------------------------
\* At the start nothing was sent.
LEMMA ResponseInitInv == ResponsesInit => ResponseInv
<1> SUFFICES ASSUME ResponsesInit PROVE ResponseInv
  OBVIOUS
<1>1. NoResponse \notin Sends /\ Refusal \notin Sends
  BY NoneIsNoSend, BoundsNat DEF Sends, Refusal
<1>2. ResponseType
  <2>1. /\ exec \in [Sends -> {"none", "running", "answered", "over"}]
        /\ answer \in [Sends -> {"error", "text", "binary", "cut"}]
        /\ file \in [Sends -> {"none", "ready", "saving", "gone"}]
        /\ sentView \in [Sends -> Nat] /\ view \in Nat
    BY DEF ResponsesInit
  <2>2. exports \in Seq(Export)
    BY EmptySeq DEF ResponsesInit
  <2>3. /\ inFlight \in SUBSET Sends /\ discards \in SUBSET Sends /\ exported \in SUBSET Sends
        /\ chosen \in SUBSET Sends /\ kept \in SUBSET Sends
        /\ current \in Sends \cup {NoResponse, Refusal} /\ choice \in Sends \cup {NoResponse, Refusal}
        /\ saveState \in {"idle", "saved", "unavailable"}
    BY Zenon DEF ResponsesInit
  <2>4. QED
    BY <2>1, <2>2, <2>3 DEF ResponseType
<1>3. ShownTrue /\ FileTrue /\ StateTrue /\ ChoiceTrue
  BY <1>1 DEF ResponsesInit, ShownTrue, FileTrue, StateTrue, ChoiceTrue
<1>4. ExportsTrue /\ StillFollowed
  BY DEF ResponsesInit, ExportsTrue, OneLease, StillFollowed
<1>5. QED
  BY <1>2, <1>3, <1>4 DEF ResponseInv

\* What the constants say of the responses.
LEMMA NoSends == NoResponse \notin Sends /\ Refusal \notin Sends
BY NoneIsNoSend, BoundsNat DEF Sends, Refusal

\* replaceResponse takes back no file but that of a response that was cut off.
LEMMA ReplaceType ==
  ASSUME ResponseType, NEW next \in Sends \cup {NoResponse, Refusal}, NEW more \in SUBSET Sends,
         Replace(next, more)
  PROVE  /\ current' \in Sends \cup {NoResponse, Refusal}
         /\ saveState' \in {"idle", "saved", "unavailable"}
         /\ discards' \in SUBSET Sends
         /\ choice' = choice
BY DEF Replace, ResponseType, Cut

\* Every step keeps the types.
LEMMA ResponseTypeStep == ResponseType /\ [ResponsesNext]_responseVars => ResponseType'
<1> SUFFICES ASSUME ResponseType, [ResponsesNext]_responseVars PROVE ResponseType'
  OBVIOUS
<1> USE DEF ResponseType, answerVars, shownVars, responseHistory
<1>1. CASE OpenOther
  <2>1. /\ current' \in Sends \cup {NoResponse, Refusal} /\ choice' = choice
        /\ saveState' \in {"idle", "saved", "unavailable"} /\ discards' \in SUBSET Sends
    BY <1>1, ReplaceType DEF OpenOther
  <2>2. QED
    BY <1>1, <2>1 DEF OpenOther
<1>2. CASE EditFile
  BY <1>2 DEF EditFile
<1>3. CASE SendRefused
  BY <1>3, ReplaceType DEF SendRefused
<1>4. CASE ShowBody
  BY <1>4 DEF ShowBody, OffersBody, Cut
<1>5. CASE ToggleViewer
  BY <1>5 DEF ToggleViewer
<1>6. CASE ClickSave
  <2>1. exports' \in Seq(Export)
    BY <1>6, ExportBegins DEF ResponseType
  <2>2. QED
    BY <1>6, <2>1 DEF ClickSave
<1>7. ASSUME NEW x \in Sends, Send(x) PROVE ResponseType'
  BY <1>7, ReplaceType DEF Send
<1>8. ASSUME NEW x \in Sends, NEW what \in {"error", "text", "binary", "cut"}, Respond(x, what) PROVE ResponseType'
  BY <1>8 DEF Respond
<1>9. ASSUME NEW x \in Sends, Settle(x) PROVE ResponseType'
  <2>1. /\ current' \in Sends \cup {NoResponse, Refusal} /\ choice' = choice
        /\ saveState' \in {"idle", "saved", "unavailable"} /\ discards' \in SUBSET Sends
    BY <1>9, ReplaceType DEF Settle, Show
  <2>2. QED
    BY <1>9, <2>1 DEF Settle
<1>10. ASSUME NEW x \in Sends, DiscardArrives(x) PROVE ResponseType'
  BY <1>10 DEF DiscardArrives
<1>11. ASSUME NEW x \in Sends, Reclaim(x) PROVE ResponseType'
  BY <1>11 DEF Reclaim
<1>12. ASSUME NEW i \in DOMAIN exports, SaveFromMemory(i) PROVE ResponseType'
  <2>1. exports' \in Seq(Export)
    BY <1>12, ExportLeaves DEF SaveFromMemory
  <2>2. QED
    BY <1>12, <2>1 DEF SaveFromMemory
<1>13. ASSUME NEW i \in DOMAIN exports, Acquire(i) PROVE ResponseType'
  <2>1. exports' \in Seq(Export)
    BY <1>13, ExportMoves DEF Acquire
  <2>2. exports[i].of \in Sends
    BY <1>13, ExportMoves DEF Acquire, Export
  <2>3. file' \in [Sends -> {"none", "ready", "saving", "gone"}]
    BY <1>13, <2>2 DEF Acquire
  <2>4. QED
    BY <1>13, <2>1, <2>3 DEF Acquire
<1>14. ASSUME NEW i \in DOMAIN exports, Copy(i) PROVE ResponseType'
  <2>1. exports' \in Seq(Export)
    BY <1>14, ExportMoves DEF Copy
  <2>2. exports[i].of \in Sends
    BY <1>14, ExportMoves DEF Copy, Export
  <2>3. QED
    BY <1>14, <2>1, <2>2 DEF Copy
<1>15. ASSUME NEW i \in DOMAIN exports, SaveEnds(i) PROVE ResponseType'
  <2>1. exports' \in Seq(Export)
    BY <1>15, ExportLeaves DEF SaveEnds
  <2>2. saveState' \in {"idle", "saved", "unavailable"}
    BY <1>15 DEF SaveEnds, NewState
  <2>3. QED
    BY <1>15, <2>1, <2>2 DEF SaveEnds
<1>16. ASSUME NEW i \in DOMAIN exports, NEW how \in {"cancelled", "failed"}, NotCopied(i, how) PROVE ResponseType'
  <2>1. exports' \in Seq(Export)
    BY <1>16, ExportMoves DEF NotCopied
  <2>2. exports[i].of \in Sends
    BY <1>16, ExportMoves DEF NotCopied, Export
  <2>3. QED
    BY <1>16, <2>1, <2>2 DEF NotCopied
<1>17. CASE UNCHANGED responseVars
  BY <1>17 DEF responseVars
<1> QED
  BY <1>1, <1>2, <1>3, <1>4, <1>5, <1>6, <1>7, <1>8, <1>9, <1>10, <1>11, <1>12,
     <1>13, <1>14, <1>15, <1>16, <1>17
     DEF ResponsesNext, ResponseUser, Execution, ExportGoesOn

\* What is known of the saves.
LEMMA ExportKnown ==
  ResponseInv => \A i \in DOMAIN exports :
                    exports[i] \in Export /\ exports[i].of \in Sends /\ ExportTrue(exports[i])
<1> SUFFICES ASSUME ResponseInv, NEW i \in DOMAIN exports
             PROVE  exports[i] \in Export /\ exports[i].of \in Sends /\ ExportTrue(exports[i])
  OBVIOUS
<1>1. exports[i] \in Export
  BY LenProperties, ElementOfSeq DEF ResponseInv, ResponseType
<1>2. QED
  BY <1>1 DEF ResponseInv, ExportsTrue, Export

\* The response shown belongs to the request that is open: showResponse
\* compares, and whoever opens another request takes it away.
LEMMA ShownStep == ResponseType /\ ShownTrue /\ [ResponsesNext]_responseVars => ShownTrue'
<1> SUFFICES ASSUME ResponseType, ShownTrue, [ResponsesNext]_responseVars PROVE ShownTrue'
  OBVIOUS
<1> USE NoSends DEF ResponseType, ShownTrue, answerVars, shownVars, responseHistory
<1>1. CASE OpenOther
  BY <1>1 DEF OpenOther, Replace
<1>2. CASE EditFile
  BY <1>2 DEF EditFile
<1>3. CASE SendRefused
  BY <1>3 DEF SendRefused, Replace
<1>4. CASE ShowBody
  BY <1>4 DEF ShowBody
<1>5. CASE ToggleViewer
  BY <1>5 DEF ToggleViewer
<1>6. CASE ClickSave
  BY <1>6 DEF ClickSave, OffersSave
<1>7. ASSUME NEW x \in Sends, Send(x) PROVE ShownTrue'
  BY <1>7 DEF Send, Replace
<1>8. ASSUME NEW x \in Sends, NEW what \in {"error", "text", "binary", "cut"}, Respond(x, what) PROVE ShownTrue'
  BY <1>8 DEF Respond
<1>9. ASSUME NEW x \in Sends, Settle(x) PROVE ShownTrue'
  BY <1>9 DEF Settle, Show, Replace
<1>10. ASSUME NEW x \in Sends, DiscardArrives(x) PROVE ShownTrue'
  BY <1>10 DEF DiscardArrives
<1>11. ASSUME NEW x \in Sends, Reclaim(x) PROVE ShownTrue'
  BY <1>11 DEF Reclaim
<1>12. ASSUME NEW i \in DOMAIN exports, SaveFromMemory(i) PROVE ShownTrue'
  BY <1>12 DEF SaveFromMemory, ForgetFile
<1>13. ASSUME NEW i \in DOMAIN exports, Acquire(i) PROVE ShownTrue'
  BY <1>13 DEF Acquire, At
<1>14. ASSUME NEW i \in DOMAIN exports, Copy(i) PROVE ShownTrue'
  BY <1>14 DEF Copy, At
<1>15. ASSUME NEW i \in DOMAIN exports, SaveEnds(i) PROVE ShownTrue'
  BY <1>15 DEF SaveEnds, ForgetFile, NewState
<1>16. ASSUME NEW i \in DOMAIN exports, NEW how \in {"cancelled", "failed"}, NotCopied(i, how) PROVE ShownTrue'
  BY <1>16 DEF NotCopied, At
<1>17. CASE UNCHANGED responseVars
  BY <1>17 DEF responseVars
<1> QED
  BY <1>1, <1>2, <1>3, <1>4, <1>5, <1>6, <1>7, <1>8, <1>9, <1>10, <1>11, <1>12,
     <1>13, <1>14, <1>15, <1>16, <1>17
     DEF ResponsesNext, ResponseUser, Execution, ExportGoesOn

\* Nobody touches the file of a response but its saves, its discards and the
\* limits of the store.
LEMMA FileStep == ResponseInv /\ [ResponsesNext]_responseVars => FileTrue'
<1> SUFFICES ASSUME ResponseInv, [ResponsesNext]_responseVars PROVE FileTrue'
  OBVIOUS
<1> USE DEF FileTrue, answerVars, shownVars, responseHistory
<1>a. ResponseType /\ FileTrue
  BY DEF ResponseInv
<1>b. /\ exec \in [Sends -> {"none", "running", "answered", "over"}]
      /\ answer \in [Sends -> {"error", "text", "binary", "cut"}]
      /\ file \in [Sends -> {"none", "ready", "saving", "gone"}]
      /\ exported \in SUBSET Sends
  BY <1>a DEF ResponseType
<1>c. \A i \in DOMAIN exports : exports[i].of \in Sends /\ ExportTrue(exports[i])
  BY ExportKnown
<1>1. CASE OpenOther
  BY <1>1, <1>a, <1>b DEF OpenOther, Replace
<1>2. CASE EditFile
  BY <1>2, <1>a, <1>b DEF EditFile
<1>3. CASE SendRefused
  BY <1>3, <1>a, <1>b DEF SendRefused, Replace
<1>4. CASE ShowBody
  BY <1>4, <1>a, <1>b DEF ShowBody
<1>5. CASE ToggleViewer
  BY <1>5, <1>a, <1>b DEF ToggleViewer
<1>6. CASE ClickSave
  BY <1>6, <1>a, <1>b DEF ClickSave, OffersSave
<1>7. ASSUME NEW x \in Sends, Send(x) PROVE FileTrue'
  BY <1>7, <1>a, <1>b DEF Send, Replace
<1>8. ASSUME NEW x \in Sends, NEW what \in {"error", "text", "binary", "cut"}, Respond(x, what) PROVE FileTrue'
  BY <1>8, <1>a, <1>b DEF Respond
<1>9. ASSUME NEW x \in Sends, Settle(x) PROVE FileTrue'
  BY <1>9, <1>a, <1>b DEF Settle, Show, Replace
<1>10. ASSUME NEW x \in Sends, DiscardArrives(x) PROVE FileTrue'
  BY <1>10, <1>a, <1>b DEF DiscardArrives
<1>11. ASSUME NEW x \in Sends, Reclaim(x) PROVE FileTrue'
  BY <1>11, <1>a, <1>b DEF Reclaim
<1>12. ASSUME NEW i \in DOMAIN exports, SaveFromMemory(i) PROVE FileTrue'
  BY <1>12, <1>a, <1>b DEF SaveFromMemory, ForgetFile
<1>13. ASSUME NEW i \in DOMAIN exports, Acquire(i) PROVE FileTrue'
  BY <1>13, <1>a, <1>b, <1>c DEF Acquire, At
<1>14. ASSUME NEW i \in DOMAIN exports, Copy(i) PROVE FileTrue'
  <2>1. exports[i].of \in Sends /\ exports[i].at = "dialog" /\ exec[exports[i].of] = "over"
    BY <1>14, <1>c DEF Copy, At, ExportTrue
  <2>2. QED
    BY <1>14, <1>a, <1>b, <2>1 DEF Copy
<1>15. ASSUME NEW i \in DOMAIN exports, SaveEnds(i) PROVE FileTrue'
  BY <1>15, <1>a, <1>b DEF SaveEnds, ForgetFile, NewState
<1>16. ASSUME NEW i \in DOMAIN exports, NEW how \in {"cancelled", "failed"}, NotCopied(i, how) PROVE FileTrue'
  <2>1. /\ exports[i].of \in Sends /\ exports[i].at = "dialog"
        /\ file[exports[i].of] = "saving" /\ answer[exports[i].of] = "cut"
    BY <1>16, <1>c DEF NotCopied, At, ExportTrue
  <2>2. QED
    BY <1>16, <1>a, <1>b, <2>1 DEF NotCopied
<1>17. CASE UNCHANGED responseVars
  BY <1>17, <1>a, <1>b DEF responseVars
<1> QED
  BY <1>1, <1>2, <1>3, <1>4, <1>5, <1>6, <1>7, <1>8, <1>9, <1>10, <1>11, <1>12,
     <1>13, <1>14, <1>15, <1>16, <1>17
     DEF ResponsesNext, ResponseUser, Execution, ExportGoesOn

\* The viewer believes an answer only while it shows the response it is about.
LEMMA StateStep == ResponseInv /\ [ResponsesNext]_responseVars => StateTrue'
<1> SUFFICES ASSUME ResponseInv, [ResponsesNext]_responseVars PROVE StateTrue'
  OBVIOUS
<1> USE DEF StateTrue, Cut, answerVars, shownVars, responseHistory
<1>a. ResponseType /\ ShownTrue /\ FileTrue /\ StateTrue
  BY DEF ResponseInv
<1>b. /\ exec \in [Sends -> {"none", "running", "answered", "over"}]
      /\ answer \in [Sends -> {"error", "text", "binary", "cut"}]
      /\ file \in [Sends -> {"none", "ready", "saving", "gone"}]
      /\ exported \in SUBSET Sends
  BY <1>a DEF ResponseType
<1>c. \A i \in DOMAIN exports : exports[i].of \in Sends /\ ExportTrue(exports[i])
  BY ExportKnown
<1>1. CASE OpenOther
  BY <1>1, <1>a, <1>b DEF OpenOther, Replace
<1>2. CASE EditFile
  BY <1>2, <1>a, <1>b DEF EditFile
<1>3. CASE SendRefused
  BY <1>3, <1>a, <1>b DEF SendRefused, Replace
<1>4. CASE ShowBody
  BY <1>4, <1>a, <1>b DEF ShowBody
<1>5. CASE ToggleViewer
  BY <1>5, <1>a, <1>b DEF ToggleViewer
<1>6. CASE ClickSave
  BY <1>6, <1>a, <1>b DEF ClickSave, OffersSave
<1>7. ASSUME NEW x \in Sends, Send(x) PROVE StateTrue'
  BY <1>7, <1>a, <1>b DEF Send, Replace
<1>8. ASSUME NEW x \in Sends, NEW what \in {"error", "text", "binary", "cut"}, Respond(x, what) PROVE StateTrue'
  BY <1>8, <1>a, <1>b DEF Respond, ShownTrue
<1>9. ASSUME NEW x \in Sends, Settle(x) PROVE StateTrue'
  BY <1>9, <1>a, <1>b DEF Settle, Show, Replace
<1>10. ASSUME NEW x \in Sends, DiscardArrives(x) PROVE StateTrue'
  BY <1>10, <1>a, <1>b DEF DiscardArrives
<1>11. ASSUME NEW x \in Sends, Reclaim(x) PROVE StateTrue'
  BY <1>11, <1>a, <1>b DEF Reclaim
<1>12. ASSUME NEW i \in DOMAIN exports, SaveFromMemory(i) PROVE StateTrue'
  BY <1>12, <1>a, <1>b DEF SaveFromMemory, ForgetFile
<1>13. ASSUME NEW i \in DOMAIN exports, Acquire(i) PROVE StateTrue'
  BY <1>13, <1>a, <1>b DEF Acquire, At
<1>14. ASSUME NEW i \in DOMAIN exports, Copy(i) PROVE StateTrue'
  BY <1>14, <1>a, <1>b, <1>c DEF Copy, At
<1>15. ASSUME NEW i \in DOMAIN exports, SaveEnds(i) PROVE StateTrue'
  BY <1>15, <1>a, <1>c DEF SaveEnds, NewState, ExportTrue
<1>16. ASSUME NEW i \in DOMAIN exports, NEW how \in {"cancelled", "failed"}, NotCopied(i, how) PROVE StateTrue'
  <2>1. exports[i].of \in Sends /\ exports[i].at = "dialog" /\ file[exports[i].of] = "saving"
    BY <1>16, <1>c DEF NotCopied, At, ExportTrue
  <2>2. QED
    BY <1>16, <1>a, <1>b, <2>1 DEF NotCopied
<1>17. CASE UNCHANGED responseVars
  BY <1>17, <1>a, <1>b DEF responseVars
<1> QED
  BY <1>1, <1>2, <1>3, <1>4, <1>5, <1>6, <1>7, <1>8, <1>9, <1>10, <1>11, <1>12,
     <1>13, <1>14, <1>15, <1>16, <1>17
     DEF ResponsesNext, ResponseUser, Execution, ExportGoesOn

\* The viewer shows a body only when the user asked for it.
LEMMA ChoiceStep == ChoiceTrue /\ [ResponsesNext]_responseVars => ChoiceTrue'
<1> SUFFICES ASSUME ChoiceTrue, [ResponsesNext]_responseVars PROVE ChoiceTrue'
  OBVIOUS
<1> USE NoSends DEF ChoiceTrue, answerVars, shownVars, responseHistory
<1>1. CASE OpenOther
  BY <1>1 DEF OpenOther, Replace
<1>2. CASE EditFile
  BY <1>2 DEF EditFile
<1>3. CASE SendRefused
  BY <1>3 DEF SendRefused, Replace
<1>4. CASE ShowBody
  BY <1>4 DEF ShowBody
<1>5. CASE ToggleViewer
  BY <1>5 DEF ToggleViewer
<1>6. CASE ClickSave
  BY <1>6 DEF ClickSave, OffersSave
<1>7. ASSUME NEW x \in Sends, Send(x) PROVE ChoiceTrue'
  BY <1>7 DEF Send, Replace
<1>8. ASSUME NEW x \in Sends, NEW what \in {"error", "text", "binary", "cut"}, Respond(x, what) PROVE ChoiceTrue'
  BY <1>8 DEF Respond
<1>9. ASSUME NEW x \in Sends, Settle(x) PROVE ChoiceTrue'
  BY <1>9 DEF Settle, Show, Replace
<1>10. ASSUME NEW x \in Sends, DiscardArrives(x) PROVE ChoiceTrue'
  BY <1>10 DEF DiscardArrives
<1>11. ASSUME NEW x \in Sends, Reclaim(x) PROVE ChoiceTrue'
  BY <1>11 DEF Reclaim
<1>12. ASSUME NEW i \in DOMAIN exports, SaveFromMemory(i) PROVE ChoiceTrue'
  BY <1>12 DEF SaveFromMemory, ForgetFile
<1>13. ASSUME NEW i \in DOMAIN exports, Acquire(i) PROVE ChoiceTrue'
  BY <1>13 DEF Acquire, At
<1>14. ASSUME NEW i \in DOMAIN exports, Copy(i) PROVE ChoiceTrue'
  BY <1>14 DEF Copy, At
<1>15. ASSUME NEW i \in DOMAIN exports, SaveEnds(i) PROVE ChoiceTrue'
  BY <1>15 DEF SaveEnds, ForgetFile, NewState
<1>16. ASSUME NEW i \in DOMAIN exports, NEW how \in {"cancelled", "failed"}, NotCopied(i, how) PROVE ChoiceTrue'
  BY <1>16 DEF NotCopied, At
<1>17. CASE UNCHANGED responseVars
  BY <1>17 DEF responseVars
<1> QED
  BY <1>1, <1>2, <1>3, <1>4, <1>5, <1>6, <1>7, <1>8, <1>9, <1>10, <1>11, <1>12,
     <1>13, <1>14, <1>15, <1>16, <1>17
     DEF ResponsesNext, ResponseUser, Execution, ExportGoesOn

\* What was cut off is followed until it is saved, discarded or reclaimed.
LEMMA FollowedStep == ResponseInv /\ [ResponsesNext]_responseVars => StillFollowed'
<1> SUFFICES ASSUME ResponseInv, [ResponsesNext]_responseVars, NEW y \in Sends,
                    exec'[y] = "over", file'[y] \in {"ready", "saving"}
             PROVE  Followed(y)'
  BY DEF StillFollowed
<1> USE DEF Followed, Cut, answerVars, shownVars, responseHistory
<1>a. ResponseType /\ ShownTrue /\ FileTrue /\ StateTrue
  BY DEF ResponseInv
<1>b. /\ exec \in [Sends -> {"none", "running", "answered", "over"}]
      /\ answer \in [Sends -> {"error", "text", "binary", "cut"}]
      /\ file \in [Sends -> {"none", "ready", "saving", "gone"}]
      /\ saveState \in {"idle", "saved", "unavailable"}
  BY <1>a DEF ResponseType
<1>c. \A i \in DOMAIN exports : exports[i].of \in Sends /\ ExportTrue(exports[i])
  BY ExportKnown
<1>d. exec[y] = "over" /\ file[y] \in {"ready", "saving"} => Followed(y)
  BY DEF ResponseInv, StillFollowed
<1>e. file[y] \in {"ready", "saving"} => answer[y] = "cut" /\ y \notin exported
  BY <1>a DEF FileTrue
<1>f. current = y /\ file[y] \in {"ready", "saving"} => saveState = "idle"
  BY <1>a, <1>b, <1>e DEF StateTrue
<1>1. CASE OpenOther
  BY <1>1, NoSends, <1>d, <1>e, <1>f DEF OpenOther, Replace
<1>2. CASE EditFile
  BY <1>2, <1>b, <1>d, <1>e, <1>f DEF EditFile
<1>3. CASE SendRefused
  BY <1>3, NoSends, <1>d, <1>e, <1>f DEF SendRefused, Replace
<1>4. CASE ShowBody
  BY <1>4, <1>b, <1>d, <1>e, <1>f DEF ShowBody
<1>5. CASE ToggleViewer
  BY <1>5, <1>b, <1>d, <1>e, <1>f DEF ToggleViewer
<1>6. CASE ClickSave
  BY <1>6, <1>b, <1>d, <1>e, <1>f DEF ClickSave, OffersSave
<1>7. ASSUME NEW x \in Sends, Send(x) PROVE Followed(y)'
  BY <1>7, NoSends, <1>b, <1>d, <1>e, <1>f DEF Send, Replace
<1>8. ASSUME NEW x \in Sends, NEW what \in {"error", "text", "binary", "cut"}, Respond(x, what) PROVE Followed(y)'
  BY <1>8, <1>b, <1>d, <1>e, <1>f DEF Respond
<1>9. ASSUME NEW x \in Sends, Settle(x) PROVE Followed(y)'
  BY <1>9, <1>b, <1>d, <1>e, <1>f DEF Settle, Show, Replace
<1>10. ASSUME NEW x \in Sends, DiscardArrives(x) PROVE Followed(y)'
  BY <1>10, <1>b, <1>d, <1>e, <1>f DEF DiscardArrives
<1>11. ASSUME NEW x \in Sends, Reclaim(x) PROVE Followed(y)'
  BY <1>11, <1>b, <1>d, <1>e, <1>f DEF Reclaim
<1>12. ASSUME NEW i \in DOMAIN exports, SaveFromMemory(i) PROVE Followed(y)'
  BY <1>12, <1>b, <1>d, <1>e, <1>f DEF SaveFromMemory, ForgetFile
<1>13. ASSUME NEW i \in DOMAIN exports, Acquire(i) PROVE Followed(y)'
  BY <1>13, <1>b, <1>d, <1>e, <1>f DEF Acquire, At
<1>14. ASSUME NEW i \in DOMAIN exports, Copy(i) PROVE Followed(y)'
  BY <1>14, <1>b, <1>c, <1>d DEF Copy, At
<1>15. ASSUME NEW i \in DOMAIN exports, SaveEnds(i) PROVE Followed(y)'
  <2>1. exec[y] = "over" /\ file[y] \in {"ready", "saving"}
    BY <1>15 DEF SaveEnds
  <2>2. exports[i].of = y => exports[i].at \notin {"saved", "unavailable"}
    BY <1>c, <1>e, <2>1 DEF ExportTrue
  <2>3. QED
    BY <1>15, <1>d, <2>1, <2>2 DEF SaveEnds, NewState
<1>16. ASSUME NEW i \in DOMAIN exports, NEW how \in {"cancelled", "failed"}, NotCopied(i, how) PROVE Followed(y)'
  <2>1. exports[i].of \in Sends /\ exports[i].at = "dialog" /\ file[exports[i].of] = "saving"
    BY <1>16, <1>c DEF NotCopied, At, ExportTrue
  <2>2. exec[y] = "over" /\ file[y] \in {"ready", "saving"}
    BY <1>16, <1>b, <2>1 DEF NotCopied
  <2>3. QED
    BY <1>16, <1>d, <2>2 DEF NotCopied
<1>17. CASE UNCHANGED responseVars
  BY <1>17, <1>b, <1>d, <1>e, <1>f DEF responseVars
<1> QED
  BY <1>1, <1>2, <1>3, <1>4, <1>5, <1>6, <1>7, <1>8, <1>9, <1>10, <1>11, <1>12,
     <1>13, <1>14, <1>15, <1>16, <1>17
     DEF ResponsesNext, ResponseUser, Execution, ExportGoesOn

\* How far a save is stays true while others act on the store.
LEMMA ExportsStep == ResponseInv /\ [ResponsesNext]_responseVars => ExportsTrue'
<1> SUFFICES ASSUME ResponseInv, [ResponsesNext]_responseVars PROVE ExportsTrue'
  OBVIOUS
<1> USE DEF answerVars, shownVars, responseHistory
<1>a. ResponseType /\ ShownTrue /\ OneLease
  BY DEF ResponseInv, ExportsTrue
<1>b. /\ exec \in [Sends -> {"none", "running", "answered", "over"}]
      /\ answer \in [Sends -> {"error", "text", "binary", "cut"}]
      /\ file \in [Sends -> {"none", "ready", "saving", "gone"}]
  BY <1>a DEF ResponseType
<1>c. \A i \in DOMAIN exports :
         exports[i] \in Export /\ exports[i].of \in Sends /\ ExportTrue(exports[i])
  BY ExportKnown
<1>d. ASSUME exports' = exports, \A i \in DOMAIN exports : ExportTrue(exports[i])' PROVE ExportsTrue'
  BY <1>a, <1>d DEF ExportsTrue, OneLease
<1>e. ASSUME exports' = exports, exec' = exec, answer' = answer, file' = file, exported' = exported
      PROVE  ExportsTrue'
  BY <1>c, <1>d, <1>e DEF ExportTrue
<1>1. CASE OpenOther
  BY <1>1, <1>e DEF OpenOther, Replace
<1>2. CASE EditFile
  BY <1>2, <1>e DEF EditFile
<1>3. CASE SendRefused
  BY <1>3, <1>e DEF SendRefused, Replace
<1>4. CASE ShowBody
  BY <1>4, <1>e DEF ShowBody
<1>5. CASE ToggleViewer
  BY <1>5, <1>e DEF ToggleViewer
<1>6. CASE ClickSave
  <2>1. PICK e \in Export :
           /\ e = [of |-> current, at |-> IF Cut(current) THEN "asked" ELSE "memory"]
           /\ \A j \in DOMAIN exports' :
                 (j \in DOMAIN exports /\ exports'[j] = exports[j]) \/ exports'[j] = e
    BY <1>6, <1>a, ExportBegins
  <2>2. e.of = current /\ e.at # "dialog" /\ ExportTrue(e)'
    BY <1>6, <1>a, <2>1 DEF ClickSave, OffersSave, ExportTrue, Cut, ShownTrue
  <2>3. \A r \in Export : ExportTrue(r) => ExportTrue(r)'
    BY <1>6 DEF ClickSave, ExportTrue
  <2>4. OneLease'
    BY <1>a, <2>1, <2>2 DEF OneLease
  <2>5. ASSUME NEW j \in DOMAIN exports' PROVE ExportTrue(exports[j])'
    <3>1. CASE exports'[j] = e
      BY <2>2, <3>1 DEF ExportTrue
    <3>2. CASE j \in DOMAIN exports /\ exports'[j] = exports[j]
      <4>1. ExportTrue(exports[j]) /\ exports[j] \in Export
        BY <1>c, <3>2
      <4>2. QED
        BY <2>3, <3>2, <4>1 DEF ExportTrue
    <3>3. QED
      BY <2>1, <3>1, <3>2
  <2>6. QED
    BY <2>4, <2>5 DEF ExportsTrue
<1>7. ASSUME NEW x \in Sends, Send(x) PROVE ExportsTrue'
  BY <1>7, <1>b, <1>c, <1>d DEF Send, ExportTrue
<1>8. ASSUME NEW x \in Sends, NEW what \in {"error", "text", "binary", "cut"}, Respond(x, what) PROVE ExportsTrue'
  BY <1>8, <1>b, <1>c, <1>d DEF Respond, ExportTrue
<1>9. ASSUME NEW x \in Sends, Settle(x) PROVE ExportsTrue'
  BY <1>9, <1>b, <1>c, <1>d DEF Settle, ExportTrue
<1>10. ASSUME NEW x \in Sends, DiscardArrives(x) PROVE ExportsTrue'
  BY <1>10, <1>b, <1>c, <1>d DEF DiscardArrives, ExportTrue
<1>11. ASSUME NEW x \in Sends, Reclaim(x) PROVE ExportsTrue'
  BY <1>11, <1>b, <1>c, <1>d DEF Reclaim, ExportTrue
<1>12. ASSUME NEW i \in DOMAIN exports, SaveFromMemory(i) PROVE ExportsTrue'
  <2>1. \A j \in DOMAIN exports' : \E m \in DOMAIN exports : exports'[j] = exports[m]
    BY <1>12, <1>a, ExportLeaves DEF SaveFromMemory
  <2>2. OneLease'
    BY <1>12, <1>a, ExportLeaves DEF SaveFromMemory
  <2>3. \A r \in Export : ExportTrue(r) => ExportTrue(r)'
    BY <1>12 DEF SaveFromMemory, ExportTrue
  <2>4. ASSUME NEW j \in DOMAIN exports' PROVE ExportTrue(exports[j])'
    <3>1. PICK m \in DOMAIN exports : exports'[j] = exports[m]
      BY <2>1
    <3>2. ExportTrue(exports[m])
      BY <1>c
    <3>3. exports[m] \in Export
      BY <1>c
    <3>4. QED
      BY <2>3, <3>1, <3>2, <3>3 DEF ExportTrue
  <2>5. QED
    BY <2>2, <2>4 DEF ExportsTrue
<1>13. ASSUME NEW i \in DOMAIN exports, Acquire(i) PROVE ExportsTrue'
  <2> DEFINE x == exports[i].of
  <2>1. PICK to \in {"dialog", "unavailable", "failed"} :
           /\ At(i, "asked", to)
           /\ to = "dialog" => file[x] = "ready" /\ file' = [file EXCEPT ![x] = "saving"]
           /\ to = "unavailable" => file[x] = "gone" /\ file' = file
           /\ to = "failed" => file' = file
    BY <1>13 DEF Acquire
  <2>2. /\ DOMAIN exports' = DOMAIN exports
        /\ exports'[i].of = x /\ exports'[i].at = to /\ exports[i].at = "asked"
        /\ \A j \in DOMAIN exports : j # i => exports'[j] = exports[j]
    BY <1>a, <2>1, ExportMoves
  <2>3. exec' = exec /\ answer' = answer /\ exported' = exported
    BY <1>13 DEF Acquire
  <2>4. x \in Sends /\ exec[x] = "over" /\ answer[x] = "cut"
    BY <1>c, <2>2 DEF ExportTrue
  <2>5. ExportTrue(exports[i])'
    BY <1>b, <2>1, <2>2, <2>3, <2>4 DEF ExportTrue
  <2>6. \A j \in DOMAIN exports : j # i => ExportTrue(exports[j])'
    BY <1>b, <1>c, <2>1, <2>2, <2>3, <2>4 DEF ExportTrue
  <2>7. \A j \in DOMAIN exports : j # i /\ exports[j].at = "dialog" /\ exports[j].of = x => to # "dialog"
    BY <1>c, <2>1 DEF ExportTrue
  <2>8. OneLease'
    BY <1>a, <2>2, <2>7 DEF OneLease
  <2>9. QED
    BY <2>2, <2>5, <2>6, <2>8 DEF ExportsTrue
<1>14. ASSUME NEW i \in DOMAIN exports, Copy(i) PROVE ExportsTrue'
  <2> DEFINE x == exports[i].of
  <2>1. /\ DOMAIN exports' = DOMAIN exports
        /\ exports'[i].of = x /\ exports'[i].at = "saved" /\ exports[i].at = "dialog"
        /\ \A j \in DOMAIN exports : j # i => exports'[j] = exports[j]
    BY <1>14, <1>a, ExportMoves DEF Copy
  <2>2. x \in Sends /\ exec[x] = "over" /\ answer[x] = "cut"
    BY <1>c, <2>1 DEF ExportTrue
  <2>3. \A j \in DOMAIN exports : j # i /\ exports[j].at = "dialog" => exports[j].of # x
    BY <1>a, <2>1 DEF OneLease
  <2>4. ExportTrue(exports[i])'
    BY <1>14, <2>1, <2>2 DEF Copy, ExportTrue
  <2>5. \A j \in DOMAIN exports : j # i => ExportTrue(exports[j])'
    BY <1>14, <1>b, <1>c, <2>1, <2>2, <2>3 DEF Copy, ExportTrue
  <2>6. OneLease'
    BY <1>a, <2>1 DEF OneLease
  <2>7. QED
    BY <2>1, <2>4, <2>5, <2>6 DEF ExportsTrue
<1>15. ASSUME NEW i \in DOMAIN exports, SaveEnds(i) PROVE ExportsTrue'
  <2>1. \A j \in DOMAIN exports' : \E m \in DOMAIN exports : exports'[j] = exports[m]
    BY <1>15, <1>a, ExportLeaves DEF SaveEnds
  <2>2. OneLease'
    BY <1>15, <1>a, ExportLeaves DEF SaveEnds
  <2>3. \A r \in Export : ExportTrue(r) => ExportTrue(r)'
    BY <1>15 DEF SaveEnds, ExportTrue
  <2>4. ASSUME NEW j \in DOMAIN exports' PROVE ExportTrue(exports[j])'
    <3>1. PICK m \in DOMAIN exports : exports'[j] = exports[m]
      BY <2>1
    <3>2. ExportTrue(exports[m])
      BY <1>c
    <3>3. exports[m] \in Export
      BY <1>c
    <3>4. QED
      BY <2>3, <3>1, <3>2, <3>3 DEF ExportTrue
  <2>5. QED
    BY <2>2, <2>4 DEF ExportsTrue
<1>16. ASSUME NEW i \in DOMAIN exports, NEW how \in {"cancelled", "failed"}, NotCopied(i, how) PROVE ExportsTrue'
  <2> DEFINE x == exports[i].of
  <2>1. /\ DOMAIN exports' = DOMAIN exports
        /\ exports'[i].of = x /\ exports'[i].at = how /\ exports[i].at = "dialog"
        /\ \A j \in DOMAIN exports : j # i => exports'[j] = exports[j]
    BY <1>16, <1>a, ExportMoves DEF NotCopied
  <2>2. x \in Sends /\ exec[x] = "over" /\ answer[x] = "cut" /\ file[x] = "saving"
    BY <1>c, <2>1 DEF ExportTrue
  <2>3. \A j \in DOMAIN exports : j # i /\ exports[j].at = "dialog" => exports[j].of # x
    BY <1>a, <2>1 DEF OneLease
  <2>4. ExportTrue(exports[i])'
    BY <1>16, <2>1, <2>2 DEF NotCopied, ExportTrue
  <2>5. \A j \in DOMAIN exports : j # i => ExportTrue(exports[j])'
    BY <1>16, <1>b, <1>c, <2>1, <2>2, <2>3 DEF NotCopied, ExportTrue
  <2>6. OneLease'
    BY <1>a, <2>1 DEF OneLease
  <2>7. QED
    BY <2>1, <2>4, <2>5, <2>6 DEF ExportsTrue
<1>17. CASE UNCHANGED responseVars
  BY <1>17, <1>e DEF responseVars
<1> QED
  BY <1>1, <1>2, <1>3, <1>4, <1>5, <1>6, <1>7, <1>8, <1>9, <1>10, <1>11, <1>12,
     <1>13, <1>14, <1>15, <1>16, <1>17
     DEF ResponsesNext, ResponseUser, Execution, ExportGoesOn

\* The conjuncts of ResponseInv together are inductive.
LEMMA ResponseStep == ResponseInv /\ [ResponsesNext]_responseVars => ResponseInv'
<1> SUFFICES ASSUME ResponseInv, [ResponsesNext]_responseVars PROVE ResponseInv'
  OBVIOUS
<1>1. ResponseType' /\ ShownTrue' /\ ChoiceTrue'
  BY ResponseTypeStep, ShownStep, ChoiceStep DEF ResponseInv
<1>2. FileTrue' /\ StateTrue' /\ ExportsTrue' /\ StillFollowed'
  BY FileStep, StateStep, ExportsStep, FollowedStep
<1>3. QED
  BY <1>1, <1>2 DEF ResponseInv

\* The editor's steps leave the response alone.
LEMMA PanelStep == [PanelNext]_panelVars => [ResponsesNext]_responseVars
<1> SUFFICES ASSUME [PanelNext]_panelVars PROVE [ResponsesNext]_responseVars
  OBVIOUS
<1>1. CASE UNCHANGED panelVars
  BY <1>1 DEF panelVars
<1>2. CASE PanelNext
  BY <1>2 DEF PanelNext
<1>3. QED
  BY <1>1, <1>2

\* The inductive invariant of the responses.
THEOREM ResponseInvHolds == PanelSpec => []ResponseInv
<1>1. PanelInit => ResponseInv
  BY ResponseInitInv DEF PanelInit
<1>2. ResponseInv /\ [PanelNext]_panelVars => ResponseInv'
  BY ResponseStep, PanelStep
<1>3. QED
  BY <1>1, <1>2, PTL DEF PanelSpec

\* The response shown was sent from the request that is open, what the viewer
\* says of its file is true, and it can be saved until its body was asked for
\* (request.ts:202-209 and 293-297, response-viewer.tsx:43-50).
THEOREM ViewerAlwaysTrue == PanelSpec => []ViewerTrue
<1>1. ResponseInv => ViewerTrue
  BY DEF ResponseInv, ShownTrue, StateTrue, ChoiceTrue, ViewerTrue, OffersSave, BodyShown, Cut
<1>2. QED
  BY <1>1, ResponseInvHolds, PTL

\* A file that is neither shown nor on its way is discarded, or left to the
\* limits of the store because a discard could not have it
\* (request.ts:177-192).
THEOREM FilesAlwaysFollowed == PanelSpec => []FilesFollowed
<1>1. ResponseInv => FilesFollowed
  BY DEF ResponseInv, StillFollowed, Followed, FilesFollowed
<1>2. QED
  BY <1>1, ResponseInvHolds, PTL

\* The editor's steps are those of RequestEditor; the response's leave it alone.
LEMMA EditorPart == [PanelNext]_panelVars => [Next]_vars
<1> SUFFICES ASSUME [PanelNext]_panelVars PROVE [Next]_vars
  OBVIOUS
<1>1. CASE UNCHANGED panelVars
  BY <1>1 DEF panelVars
<1>2. CASE PanelNext
  BY <1>2 DEF PanelNext, Next
<1>3. QED
  BY <1>1, <1>2

\* The editor keeps its promises beside the response: what the fields hold is
\* stored or the user is told, and a move leaves no error
\* (http-provider.tsx:131-153, request.ts:350-372).
THEOREM EditorBesideResponses == PanelSpec => [](SavedOrSaid /\ QuietWhenMoved)
<1>1. PanelInit => EditorInv
  BY EditorInit DEF PanelInit
<1>2. EditorInv /\ [PanelNext]_panelVars => EditorInv'
  BY EditorStep, EditorPart
<1>3. EditorInv => SavedOrSaid /\ QuietWhenMoved
  BY AtRestSaved, AtRestQuiet
<1>4. QED
  BY <1>1, <1>2, <1>3, PTL DEF PanelSpec
=============================================================================
