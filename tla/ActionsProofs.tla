---------------------------- MODULE ActionsProofs --------------------------
(***************************************************************************)
(* What reading the access lists answers, what the moves of a mailbox      *)
(* answer, and who has to answer for an upgrade of the tables, for any     *)
(* number of users, folders, calls, directories and versions.              *)
(***************************************************************************)
EXTENDS Actions, TLAPS

(* The entries of a call, between its listing and its answer.               *)
Gathering == {"query", "answered"}

Places == {"begin", "list", "query", "answered", "success", "danger"}

AclTypes ==
    /\ acl \in [User -> [Folder -> [Identifier -> Rights]]]
    /\ pc \in [Call -> Places]
    /\ who \in [Call -> User]
    /\ todo \in [Call -> SUBSET Box]
    /\ seen \in [Call -> SUBSET Folder]
    /\ entries \in [Call -> SUBSET Told]
    /\ failed \in [Call -> SUBSET Box]
    /\ was \in [Call -> SUBSET Entry]
    /\ always \in [Call -> SUBSET Entry]

(* A call that has not listed yet has nothing; one that reads has seen what *)
(* is in force; a name is seen when there is an entry for it; and a box is  *)
(* asked about once.                                                        *)
Reads(c) ==
    /\ pc[c] \notin Gathering => entries[c] = {} /\ seen[c] = {} /\ always[c] = {}
    /\ pc[c] \in {"list"} \cup Gathering => InForce(acl) \subseteq was[c]
    /\ always[c] \subseteq InForce(acl)
    /\ entries[c] \subseteq {Tell(e) : e \in was[c]}
    /\ seen[c] = {e.mailbox : e \in entries[c]}
    /\ \A e \in entries[c] : BoxOf(e) \notin todo[c]

(* Whose the entries are.                                                   *)
His(c) ==
    \A e \in entries[c] :
        /\ who[c] \in {e.user, e.id}
        /\ \A d \in entries[c] : d.mailbox = e.mailbox => d.user = e.user

(* What was listed and has stayed has still to be asked about, or failed,   *)
(* or is there, or is hidden by a namesake: the folder's, or the            *)
(* identifier's.                                                            *)
Concerns(c, e) ==
    /\ Cut[e.id] # Unnamed
    /\ who[c] \in {e.user, Cut[e.id]}
    /\ e.user = who[c] => e.mailbox \notin OddFolder

Hidden(c, e) ==
    /\ e.user # who[c]
    /\ \E r \in was[c] : Tell(r) \in entries[c] /\ BoxOf(r) = BoxOf(e) /\ r.id # e.id

Kept(c) ==
    /\ pc[c] = "answered" => todo[c] = {}
    /\ pc[c] \in Gathering => \A e \in always[c] : Concerns(c, e) =>
          \/ BoxOf(e) \in todo[c] \cup failed[c]
          \/ Tell(e) \in entries[c]
          \/ \E d \in entries[c] : d.mailbox = e.mailbox /\ d.user # e.user
          \/ Hidden(c, e)

AclInv == AclTypes /\ \A c \in Call : Reads(c) /\ His(c) /\ Kept(c)

LEMMA EntriesFacts ==
    ASSUME NEW lists \in [User -> [Folder -> [Identifier -> Rights]]],
           NEW u \in User, NEW f \in Folder
    PROVE  /\ Entries(lists, u, f) \subseteq Entry
           /\ Entries(lists, u, f) \subseteq InForce(lists)
           /\ \A e \in Entries(lists, u, f) : e.user = u /\ e.mailbox = f
           /\ \A d, e \in Entries(lists, u, f) : d.id = e.id => d = e
<1> DEFINE Of(i) == [user |-> u, id |-> i, mailbox |-> f, rights |-> lists[u][f][i]]
<1>1. \A e \in Entries(lists, u, f) : \E i \in Identifier : e = Of(i)
    BY DEF Entries
<1>2. \A i \in Identifier : Of(i) \in Entry
  <2>1. \A i \in Identifier : lists[u][f][i] \in Rights
      OBVIOUS
  <2> QED BY <2>1 DEF Entry
<1>3. \A i \in Identifier : Of(i).user = u /\ Of(i).mailbox = f /\ Of(i).id = i
    OBVIOUS
<1>4. Entries(lists, u, f) \subseteq InForce(lists)
    BY DEF InForce
<1> HIDE DEF Of
<1> QED BY <1>1, <1>2, <1>3, <1>4

(* An entry that has a name is told as one.                                 *)
LEMMA TellFacts ==
    ASSUME NEW e \in Entry, Cut[e.id] # Unnamed
    PROVE  /\ Tell(e) \in Told
           /\ Tell(e).user = e.user /\ Tell(e).mailbox = e.mailbox
           /\ Tell(e).id = Cut[e.id]
           /\ BoxOf(Tell(e)) = BoxOf(e)
<1>1. Tell(e) = [user |-> e.user, id |-> Cut[e.id], mailbox |-> e.mailbox,
                 rights |-> e.rights]
    BY DEF Tell, Entry
<1>2. Tell(e) \in Told
    BY <1>1 DEF Told, Entry
<1> QED BY <1>1, <1>2 DEF BoxOf

LEMMA InForceFacts ==
    ASSUME NEW lists \in [User -> [Folder -> [Identifier -> Rights]]]
    PROVE  /\ InForce(lists) \subseteq Entry
           /\ \A e \in InForce(lists) : e \in Entries(lists, e.user, e.mailbox)
<1>1. ASSUME NEW e \in InForce(lists)
      PROVE  e \in Entry /\ e \in Entries(lists, e.user, e.mailbox)
  <2>1. PICK u \in User, f \in Folder : e \in Entries(lists, u, f)
      BY DEF InForce
  <2> QED BY <2>1, EntriesFacts
<1> QED BY <1>1

LEMMA AclInvInit == AclInit => AclInv
<1> SUFFICES ASSUME AclInit PROVE AclInv
    OBVIOUS
<1>1. \A c \in Call : pc[c] = "begin"
    BY DEF AclInit
<1>2. AclTypes
  <2>1. acl \in [User -> [Folder -> [Identifier -> Rights]]]
      BY DEF AclInit, Rights
  <2>2. who \in [Call -> User]
      BY ConstantsAssumption DEF AclInit
  <2>3. pc \in [Call -> Places]
      BY DEF AclInit, Places
  <2>4. /\ todo \in [Call -> SUBSET Box]
        /\ seen \in [Call -> SUBSET Folder]
        /\ entries \in [Call -> SUBSET Told]
      BY DEF AclInit
  <2>5. /\ failed \in [Call -> SUBSET Box]
        /\ was \in [Call -> SUBSET Entry]
        /\ always \in [Call -> SUBSET Entry]
      BY DEF AclInit
  <2> QED BY <2>1, <2>2, <2>3, <2>4, <2>5 DEF AclTypes
<1>3. ASSUME NEW c \in Call PROVE Reads(c) /\ His(c) /\ Kept(c)
    BY <1>1 DEF AclInit, Reads, His, Kept, Gathering
<1> QED BY <1>2, <1>3 DEF AclInv

(* A step that takes no entry away and nothing off what is to be asked      *)
(* about, but for queries that fail, leaves a call as good as it was.       *)
LEMMA StaysKept ==
    ASSUME NEW c \in Call, Kept(c),
           UNCHANGED <<who[c], entries[c]>>,
           pc'[c] = pc[c] \/ pc'[c] \notin Gathering,
           todo'[c] \subseteq todo[c],
           todo'[c] \cup failed'[c] = todo[c] \cup failed[c],
           was[c] \subseteq was'[c], always'[c] \subseteq always[c]
    PROVE  Kept(c)'
<1>1. ASSUME NEW e, Hidden(c, e) PROVE Hidden(c, e)'
    BY <1>1 DEF Hidden
<1>2. ASSUME NEW e, Concerns(c, e)' PROVE Concerns(c, e)
    BY <1>2 DEF Concerns
<1>3. pc'[c] = "answered" => todo'[c] = {}
    BY DEF Kept, Gathering
<1>4. ASSUME pc'[c] \in Gathering, NEW e \in always'[c], Concerns(c, e)'
      PROVE  \/ BoxOf(e) \in todo'[c] \cup failed'[c]
             \/ Tell(e) \in entries'[c]
             \/ \E d \in entries'[c] : d.mailbox = e.mailbox /\ d.user # e.user
             \/ Hidden(c, e)'
    BY <1>1, <1>2, <1>4 DEF Kept
<1> QED BY <1>3, <1>4 DEF Kept

LEMMA ChangedFacts ==
    ASSUME AclTypes, NEW u \in User, NEW f \in Folder, NEW i \in Identifier,
           NEW rights \in Rights, Changed(u, f, i, rights)
    PROVE  /\ acl' \in [User -> [Folder -> [Identifier -> Rights]]]
           /\ was' \in [Call -> SUBSET Entry]
           /\ always' \in [Call -> SUBSET Entry]
           /\ \A c \in Call : /\ was'[c] = was[c] \cup InForce(acl)'
                              /\ always'[c] = always[c] \cap InForce(acl)'
<1>1. acl' \in [User -> [Folder -> [Identifier -> Rights]]]
    BY DEF Changed, AclTypes
<1>2. InForce(acl') \subseteq Entry
    BY <1>1, InForceFacts
<1>3. /\ was' = [c \in Call |-> was[c] \cup InForce(acl')]
      /\ always' = [c \in Call |-> always[c] \cap InForce(acl')]
    BY DEF Changed
<1>4. /\ was \in [Call -> SUBSET Entry]
      /\ always \in [Call -> SUBSET Entry]
    BY DEF AclTypes
<1>5. was' \in [Call -> SUBSET Entry] /\ always' \in [Call -> SUBSET Entry]
    BY <1>2, <1>3, <1>4
<1> QED BY <1>1, <1>3, <1>5

LEMMA ChangedKeeps ==
    ASSUME AclInv, NEW u \in User, NEW f \in Folder, NEW i \in Identifier,
           NEW rights \in Rights, Changed(u, f, i, rights),
           UNCHANGED <<who, todo, seen, entries, failed>>,
           pc' \in [Call -> Places],
           \A c \in Call : pc'[c] = pc[c] \/ (pc[c] = "begin" /\ pc'[c] = "success")
    PROVE  AclInv'
<1> USE ChangedFacts DEF AclInv
<1>1. AclTypes'
    BY DEF AclTypes
<1>2. ASSUME NEW c \in Call PROVE Reads(c)' /\ His(c)' /\ Kept(c)'
  <2>1. pc'[c] = pc[c] \/ (pc[c] = "begin" /\ pc'[c] = "success")
      OBVIOUS
  <2>2. /\ was'[c] = was[c] \cup InForce(acl)'
        /\ always'[c] = always[c] \cap InForce(acl)'
      OBVIOUS
  <2>3. Reads(c)'
      BY <2>1, <2>2 DEF Reads, Gathering
  <2>4. Kept(c)'
      BY <2>1, <2>2, StaysKept DEF Gathering
  <2> QED BY <2>3, <2>4 DEF His
<1> QED BY <1>1, <1>2

(* What a query may add, and what of a list it leaves out.                  *)
LEMMA GatheredFacts ==
    ASSUME AclTypes, NEW c \in Call, NEW b \in Box, NEW new \in Gathered(c, b)
    PROVE  /\ new \subseteq Told
           /\ \A d \in new : \E e \in InForce(acl) : d = Tell(e)
           /\ \A d \in new : /\ d.user = b.owner /\ d.mailbox = b.folder
                             /\ b.folder \notin seen[c]
                             /\ b.owner = who[c] \/ d.id = who[c]
           /\ \A e \in Lines(b) :
                 /\ b.folder \notin seen[c]
                 /\ who[c] \in {b.owner, Cut[e.id]}
                 => \/ Tell(e) \in new
                    \/ /\ b.owner # who[c]
                       /\ \E r \in Lines(b) : Tell(r) \in new /\ r.id # e.id
<1>1. b.owner \in User /\ b.folder \in Folder
    BY DEF Box
<1>2. /\ Entries(acl, b.owner, b.folder) \subseteq Entry
      /\ Entries(acl, b.owner, b.folder) \subseteq InForce(acl)
      /\ \A e \in Entries(acl, b.owner, b.folder) : e.user = b.owner /\ e.mailbox = b.folder
      /\ \A d, e \in Entries(acl, b.owner, b.folder) : d.id = e.id => d = e
    BY <1>1, EntriesFacts DEF AclTypes
<1>3. \A e \in Lines(b) : e \in Entries(acl, b.owner, b.folder) /\ Cut[e.id] # Unnamed
    BY DEF Lines
<1>4. \A e \in Lines(b) : /\ e \in InForce(acl) /\ Tell(e) \in Told
                          /\ Tell(e).user = b.owner /\ Tell(e).mailbox = b.folder
                          /\ Tell(e).id = Cut[e.id]
    BY <1>2, <1>3, TellFacts
<1> DEFINE his == {Tell(e) : e \in {l \in Lines(b) : Cut[l.id] = who[c]}}
<1>5. \/ new = {} /\ b.folder \in seen[c]
      \/ /\ b.folder \notin seen[c] /\ b.owner = who[c]
         /\ new = {Tell(e) : e \in Lines(b)}
      \/ /\ b.folder \notin seen[c] /\ b.owner # who[c]
         /\ new = {} /\ his = {}
      \/ /\ b.folder \notin seen[c] /\ b.owner # who[c]
         /\ \E d \in his : new = {d}
    BY DEF Gathered
<1>6. \A d \in his : \E e \in Lines(b) : d = Tell(e) /\ Cut[e.id] = who[c]
    OBVIOUS
<1>7. \A e \in Lines(b) : Cut[e.id] = who[c] => Tell(e) \in his
    OBVIOUS
<1> HIDE DEF his
<1>8. CASE new = {} /\ b.folder \in seen[c]
    BY <1>8
<1>9. CASE /\ b.folder \notin seen[c] /\ b.owner = who[c]
           /\ new = {Tell(e) : e \in Lines(b)}
    BY <1>4, <1>9
<1>10. CASE b.folder \notin seen[c] /\ b.owner # who[c] /\ new = {} /\ his = {}
    BY <1>7, <1>10
<1>11. ASSUME b.folder \notin seen[c], b.owner # who[c], NEW d \in his, new = {d}
       PROVE  /\ \E e \in Lines(b) : d = Tell(e) /\ Cut[e.id] = who[c]
              /\ \A e \in Lines(b) : \/ Tell(e) \in new
                                     \/ \E r \in Lines(b) : Tell(r) \in new /\ r.id # e.id
  <2>1. PICK r \in Lines(b) : d = Tell(r) /\ Cut[r.id] = who[c]
      BY <1>6
  <2>2. \A e \in Lines(b) : e.id = r.id => e = r
      BY <1>2, <1>3
  <2> QED BY <2>1, <2>2, <1>11
<1> QED BY <1>4, <1>5, <1>8, <1>9, <1>10, <1>11

LEMMA QueryKeeps ==
    ASSUME AclInv, NEW k \in Call, NEW b \in todo[k], Query(k, b)
    PROVE  AclInv'
<1> USE DEF AclInv
<1>1. b \in Box /\ b.owner \in User /\ b.folder \in Folder
      /\ b = [owner |-> b.owner, folder |-> b.folder]
    BY DEF AclTypes, Box
<1>2. PICK new \in Gathered(k, b) :
          /\ entries' = [entries EXCEPT ![k] = @ \cup new]
          /\ seen' = [seen EXCEPT ![k] = @ \cup {e.mailbox : e \in new}]
    BY DEF Query
<1>3. /\ todo' = [todo EXCEPT ![k] = @ \ {b}]
      /\ pc[k] = "query"
      /\ UNCHANGED <<acl, pc, who, others, failed, was, always>>
    BY DEF Query, aclHistory
<1>4. /\ new \subseteq Told
      /\ \A d \in new : \E e \in InForce(acl) : d = Tell(e)
      /\ \A d \in new : /\ d.user = b.owner /\ d.mailbox = b.folder
                        /\ b.folder \notin seen[k]
                        /\ b.owner = who[k] \/ d.id = who[k]
    BY <1>1, GatheredFacts
<1>5. AclTypes'
  <2>1. entries' \in [Call -> SUBSET Told] /\ todo' \in [Call -> SUBSET Box]
      BY <1>2, <1>3, <1>4 DEF AclTypes
  <2>2. {e.mailbox : e \in new} \subseteq Folder
      BY <1>4, <1>1
  <2>3. seen' \in [Call -> SUBSET Folder]
      BY <2>2, <1>2 DEF AclTypes
  <2> QED BY <1>3, <2>1, <2>3 DEF AclTypes
<1>6. ASSUME NEW c \in Call PROVE Reads(c)' /\ His(c)' /\ Kept(c)'
  <2>1. CASE c # k
    <3>1. /\ entries'[c] = entries[c] /\ seen'[c] = seen[c] /\ todo'[c] = todo[c]
        BY <2>1, <1>2, <1>3 DEF AclTypes
    <3>2. Kept(c)'
        BY <3>1, <1>3, StaysKept
    <3> QED BY <3>1, <3>2, <1>3 DEF Reads, His
  <2>2. CASE c = k
    <3>1. /\ entries'[c] = entries[c] \cup new
          /\ seen'[c] = seen[c] \cup {e.mailbox : e \in new}
          /\ todo'[c] = todo[c] \ {b}
        BY <2>2, <1>2, <1>3 DEF AclTypes
    <3>2. Reads(c) /\ His(c) /\ Kept(c) /\ pc[c] = "query"
        BY <1>3, <2>2
    <3>3. InForce(acl) \subseteq was[c]
        BY <3>2 DEF Reads, Gathering
    <3>4. \A e \in entries[c] \cup new : BoxOf(e) \notin todo'[c]
        BY <3>1, <3>2, <1>4, <1>1 DEF Reads, BoxOf
    <3>5. seen'[c] = {e.mailbox : e \in entries[c] \cup new}
        BY <3>1, <3>2 DEF Reads
    <3>6. entries'[c] \subseteq {Tell(e) : e \in was[c]}
        BY <3>1, <3>2, <3>3, <1>4 DEF Reads
    <3>7. Reads(c)'
        BY <3>1, <3>2, <3>4, <3>5, <3>6, <1>3 DEF Reads, Gathering, BoxOf
    <3>8. \A e \in entries[c] : e.mailbox \in seen[c]
        BY <3>2 DEF Reads
    <3>9. His(c)'
        BY <3>1, <3>2, <3>8, <1>3, <1>4, <2>2 DEF His
    <3>10. ASSUME NEW e \in always[c], Concerns(c, e), BoxOf(e) = b
           PROVE  \/ Tell(e) \in entries'[c]
                  \/ \E d \in entries'[c] : d.mailbox = e.mailbox /\ d.user # e.user
                  \/ Hidden(c, e)'
      <4>1. e.user = b.owner /\ e.mailbox = b.folder
          BY <3>10 DEF BoxOf
      <4>2. e \in Lines(b)
        <5>1. e \in InForce(acl)
            BY <3>2 DEF Reads
        <5>2. e \in Entries(acl, e.user, e.mailbox)
            BY <5>1, InForceFacts DEF AclTypes
        <5>3. Cut[e.id] # Unnamed
            BY <3>10 DEF Concerns
        <5> QED BY <4>1, <5>2, <5>3 DEF Lines
      <4>3. CASE b.folder \in seen[c]
        <5>1. PICK d \in entries[c] : d.mailbox = b.folder
            BY <4>3, <3>2 DEF Reads
        <5>2. BoxOf(d) # b
            BY <2>2, <3>2 DEF Reads
        <5>3. d.user # b.owner
            BY <5>1, <5>2, <1>1 DEF BoxOf
        <5> QED BY <5>1, <5>3, <4>1, <3>1
      <4>4. CASE b.folder \notin seen[c]
        <5>1. who[c] \in {b.owner, Cut[e.id]}
            BY <4>1, <3>10 DEF Concerns
        <5>2. \/ Tell(e) \in new
              \/ /\ b.owner # who[c]
                 /\ \E r \in Lines(b) : Tell(r) \in new /\ r.id # e.id
            BY <1>1, <2>2, <4>2, <4>4, <5>1, GatheredFacts
        <5>3. ASSUME b.owner # who[c], NEW r \in Lines(b), Tell(r) \in new, r.id # e.id
              PROVE  Hidden(c, e)'
          <6>1. r \in Entries(acl, b.owner, b.folder)
              BY DEF Lines
          <6>2. r \in InForce(acl) /\ r.user = b.owner /\ r.mailbox = b.folder
            <7>1. acl \in [User -> [Folder -> [Identifier -> Rights]]]
                BY DEF AclTypes
            <7> QED BY <1>1, <6>1, <7>1, EntriesFacts
          <6>3. BoxOf(r) = BoxOf(e)
              BY <4>1, <6>2 DEF BoxOf
          <6>4. r \in was[c] /\ was'[c] = was[c] /\ who'[c] = who[c] /\ who[c] # e.user
              BY <1>3, <2>2, <3>3, <4>1, <5>3, <6>2
          <6>5. Tell(r) \in entries'[c]
              BY <3>1, <5>3
          <6> QED BY <5>3, <6>3, <6>4, <6>5 DEF Hidden
        <5> QED BY <3>1, <5>2, <5>3
      <4> QED BY <4>3, <4>4
    <3>11. ASSUME NEW e \in always[c], Concerns(c, e), BoxOf(e) # b
           PROVE  \/ BoxOf(e) \in todo'[c] \cup failed'[c]
                  \/ Tell(e) \in entries'[c]
                  \/ \E d \in entries'[c] : d.mailbox = e.mailbox /\ d.user # e.user
                  \/ Hidden(c, e)'
        BY <3>1, <3>2, <3>11, <1>3 DEF Kept, Hidden, Gathering
    <3>12. Kept(c)'
      <4>1. always'[c] = always[c] /\ pc'[c] = "query"
          BY <1>3, <3>2
      <4>2. \A e \in always[c] : Concerns(c, e)' <=> Concerns(c, e)
          BY <1>3 DEF Concerns
      <4> QED BY <3>10, <3>11, <4>1, <4>2 DEF Kept
    <3> QED BY <3>7, <3>9, <3>12
  <2> QED BY <2>1, <2>2
<1> QED BY <1>5, <1>6

LEMMA ListKeeps ==
    ASSUME AclInv, NEW k \in Call, List(k)
    PROVE  AclInv'
<1> USE DEF AclInv
<1>1. PICK listed \in Listings(who[k]) :
          /\ todo' = [todo EXCEPT ![k] =
                {b \in listed : b.owner = who[k] => b.folder \notin OddFolder}]
          /\ always' = [always EXCEPT ![k] = {e \in InForce(acl) : BoxOf(e) \in listed}]
    BY DEF List
<1>2. /\ pc[k] = "list"
      /\ pc' = [pc EXCEPT ![k] = "query"]
      /\ UNCHANGED <<acl, who, seen, entries, others, failed, was>>
    BY DEF List
<1>3. listed \subseteq Box
    BY DEF Listings
<1>4. InForce(acl) \subseteq Entry
    BY InForceFacts DEF AclTypes
<1>5. AclTypes'
    BY <1>1, <1>2, <1>3, <1>4 DEF AclTypes, Places
<1>6. ASSUME NEW c \in Call PROVE Reads(c)' /\ His(c)' /\ Kept(c)'
  <2>1. CASE c # k
    <3>1. pc'[c] = pc[c] /\ todo'[c] = todo[c] /\ always'[c] = always[c]
        BY <2>1, <1>1, <1>2 DEF AclTypes
    <3>2. Kept(c)'
        BY <3>1, <1>2, StaysKept
    <3> QED BY <3>1, <3>2, <1>2 DEF Reads, His
  <2>2. CASE c = k
    <3>1. /\ pc'[c] = "query" /\ pc[c] = "list"
          /\ todo'[c] = {b \in listed : b.owner = who[c] => b.folder \notin OddFolder}
          /\ always'[c] = {e \in InForce(acl) : BoxOf(e) \in listed}
        BY <2>2, <1>1, <1>2 DEF AclTypes
    <3>2. entries[c] = {} /\ seen[c] = {} /\ InForce(acl) \subseteq was[c]
        BY <3>1 DEF Reads, Gathering
    <3>3. Reads(c)' /\ His(c)'
        BY <3>1, <3>2, <1>2 DEF Reads, His, Gathering
    <3>4. \A e \in always'[c] : Concerns(c, e)' => BoxOf(e) \in todo'[c]
      <4>1. SUFFICES ASSUME NEW e \in always'[c], Concerns(c, e)'
                     PROVE  BoxOf(e) \in todo'[c]
          OBVIOUS
      <4>2. /\ BoxOf(e) \in listed
            /\ e.user = who[c] => e.mailbox \notin OddFolder
          BY <3>1, <4>1, <1>2 DEF Concerns
      <4>3. BoxOf(e).owner = e.user /\ BoxOf(e).folder = e.mailbox
          BY DEF BoxOf
      <4> QED BY <3>1, <4>2, <4>3
    <3>5. Kept(c)'
        BY <3>1, <3>4 DEF Kept
    <3> QED BY <3>3, <3>5
  <2> QED BY <2>1, <2>2
<1> QED BY <1>5, <1>6

LEMMA AclInvStep == AclInv /\ [AclNext]_aclVars => AclInv'
<1> SUFFICES ASSUME AclInv, [AclNext]_aclVars PROVE AclInv'
    OBVIOUS
<1>1. CASE UNCHANGED aclVars
  <2>1. UNCHANGED <<acl, pc, who, todo, seen, entries, failed, was, always>>
      BY <1>1 DEF aclVars
  <2>2. InForce(acl)' = InForce(acl)
      BY <2>1 DEF InForce, Entries
  <2>3. AclTypes'
      BY <2>1 DEF AclInv, AclTypes
  <2>4. ASSUME NEW c \in Call PROVE Reads(c)' /\ His(c)' /\ Kept(c)'
    <3>1. Reads(c) /\ His(c) /\ Kept(c)
        BY DEF AclInv
    <3>2. Kept(c)'
        BY <3>1, <2>1, StaysKept
    <3> QED BY <3>1, <3>2, <2>1, <2>2 DEF Reads, His
  <2> QED BY <2>3, <2>4 DEF AclInv
<1>2. ASSUME NEW k \in Call, Refuse(k) \/ ListFails(k) \/ Answer(k)
      PROVE  AclInv'
  <2>1. /\ UNCHANGED <<acl, who, todo, seen, entries, others, failed, was, always>>
        /\ \/ pc[k] \in {"begin", "list"} /\ pc' = [pc EXCEPT ![k] = "danger"]
           \/ pc[k] = "query" /\ todo[k] = {} /\ pc' = [pc EXCEPT ![k] = "answered"]
      BY <1>2 DEF Refuse, ListFails, Answer, aclHistory
  <2>2. AclTypes'
      BY <2>1 DEF AclInv, AclTypes, Places
  <2>3. ASSUME NEW c \in Call PROVE Reads(c)' /\ His(c)' /\ Kept(c)'
    <3>1. /\ pc'[c] = pc[c] \/ \/ pc[c] \notin Gathering /\ pc'[c] = "danger"
                               \/ pc[c] = "query" /\ todo[c] = {} /\ pc'[c] = "answered"
          /\ Reads(c) /\ His(c) /\ Kept(c)
        BY <2>1 DEF AclInv, AclTypes, Gathering
    <3>2. InForce(acl)' = InForce(acl)
        BY <2>1 DEF InForce, Entries
    <3>3. Reads(c)' /\ His(c)'
        BY <3>1, <3>2, <2>1 DEF Reads, His, Gathering
    <3>4. Kept(c)'
        BY <3>1, <2>1 DEF Kept, Hidden, Concerns, Gathering
    <3> QED BY <3>3, <3>4
  <2> QED BY <2>2, <2>3 DEF AclInv
<1>3. ASSUME NEW k \in Call, NEW u \in User, Get(k, u) PROVE AclInv'
  <2>1. /\ UNCHANGED <<acl, todo, seen, entries, others, failed, always>>
        /\ pc[k] = "begin" /\ pc' = [pc EXCEPT ![k] = "list"]
        /\ who' = [who EXCEPT ![k] = u]
        /\ was' = [was EXCEPT ![k] = InForce(acl)]
      BY <1>3 DEF Get
  <2>2. InForce(acl) \subseteq Entry
      BY InForceFacts DEF AclInv, AclTypes
  <2>3. AclTypes'
      BY <2>1, <2>2 DEF AclInv, AclTypes, Places
  <2>4. InForce(acl)' = InForce(acl)
      BY <2>1 DEF InForce, Entries
  <2>5. ASSUME NEW c \in Call PROVE Reads(c)' /\ His(c)' /\ Kept(c)'
    <3>1. CASE c # k
      <4>1. pc'[c] = pc[c] /\ who'[c] = who[c] /\ was'[c] = was[c]
          BY <3>1, <2>1 DEF AclInv, AclTypes
      <4>2. Kept(c)'
          BY <4>1, <2>1, StaysKept DEF AclInv
      <4> QED BY <4>1, <4>2, <2>1, <2>4 DEF AclInv, Reads, His
    <3>2. CASE c = k
      <4>1. /\ pc[c] = "begin" /\ pc'[c] = "list" /\ was'[c] = InForce(acl)
            /\ Reads(c)
          BY <3>2, <2>1 DEF AclInv, AclTypes
      <4> QED BY <4>1, <2>1, <2>4 DEF Reads, His, Kept, Gathering
    <3> QED BY <3>1, <3>2
  <2> QED BY <2>3, <2>5 DEF AclInv
<1>4. ASSUME NEW k \in Call, NEW b \in todo[k], QueryFails(k, b) PROVE AclInv'
  <2>1. /\ UNCHANGED <<acl, pc, who, seen, entries, others, was, always>>
        /\ pc[k] = "query"
        /\ todo' = [todo EXCEPT ![k] = @ \ {b}]
        /\ failed' = [failed EXCEPT ![k] = @ \cup {b}]
      BY <1>4 DEF QueryFails
  <2>2. b \in Box
      BY DEF AclInv, AclTypes
  <2>3. AclTypes'
      BY <2>1, <2>2 DEF AclInv, AclTypes
  <2>4. InForce(acl)' = InForce(acl)
      BY <2>1 DEF InForce, Entries
  <2>5. ASSUME NEW c \in Call PROVE Reads(c)' /\ His(c)' /\ Kept(c)'
    <3>1. /\ todo'[c] \subseteq todo[c]
          /\ todo'[c] \cup failed'[c] = todo[c] \cup failed[c]
          /\ Reads(c) /\ His(c) /\ Kept(c)
        BY <2>1 DEF AclInv, AclTypes
    <3>2. Kept(c)'
        BY <3>1, <2>1, StaysKept
    <3> QED BY <3>1, <3>2, <2>1, <2>4 DEF Reads, His
  <2> QED BY <2>3, <2>5 DEF AclInv
<1>5. ASSUME NEW c \in Call, NEW u \in User, NEW f \in Folder, NEW i \in User,
             \/ Delete(c, u, f, i)
             \/ \E requested \in SUBSET (Available \cup Unknown) : Set(c, u, f, i, requested)
      PROVE  AclInv'
  <2>1. PICK rights \in Rights : Changed(u, f, UserIs[i], rights)
      BY <1>5 DEF Delete, Set, Rights
  <2>2. /\ UNCHANGED <<who, todo, seen, entries, failed>>
        /\ pc' = [pc EXCEPT ![c] = "success"] /\ pc[c] = "begin"
      BY <1>5 DEF Delete, Set
  <2>3. /\ pc' \in [Call -> Places]
        /\ \A k \in Call : pc'[k] = pc[k] \/ (pc[k] = "begin" /\ pc'[k] = "success")
      BY <2>2 DEF AclInv, AclTypes, Places
  <2>4. UserIs[i] \in Identifier
      BY ConstantsAssumption
  <2> QED BY <2>1, <2>2, <2>3, <2>4, ChangedKeeps
<1>6. ASSUME NEW u \in User, NEW f \in Folder, NEW i \in Identifier, NEW rights \in Rights,
             ChangedElsewhere(u, f, i, rights)
      PROVE  AclInv'
  <2>1. /\ UNCHANGED <<who, todo, seen, entries, failed>>
        /\ pc' = pc
        /\ Changed(u, f, i, rights)
      BY <1>6 DEF ChangedElsewhere
  <2>2. pc' \in [Call -> Places]
      BY <2>1 DEF AclInv, AclTypes
  <2> QED BY <2>1, <2>2, ChangedKeeps
<1>7. CASE AclNext
    BY <1>2, <1>3, <1>4, <1>5, <1>6, <1>7, ListKeeps, QueryKeeps DEF AclNext
<1> QED BY <1>1, <1>7

(* Every entry of an answer has been in force at some time of the call.     *)
THEOREM AnswersWereInForce == AclSpec => []AnswerWasInForce
<1>1. AclInv => AnswerWasInForce
    BY DEF AclInv, Reads, AnswerWasInForce
<1> QED BY AclInvInit, AclInvStep, <1>1, PTL DEF AclSpec

(* An answer concerns the user asked about, and under one name there are    *)
(* the entries of one owner.                                                *)
THEOREM AnswersAreHis == AclSpec => []AnswerIsHis
<1>1. AclInv => AnswerIsHis
    BY DEF AclInv, His, AnswerIsHis
<1> QED BY AclInvInit, AclInvStep, <1>1, PTL DEF AclSpec

(* What stays in force from the listing on, for an identifier that is told, *)
(* is answered, but for failed queries, odd names, and namesakes among the  *)
(* folders and, on somebody else's folder, among the identifiers.           *)
THEOREM NothingIsConcealed == AclSpec => []NothingConcealed
<1>1. AclInv => NothingConcealed
    BY DEF AclInv, Kept, Hidden, Concerns, Gathering, NothingConcealed
<1> QED BY AclInvInit, AclInvStep, <1>1, PTL DEF AclSpec

-----------------------------------------------------------------------------
(* The moves.  What is proved of the directories needs that each is at one  *)
(* path and no two are at the same.                                         *)

DirTypes ==
    /\ step \in [Script -> {"begin", "end"} \cup ScriptStep]
    /\ src \in [Script -> Mailbox]
    /\ target = [c \in Script |-> target[c]]
    /\ answer \in [Script -> {"none", "success", "danger"}]
    /\ where = [d \in Directory |-> where[d]]
    /\ \A d, e \in Directory : where[d] = where[e] /\ where[d] # Nowhere => d = e
    /\ found \in [Script -> SUBSET Directory]
    /\ moved \in [Script -> SUBSET Directory]

(* What a script was to move and nothing has moved is still where it will   *)
(* look for it.                                                             *)
Awaited(c) ==
    /\ step[c] = "begin" => answer[c] = "none"
    /\ step[c] \in {"testIndex", "moveIndex"} => target[c].index # Nowhere
    /\ answer[c] = "success" => step[c] = "end" /\ found[c] \subseteq moved[c]
    /\ step[c] \in ScriptStep => \A d \in found[c] \ moved[c] :
          \/ OnMail(c) /\ where[d] = Mail(src[c])
          \/ target[c].index # Nowhere /\ where[d] = Index(src[c])

DirInv == DirTypes /\ \A c \in Script : Awaited(c)

LEMMA DirInvInit == DirInit => DirInv
<1> SUFFICES ASSUME DirInit PROVE DirInv
    OBVIOUS
<1>1. src \in [Script -> Mailbox]
    BY DirectoryAssumption DEF DirInit
<1>2. DirTypes
    BY <1>1 DEF DirInit, DirTypes
<1>3. ASSUME NEW c \in Script PROVE Awaited(c)
    BY DEF DirInit, Awaited, ScriptStep
<1> QED BY <1>2, <1>3 DEF DirInv

(* A step that leaves the script of a call alone, takes no directory from   *)
(* where it is unless it says so, and answers nobody.                       *)
LEMMA OthersAwait ==
    ASSUME DirInv, NEW c \in Script,
           UNCHANGED <<step[c], src[c], target[c], answer[c], found[c]>>,
           moved[c] \subseteq moved'[c],
           \A d \in Directory \ moved'[c] :
               where[d] # Nowhere => where'[d] = where[d]
    PROVE  Awaited(c)'
<1>1. \A d \in found[c] \ moved'[c] : d \in Directory \ moved'[c]
    BY DEF DirInv, DirTypes
<1>2. Mail(src[c]) # Nowhere /\ Index(src[c]) # Nowhere
    BY NowhereAssumption DEF DirInv, DirTypes
<1>3. step[c] \in ScriptStep => \A d \in found[c] \ moved'[c] :
          \/ OnMail(c) /\ where'[d] = Mail(src[c])
          \/ target[c].index # Nowhere /\ where'[d] = Index(src[c])
  <2>1. ASSUME step[c] \in ScriptStep, NEW d \in found[c] \ moved'[c]
        PROVE  where'[d] = where[d]
      BY <1>1, <1>2, <2>1 DEF DirInv, Awaited
  <2> QED BY <2>1 DEF DirInv, Awaited
<1>4. Mail(src[c])' = Mail(src[c]) /\ Index(src[c])' = Index(src[c]) /\ (OnMail(c) <=> OnMail(c)')
    BY DEF Mail, Index, OnMail
<1> QED BY <1>3, <1>4 DEF DirInv, Awaited

LEMMA EndsFacts ==
    ASSUME DirTypes, NEW k \in Script, NEW result \in {"success", "danger"}, Ends(k, result)
    PROVE  /\ answer' \in [Script -> {"none", "success", "danger"}]
           /\ \A c \in Script \ {k} : answer'[c] = answer[c]
           /\ answer'[k] = IF answer[k] = "none" THEN result ELSE answer[k]
BY DEF Ends, DirTypes

LEMMA ProceedsFacts ==
    ASSUME DirTypes, NEW k \in Script, Proceeds(k)
    PROVE  /\ answer' \in [Script -> {"none", "success", "danger"}]
           /\ step' \in [Script -> {"begin", "end"} \cup ScriptStep]
           /\ \A c \in Script \ {k} : answer'[c] = answer[c] /\ step'[c] = step[c]
           /\ step'[k] = AfterPart(k)
           /\ answer'[k] = IF AfterPart(k) = "end" /\ answer[k] = "none"
                           THEN "success" ELSE answer[k]
<1>1. AfterPart(k) \in {"testIndex", "end"}
    BY DEF AfterPart
<1>2. step' = [step EXCEPT ![k] = AfterPart(k)]
    BY DEF Proceeds
<1>3. /\ step' \in [Script -> {"begin", "end"} \cup ScriptStep]
      /\ \A c \in Script \ {k} : step'[c] = step[c]
      /\ step'[k] = AfterPart(k)
    BY <1>1, <1>2 DEF DirTypes, ScriptStep
<1>4. CASE AfterPart(k) = "end"
    BY <1>3, <1>4, EndsFacts DEF Proceeds
<1>5. CASE AfterPart(k) # "end"
    BY <1>3, <1>5 DEF Proceeds, DirTypes
<1> QED BY <1>4, <1>5

(* After a part of the script nothing it was to move is left there.         *)
LEMMA ProceedsAwaits ==
    ASSUME DirInv, NEW k \in Script, Proceeds(k), step[k] \in ScriptStep,
           UNCHANGED <<src, target, found>>,
           moved[k] \subseteq moved'[k],
           \A d \in Directory \ moved'[k] : where'[d] = where[d] /\ where[d] # From(k)
    PROVE  Awaited(k)'
<1>1. /\ step'[k] = AfterPart(k)
      /\ answer'[k] = IF AfterPart(k) = "end" /\ answer[k] = "none"
                      THEN "success" ELSE answer[k]
    BY ProceedsFacts DEF DirInv
<1>2. answer[k] \in {"none", "danger"}
    BY DEF DirInv, DirTypes, Awaited, ScriptStep
<1>3. ASSUME NEW d \in found[k] \ moved'[k]
      PROVE  OnMail(k) /\ target[k].index # Nowhere /\ where'[d] = Index(src[k])
  <2>1. d \in found[k] \ moved[k] /\ d \in Directory
      BY DEF DirInv, DirTypes
  <2>2. \/ OnMail(k) /\ where[d] = Mail(src[k])
        \/ target[k].index # Nowhere /\ where[d] = Index(src[k])
      BY <2>1 DEF DirInv, Awaited
  <2>3. where'[d] = where[d] /\ where[d] # From(k)
      BY <2>1
  <2> QED BY <2>2, <2>3 DEF From
<1>4. CASE OnMail(k) /\ target[k].index # Nowhere
    BY <1>1, <1>2, <1>3, <1>4 DEF Awaited, AfterPart, OnMail, ScriptStep
<1>5. CASE ~(OnMail(k) /\ target[k].index # Nowhere)
    BY <1>1, <1>2, <1>3, <1>5 DEF Awaited, AfterPart, OnMail, ScriptStep
<1> QED BY <1>4, <1>5

LEMMA RunKeeps ==
    ASSUME DirInv, NEW k \in Script, NEW m \in Mailbox, NEW aims, Run(k, m, aims)
    PROVE  DirInv'
<1> USE DEF DirInv
<1>1. /\ step[k] = "begin" /\ step' = [step EXCEPT ![k] = "testMail"]
      /\ src' = [src EXCEPT ![k] = m]
      /\ target' = [target EXCEPT ![k] = aims]
      /\ found' = [found EXCEPT ![k] =
             At(Mail(m)) \cup IF aims.index = Nowhere THEN {} ELSE At(Index(m))]
      /\ moved' = [moved EXCEPT ![k] = {}]
      /\ UNCHANGED <<answer, where>>
    BY DEF Run
<1>2. DirTypes'
    BY <1>1 DEF DirTypes, At, ScriptStep
<1>3. ASSUME NEW c \in Script PROVE Awaited(c)'
  <2>1. CASE c # k
    <3>1. /\ UNCHANGED <<step[c], src[c], target[c], answer[c], found[c]>>
          /\ moved'[c] = moved[c]
        BY <2>1, <1>1 DEF DirTypes
    <3> QED BY <3>1, <1>1, OthersAwait
  <2>2. CASE c = k
    <3>1. /\ step'[c] = "testMail" /\ src'[c] = m /\ target'[c] = aims
          /\ answer'[c] = "none"
          /\ found'[c] = At(Mail(m)) \cup IF aims.index = Nowhere THEN {} ELSE At(Index(m))
        BY <2>2, <1>1 DEF DirTypes, Awaited
    <3> QED BY <3>1, <1>1 DEF Awaited, OnMail, At
  <2> QED BY <2>1, <2>2
<1> QED BY <1>2, <1>3

LEMMA TestKeeps ==
    ASSUME DirInv, NEW k \in Script, Test(k)
    PROVE  DirInv'
<1> USE DEF DirInv
<1>1. /\ step[k] \in {"testMail", "testIndex"}
      /\ UNCHANGED <<src, target, where, found, moved>>
    BY DEF Test, dirHistory
<1>2. CASE At(From(k)) = {}
  <2>1. Proceeds(k)
      BY <1>2 DEF Test
  <2>2. DirTypes'
      BY <2>1, <1>1, ProceedsFacts DEF DirTypes
  <2>3. \A d \in Directory : where[d] # From(k)
      BY <1>2 DEF At
  <2>4. Awaited(k)'
      BY <2>1, <2>3, <1>1, ProceedsAwaits DEF ScriptStep
  <2>5. ASSUME NEW c \in Script \ {k} PROVE Awaited(c)'
    <3>1. step'[c] = step[c] /\ answer'[c] = answer[c]
        BY <2>1, ProceedsFacts
    <3> QED BY <3>1, <1>1, OthersAwait
  <2> QED BY <2>2, <2>4, <2>5
<1>3. CASE At(From(k)) # {}
  <2>1. /\ step' = [step EXCEPT ![k] = IF OnMail(k) THEN "moveMail" ELSE "moveIndex"]
        /\ answer' = answer
      BY <1>3 DEF Test
  <2>2. DirTypes'
      BY <2>1, <1>1 DEF DirTypes, ScriptStep
  <2>3. /\ step'[k] = IF OnMail(k) THEN "moveMail" ELSE "moveIndex"
        /\ \A c \in Script \ {k} : step'[c] = step[c]
      BY <2>1 DEF DirTypes
  <2>4. Awaited(k)'
      BY <2>1, <2>3, <1>1 DEF Awaited, OnMail, ScriptStep
  <2>5. ASSUME NEW c \in Script \ {k} PROVE Awaited(c)'
      BY <2>1, <2>3, <1>1, OthersAwait
  <2> QED BY <2>2, <2>4, <2>5
<1> QED BY <1>2, <1>3

LEMMA MoveKeeps ==
    ASSUME DirInv, NEW k \in Script, Move(k)
    PROVE  DirInv'
<1> USE DEF DirInv
<1>1. PICK x \in At(From(k)) :
          /\ where' = [where EXCEPT ![x] = Arrives(k)]
          /\ moved' = [c \in Script |-> moved[c] \cup {x}]
    BY DEF Move
<1>2. /\ step[k] \in {"moveMail", "moveIndex"}
      /\ At(Arrives(k)) = {}
      /\ Proceeds(k)
      /\ UNCHANGED <<src, target, found>>
    BY DEF Move
<1>3. x \in Directory /\ where[x] = From(k)
    BY <1>1 DEF At
<1>4. /\ where'[x] = Arrives(k)
      /\ \A d \in Directory \ {x} : where'[d] = where[d]
      /\ where' = [d \in Directory |-> where'[d]]
    BY <1>1, <1>3 DEF DirTypes
<1>5. DirTypes'
  <2>1. \A d \in Directory : where[d] # Arrives(k)
      BY <1>2 DEF At
  <2>2. ASSUME NEW d \in Directory, NEW e \in Directory,
               where'[d] = where'[e], where'[d] # Nowhere
        PROVE  d = e
      BY <2>1, <2>2, <1>4 DEF DirTypes
  <2>3. moved' \in [Script -> SUBSET Directory]
      BY <1>1, <1>3 DEF DirTypes
  <2> QED BY <2>2, <2>3, <1>2, <1>4, ProceedsFacts DEF DirTypes
<1>6. \A c \in Script : moved'[c] = moved[c] \cup {x}
    BY <1>1
<1>7. Awaited(k)'
  <2>1. From(k) # Nowhere
      BY NowhereAssumption DEF From, DirTypes
  <2>2. \A d \in Directory \ moved'[k] : where'[d] = where[d] /\ where[d] # From(k)
      BY <2>1, <1>3, <1>4, <1>6 DEF DirTypes
  <2> QED BY <2>2, <1>2, <1>6, ProceedsAwaits DEF ScriptStep
<1>8. ASSUME NEW c \in Script \ {k} PROVE Awaited(c)'
  <2>1. step'[c] = step[c] /\ answer'[c] = answer[c]
      BY <1>2, ProceedsFacts
  <2> QED BY <2>1, <1>2, <1>4, <1>6, OthersAwait
<1> QED BY <1>5, <1>7, <1>8

LEMMA FailKeeps ==
    ASSUME DirInv, NEW k \in Script,
           MoveFails(k) \/ Killed(k) \/ AnswerLost(k) \/ RefuseScript(k)
    PROVE  DirInv'
<1> USE DEF DirInv
<1>1. /\ UNCHANGED <<src, target, where, found, moved>>
      /\ step' = [step EXCEPT ![k] = "end"] \/ step' = step
    BY DEF MoveFails, Killed, AnswerLost, RefuseScript, dirHistory
<1>2. /\ answer' \in [Script -> {"none", "success", "danger"}]
      /\ \A c \in Script \ {k} : answer'[c] = answer[c]
      /\ answer'[k] = IF answer[k] = "none" THEN "danger" ELSE answer[k]
  <2>1. CASE MoveFails(k) \/ Killed(k)
      BY <2>1, EndsFacts DEF MoveFails, Killed
  <2>2. CASE AnswerLost(k)
      BY <2>2 DEF AnswerLost, DirTypes
  <2>3. CASE RefuseScript(k)
      BY <2>3 DEF RefuseScript, DirTypes, Awaited
  <2> QED BY <2>1, <2>2, <2>3
<1>3. DirTypes'
    BY <1>1, <1>2 DEF DirTypes
<1>4. /\ \A c \in Script \ {k} : step'[c] = step[c]
      /\ step'[k] \in {"end", step[k]}
      /\ step'[k] = step[k] => step[k] \in ScriptStep
    BY <1>1 DEF DirTypes, MoveFails, Killed, AnswerLost, RefuseScript, ScriptStep
<1>5. Awaited(k)'
  <2>1. step[k] # "end" /\ answer[k] # "success"
      BY DEF DirTypes, Awaited, MoveFails, Killed, AnswerLost, RefuseScript, ScriptStep
  <2>2. answer'[k] # "success"
      BY <2>1, <1>2
  <2> QED BY <2>2, <1>1, <1>4 DEF Awaited, OnMail, ScriptStep
<1>6. ASSUME NEW c \in Script \ {k} PROVE Awaited(c)'
    BY <1>1, <1>2, <1>4, OthersAwait
<1> QED BY <1>3, <1>5, <1>6

LEMMA DirInvStep == DirInv /\ [DirNext]_dirVars => DirInv'
<1> SUFFICES ASSUME DirInv, [DirNext]_dirVars PROVE DirInv'
    OBVIOUS
<1> USE DEF DirInv
<1>1. ASSUME UNCHANGED <<step, src, target, answer, where, found, moved>>
      PROVE  DirInv'
  <2>1. DirTypes'
      BY <1>1 DEF DirTypes
  <2>2. ASSUME NEW c \in Script PROVE Awaited(c)'
      BY <1>1, OthersAwait
  <2> QED BY <2>1, <2>2
<1>2. ASSUME NEW d \in Directory, NEW path, Create(d, path) PROVE DirInv'
  <2>1. /\ where[d] = Nowhere /\ At(path) = {}
        /\ where' = [where EXCEPT ![d] = path]
        /\ UNCHANGED <<step, src, target, answer, found, moved>>
      BY <1>2 DEF Create, dirHistory
  <2>2. /\ where'[d] = path
        /\ \A e \in Directory \ {d} : where'[e] = where[e]
        /\ where' = [e \in Directory |-> where'[e]]
        /\ \A e \in Directory : where[e] # path
      BY <2>1 DEF DirTypes, At
  <2>3. DirTypes'
      BY <2>1, <2>2 DEF DirTypes
  <2>4. ASSUME NEW c \in Script PROVE Awaited(c)'
      BY <2>1, <2>2, OthersAwait
  <2> QED BY <2>3, <2>4
<1>3. CASE UNCHANGED dirVars
    BY <1>1, <1>3 DEF dirVars
<1>4. CASE DirNext
  <2>1. ASSUME NEW k \in Script, NEW m \in Mailbox, Cleanup(k, m) PROVE DirInv'
      BY <2>1, RunKeeps DEF Cleanup
  <2>2. ASSUME NEW k \in Script, NEW old \in Mailbox, NEW new \in Mailbox,
               MoveTo(k, old, new)
        PROVE  DirInv'
      BY <2>2, RunKeeps DEF MoveTo
  <2>3. CASE Tick
      BY <2>3, <1>1 DEF Tick, dirHistory
  <2> QED BY <1>2, <1>4, <2>1, <2>2, <2>3, TestKeeps, MoveKeeps, FailKeeps DEF DirNext
<1> QED BY <1>3, <1>4

(* Success means that what was there when the script began has been moved.  *)
THEOREM SuccessHasVacated == DirSpec => []SuccessVacates
<1>1. DirInv => SuccessVacates
    BY DEF DirInv, Awaited, SuccessVacates
<1> QED BY DirInvInit, DirInvStep, <1>1, PTL DEF DirSpec

-----------------------------------------------------------------------------
(* What is put aside.                                                       *)

InGarbage(path) ==
    \E n \in GarbageNames, t \in 0 .. MaxSecond : path = Garbage(t, n)

AsideTypes ==
    /\ second \in 0 .. MaxSecond
    /\ begun \in [Script -> 0 .. MaxSecond]
    /\ aside = [d \in Directory |-> aside[d]]

(* A script moves aside, under the second it was begun in, or renames.      *)
Targeted(c) ==
    step[c] \in ScriptStep =>
        \/ target[c] = Put(src[c], begun[c])
        \/ \E n \in Mailbox : target[c] = Renamed(src[c], n)

(* A directory in the garbage has its second and name; one that was put     *)
(* aside is there, or in one of the same second and name.                   *)
Lies(d) ==
    /\ \A n \in GarbageNames, t \in 0 .. MaxSecond :
          where[d] = Garbage(t, n) => aside[d] = <<t, n>>
    /\ aside[d] # Nowhere =>
          \/ InGarbage(where[d])
          \/ \E e \in Directory, base \in Bases :
                /\ where[d] = Inside(e, base)
                /\ InGarbage(where[e])
                /\ aside[e] = aside[d]

AsideInv ==
    /\ AsideTypes
    /\ \A c \in Script : Targeted(c)
    /\ \A d \in Directory : Lies(d)

LEMMA GarbageFacts ==
    ASSUME NEW t, NEW u, NEW m, NEW n
    PROVE  Garbage(t, m) = Garbage(u, n) => t = u /\ m = n
BY DEF Garbage

LEMMA PathFacts ==
    ASSUME NEW m \in Mailbox
    PROVE  /\ ~InGarbage(Mail(m)) /\ ~InGarbage(Index(m)) /\ ~InGarbage(MovedIndex(m))
           /\ \A d, base : /\ Mail(m) # Inside(d, base)
                           /\ Index(m) # Inside(d, base)
                           /\ ~InGarbage(Inside(d, base))
           /\ ~InGarbage(Nowhere)
           /\ ~IsGarbage(Mail(m)) /\ ~IsGarbage(MovedIndex(m))
           /\ \A t, n : IsGarbage(Garbage(t, n))
<1>1. ~InGarbage(Nowhere)
    BY NowhereAssumption DEF InGarbage
<1>2. /\ ~InGarbage(Mail(m)) /\ ~InGarbage(Index(m)) /\ ~InGarbage(MovedIndex(m))
      /\ \A d, base : ~InGarbage(Inside(d, base))
    BY DEF InGarbage, Garbage, GarbageIndex, Mail, Index, MovedIndex, Inside
<1>3. \A d, base : Mail(m) # Inside(d, base) /\ Index(m) # Inside(d, base)
    BY DEF Mail, Index, Inside
<1>4. /\ ~IsGarbage(Mail(m)) /\ ~IsGarbage(MovedIndex(m))
      /\ \A t, n : IsGarbage(Garbage(t, n))
    BY DEF IsGarbage, Garbage, Mail, MovedIndex
<1> QED BY <1>1, <1>2, <1>3, <1>4

LEMMA AsideInvInit == DirInit => AsideInv
<1> SUFFICES ASSUME DirInit PROVE AsideInv
    OBVIOUS
<1>1. AsideTypes
    BY DirectoryAssumption DEF DirInit, AsideTypes
<1>2. \A c \in Script : Targeted(c)
    BY DEF DirInit, Targeted, ScriptStep
<1>3. ASSUME NEW d \in Directory PROVE Lies(d)
  <2>1. where[d] = Nowhere /\ aside[d] = Nowhere
      BY DEF DirInit
  <2> QED BY <2>1, NowhereAssumption DEF Lies
<1> QED BY <1>1, <1>2, <1>3 DEF AsideInv

(* A directory that stays, with what it is in, still lies where it did.     *)
LEMMA StaysAside ==
    ASSUME AsideInv, NEW d \in Directory,
           where'[d] = where[d], aside'[d] = aside[d],
           \A e \in Directory : InGarbage(where[e]) =>
               where'[e] = where[e] /\ aside'[e] = aside[e]
    PROVE  Lies(d)'
<1>1. Lies(d)
    BY DEF AsideInv
<1>2. InGarbage(where[d])' = InGarbage(where[d])
    BY DEF InGarbage, Garbage, GarbageIndex
<1>3. ASSUME NEW e \in Directory, InGarbage(where[e])
      PROVE  InGarbage(where[e])'
    BY <1>3 DEF InGarbage, Garbage, GarbageIndex
<1> QED BY <1>1, <1>2, <1>3 DEF Lies, Garbage, GarbageIndex, Inside, Bases

(* Where a step of a script aims.                                           *)
LEMMA AimFacts ==
    ASSUME DirInv, AsideInv, NEW k \in Script, step[k] \in {"moveMail", "moveIndex"}
    PROVE  /\ From(k) \in {Mail(src[k]), Index(src[k])}
           /\ NameOf(k) \in GarbageNames
           /\ \/ To(k) = Garbage(begun[k], NameOf(k))
              \/ \E n \in Mailbox : To(k) \in {Mail(n), MovedIndex(n)}
           /\ BaseOf(k) \in Bases
<1>1. src[k] \in Mailbox
    BY DEF DirInv, DirTypes
<1>2. /\ From(k) \in {Mail(src[k]), Index(src[k])}
      /\ BaseOf(k) \in Bases
      /\ NameOf(k) \in GarbageNames
    BY <1>1 DEF From, BaseOf, Bases, NameOf, GarbageNames
<1>3. Targeted(k) /\ (step[k] = "moveIndex" => target[k].index # Nowhere)
    BY DEF AsideInv, DirInv, Awaited
<1>4. ASSUME target[k] = Put(src[k], begun[k])
      PROVE  To(k) = Garbage(begun[k], NameOf(k))
    BY <1>3, <1>4 DEF Put, Aims, To, OnMail, NameOf, GarbageIndex
<1>5. ASSUME NEW n \in Mailbox, target[k] = Renamed(src[k], n)
      PROVE  To(k) \in {Mail(n), MovedIndex(n)}
    BY <1>3, <1>5 DEF Renamed, Aims, To, OnMail
<1>6. \/ target[k] = Put(src[k], begun[k])
      \/ \E n \in Mailbox : target[k] = Renamed(src[k], n)
    BY <1>3 DEF Targeted, ScriptStep
<1>7. CASE \E n \in Mailbox : target[k] = Renamed(src[k], n)
    BY <1>2, <1>5, <1>7
<1> QED BY <1>2, <1>4, <1>6, <1>7

LEMMA MoveAside ==
    ASSUME DirInv, AsideInv, NEW k \in Script, Move(k)
    PROVE  /\ aside' = [d \in Directory |-> aside'[d]]
           /\ \A d \in Directory : Lies(d)'
<1>1. PICK x \in At(From(k)) :
          /\ where' = [where EXCEPT ![x] = Arrives(k)]
          /\ aside' = [aside EXCEPT ![x] =
                IF IsGarbage(To(k)) THEN <<begun[k], NameOf(k)>> ELSE @]
    BY DEF Move
<1>2. step[k] \in {"moveMail", "moveIndex"}
    BY DEF Move
<1>3. x \in Directory /\ where[x] = From(k) /\ src[k] \in Mailbox
    BY <1>1 DEF At, DirInv, DirTypes
<1>4. /\ where'[x] = Arrives(k)
      /\ \A d \in Directory \ {x} : where'[d] = where[d] /\ aside'[d] = aside[d]
      /\ aside'[x] = IF IsGarbage(To(k)) THEN <<begun[k], NameOf(k)>> ELSE aside[x]
      /\ aside' = [d \in Directory |-> aside'[d]]
    BY <1>1, <1>3 DEF DirInv, DirTypes, AsideInv, AsideTypes
<1>5. /\ ~InGarbage(where[x])
      /\ \A d, base : where[x] # Inside(d, base)
    BY <1>2, <1>3, AimFacts, PathFacts
<1>6. aside[x] = Nowhere
    BY <1>3, <1>5 DEF AsideInv, Lies
<1>7. ASSUME NEW d \in Directory \ {x} PROVE Lies(d)'
    BY <1>4, <1>5, StaysAside
<1>8. \/ Arrives(k) = To(k)
      \/ \E e \in Directory : where[e] = To(k) /\ Arrives(k) = Inside(e, BaseOf(k))
    BY DEF Arrives, At
<1>9. CASE To(k) = Garbage(begun[k], NameOf(k))
  <2>1. aside'[x] = <<begun[k], NameOf(k)>>
      BY <1>4, <1>9, <1>3, PathFacts
  <2>2. begun[k] \in 0 .. MaxSecond
      BY DEF AsideInv, AsideTypes
  <2>3. InGarbage(To(k))
      BY <1>2, <1>9, <2>2, AimFacts DEF InGarbage
  <2>4. ASSUME Arrives(k) = To(k) PROVE Lies(x)'
    <3>1. InGarbage(where[x])'
      <4>1. InGarbage(where'[x])
          BY <1>4, <2>3, <2>4
      <4> QED BY <4>1 DEF InGarbage, Garbage
    <3>2. ASSUME NEW n \in GarbageNames, NEW t \in 0 .. MaxSecond,
                 where'[x] = Garbage(t, n)
          PROVE  aside'[x] = <<t, n>>
      <4>1. where'[x] = Garbage(begun[k], NameOf(k))
          BY <1>4, <1>9, <2>4
      <4>2. Garbage(t, n) = Garbage(begun[k], NameOf(k))
          BY <4>1, <3>2
      <4>3. t = begun[k] /\ n = NameOf(k)
          BY ONLY <4>2, GarbageFacts
      <4> QED BY <4>3, <2>1
    <3> QED BY <3>1, <3>2 DEF Lies, Garbage, GarbageIndex
  <2>5. ASSUME NEW e \in Directory, where[e] = To(k), Arrives(k) = Inside(e, BaseOf(k))
        PROVE  Lies(x)'
    <3>1. aside[e] = <<begun[k], NameOf(k)>> /\ e # x
        BY <2>5, <1>9, <1>2, <1>5, <2>2, <2>3, AimFacts DEF AsideInv, Lies
    <3>2. where'[e] = where[e] /\ aside'[e] = aside[e]
        BY <3>1, <1>4
    <3>3. InGarbage(where[e])'
        BY <3>2, <2>3, <2>5 DEF InGarbage, Garbage, GarbageIndex
    <3>4. where'[x] = Inside(e, BaseOf(k)) /\ BaseOf(k) \in Bases
        BY <1>2, <1>4, <2>5, AimFacts
    <3>5. ~InGarbage(where'[x])
        BY <3>4, <1>3, PathFacts
    <3>6. aside'[e] = aside'[x]
        BY <3>1, <3>2, <2>1
    <3>7. \A n \in GarbageNames, t \in 0 .. MaxSecond : where'[x] # Garbage(t, n)
        BY <3>5 DEF InGarbage
    <3>8. \E f \in Directory, base \in Bases :
             /\ where'[x] = Inside(f, base)
             /\ InGarbage(where[f])'
             /\ aside'[f] = aside'[x]
        BY <3>3, <3>4, <3>6
    <3> QED BY <3>7, <3>8 DEF Lies, InGarbage, Garbage, GarbageIndex, Inside, Bases
  <2> QED BY <1>4, <1>7, <1>8, <2>4, <2>5
<1>10. ASSUME NEW n \in Mailbox, To(k) \in {Mail(n), MovedIndex(n)}
       PROVE  Lies(x)'
  <2>1. aside'[x] = Nowhere
      BY <1>4, <1>6, <1>10, PathFacts
  <2>2. ~InGarbage(where'[x])
      BY <1>4, <1>8, <1>10, PathFacts
  <2> QED BY <2>1, <2>2 DEF Lies, InGarbage, Garbage, GarbageIndex
<1> QED BY <1>2, <1>4, <1>7, <1>9, <1>10, AimFacts

LEMMA AsideInvStep == DirInv /\ AsideInv /\ [DirNext]_dirVars => AsideInv'
<1> SUFFICES ASSUME DirInv, AsideInv, [DirNext]_dirVars PROVE AsideInv'
    OBVIOUS
<1> USE DEF AsideInv
<1>1. ASSUME UNCHANGED <<src, target, begun>>,
             \A c \in Script : step'[c] \in ScriptStep => step[c] \in ScriptStep
      PROVE  \A c \in Script : Targeted(c)'
    BY <1>1 DEF Targeted, Put, Renamed, Aims, Garbage, GarbageIndex, HasIndex, Mail,
       MovedIndex
<1>2. ASSUME UNCHANGED <<where, aside>>
      PROVE  \A d \in Directory : Lies(d)'
    BY <1>2, StaysAside
<1>3. ASSUME NEW k \in Script,
             Test(k) \/ MoveFails(k) \/ Killed(k) \/ AnswerLost(k) \/ RefuseScript(k)
      PROVE  AsideInv'
  <2>1. UNCHANGED <<src, target, where, second, begun, aside>>
      BY <1>3 DEF Test, MoveFails, Killed, AnswerLost, RefuseScript, dirHistory
  <2>2. \A c \in Script : step'[c] \in ScriptStep => step[c] \in ScriptStep
    <3>1. CASE Test(k)
        BY <3>1, ProceedsFacts DEF Test, DirInv, DirTypes, ScriptStep
    <3>2. CASE ~Test(k)
        BY <1>3, <3>2 DEF MoveFails, Killed, AnswerLost, RefuseScript, DirInv, DirTypes,
           ScriptStep
    <3> QED BY <3>1, <3>2
  <2>3. AsideTypes'
      BY <2>1 DEF AsideTypes
  <2> QED BY <1>1, <1>2, <2>1, <2>2, <2>3
<1>4. ASSUME NEW k \in Script, Move(k) PROVE AsideInv'
  <2>1. UNCHANGED <<src, target, second, begun>> /\ Proceeds(k)
      BY <1>4 DEF Move
  <2>2. step[k] \in ScriptStep
      BY <1>4 DEF Move, ScriptStep
  <2>3. \A c \in Script : step'[c] \in ScriptStep => step[c] \in ScriptStep
      BY <2>1, <2>2, ProceedsFacts DEF DirInv
  <2>4. AsideTypes'
      BY <2>1, <1>4, MoveAside DEF AsideTypes
  <2> QED BY <1>1, <1>4, <2>1, <2>3, <2>4, MoveAside
<1>5. ASSUME NEW k \in Script, NEW m \in Mailbox, NEW aims, Run(k, m, aims),
             \/ aims = Put(m, second)
             \/ \E n \in Mailbox : aims = Renamed(m, n)
      PROVE  AsideInv'
  <2>1. /\ step' = [step EXCEPT ![k] = "testMail"]
        /\ src' = [src EXCEPT ![k] = m]
        /\ target' = [target EXCEPT ![k] = aims]
        /\ begun' = [begun EXCEPT ![k] = second]
        /\ UNCHANGED <<where, second, aside>>
      BY <1>5 DEF Run
  <2>2. AsideTypes'
      BY <2>1 DEF AsideTypes
  <2>3. ASSUME NEW c \in Script PROVE Targeted(c)'
    <3>1. CASE c = k
      <4>1. src'[c] = m /\ target'[c] = aims /\ begun'[c] = second
          BY <3>1, <2>1 DEF DirInv, DirTypes, AsideTypes
      <4> QED BY <4>1, <1>5 DEF Targeted, Put, Renamed, Aims, Garbage, GarbageIndex,
              HasIndex, Mail, MovedIndex
    <3>2. CASE c # k
      <4>1. UNCHANGED <<step[c], src[c], target[c], begun[c]>>
          BY <3>2, <2>1 DEF DirInv, DirTypes, AsideTypes
      <4>2. Targeted(c)
          OBVIOUS
      <4> QED BY <4>1, <4>2 DEF Targeted, Put, Renamed, Aims, Garbage, GarbageIndex,
              HasIndex, Mail, MovedIndex
    <3> QED BY <3>1, <3>2
  <2> QED BY <1>2, <2>1, <2>2, <2>3
<1>6. ASSUME NEW x \in Directory, NEW path, Create(x, path),
             \E m \in Mailbox : path \in {Mail(m), Index(m)}
      PROVE  AsideInv'
  <2>1. /\ where[x] = Nowhere
        /\ where' = [where EXCEPT ![x] = path]
        /\ UNCHANGED <<step, src, target, second, begun, aside>>
      BY <1>6 DEF Create, dirHistory
  <2>2. /\ where'[x] = path
        /\ \A d \in Directory \ {x} : where'[d] = where[d]
      BY <2>1 DEF DirInv, DirTypes
  <2>3. AsideTypes'
      BY <2>1 DEF AsideTypes
  <2>4. ~InGarbage(Nowhere) /\ ~InGarbage(path)
      BY <1>6, PathFacts
  <2>5. aside[x] = Nowhere
      BY <2>1, <2>4, NowhereAssumption DEF Lies
  <2>6. Lies(x)'
      BY <2>1, <2>2, <2>4, <2>5 DEF Lies, InGarbage, Garbage, GarbageIndex
  <2>7. ASSUME NEW d \in Directory \ {x} PROVE Lies(d)'
      BY <2>1, <2>2, <2>4, StaysAside
  <2> QED BY <1>1, <2>1, <2>3, <2>6, <2>7
<1>7. CASE UNCHANGED dirVars
  <2>1. UNCHANGED <<step, src, target, where, second, begun, aside>>
      BY <1>7 DEF dirVars
  <2>2. AsideTypes'
      BY <2>1 DEF AsideTypes
  <2> QED BY <1>1, <1>2, <2>1, <2>2
<1>8. CASE Tick
  <2>1. UNCHANGED <<step, src, target, where, begun, aside>>
      BY <1>8 DEF Tick, dirHistory
  <2>2. AsideTypes'
      BY <1>8, <2>1, DirectoryAssumption DEF AsideTypes, Tick
  <2> QED BY <1>1, <1>2, <2>1, <2>2
<1>9. CASE DirNext
  <2>1. ASSUME NEW k \in Script, NEW m \in Mailbox, Cleanup(k, m) PROVE AsideInv'
      BY <2>1, <1>5 DEF Cleanup
  <2>2. ASSUME NEW k \in Script, NEW old \in Mailbox, NEW new \in Mailbox,
               MoveTo(k, old, new)
        PROVE  AsideInv'
      BY <2>2, <1>5 DEF MoveTo
  <2>3. ASSUME NEW d \in Directory, NEW m \in Mailbox,
               Create(d, Mail(m)) \/ Create(d, Index(m))
        PROVE  AsideInv'
      BY <2>3, <1>6
  <2> QED BY <1>3, <1>4, <1>8, <1>9, <2>1, <2>2, <2>3 DEF DirNext
<1> QED BY <1>7, <1>9

(* What is put aside comes to lie in what was put aside before only under   *)
(* the same name in the same second, be it a mailbox's or an index's.       *)
THEOREM AsideLiesApart == DirSpec => []AsideBySecond
<1>1. AsideInv => AsideBySecond
  <2> SUFFICES ASSUME AsideInv, NEW d \in Directory, NEW e \in Directory, NEW base \in Bases,
                      aside[d] # Nowhere, where[d] = Inside(e, base)
               PROVE  aside[e] = aside[d]
      BY DEF AsideBySecond
  <2>1. ~InGarbage(where[d])
      BY DEF InGarbage, Garbage, GarbageIndex, Inside
  <2>2. PICK f \in Directory, b \in Bases :
            where[d] = Inside(f, b) /\ aside[f] = aside[d]
      BY <2>1 DEF AsideInv, Lies
  <2>3. f = e
      BY <2>2 DEF Inside
  <2> QED BY <2>2, <2>3
<1> QED BY DirInvInit, DirInvStep, AsideInvInit, AsideInvStep, <1>1, PTL DEF DirSpec

-----------------------------------------------------------------------------
(* The upgrade of the tables.                                               *)

UpgradeInv ==
    /\ at \in [Caller -> {"begin", "run", "restart",
                          "already", "applied", "error", "danger"}]
    /\ output \in [Caller -> {"none", "already", "applied", "failed"}]
    /\ pending \subseteq Caller
    /\ \A c \in pending : at[c] \in {"run", "danger"} /\ output[c] = "none"
    /\ \A c \in Caller : at[c] = "begin" => output[c] = "none"
    /\ loaded # tables =>
          /\ by \in Caller
          /\ at[by] \in {"run", "restart", "error", "danger"}
          /\ at[by] = "run" => output[by] \in {"applied", "failed"}

LEMMA UpgradeInvInit == UpgradeInit => UpgradeInv
BY DEF UpgradeInit, UpgradeInv

LEMMA UpgradeInvStep == UpgradeInv /\ [UpgradeNext]_upgradeVars => UpgradeInv'
<1> SUFFICES ASSUME UpgradeInv, [UpgradeNext]_upgradeVars PROVE UpgradeInv'
    OBVIOUS
<1> USE DEF UpgradeInv
<1>1. ASSUME NEW c \in Caller, Start(c) PROVE UpgradeInv'
    BY <1>1 DEF Start, Goes
<1>2. ASSUME NEW c \in Caller, OutputRead(c) PROVE UpgradeInv'
  <2>1. output[c] \in {"already", "applied", "failed"} /\ at[c] = "run"
      BY <1>2 DEF OutputRead
  <2>2. CASE output[c] = "applied"
      BY <1>2, <2>1, <2>2 DEF OutputRead, Goes
  <2>3. CASE output[c] # "applied"
      BY <1>2, <2>1, <2>3 DEF OutputRead, Goes
  <2> QED BY <2>2, <2>3
<1>3. ASSUME NEW c \in Caller, Fail(c) PROVE UpgradeInv'
    BY <1>3 DEF Fail, Goes
<1>4. ASSUME NEW c \in Caller, Restart(c) PROVE UpgradeInv'
    BY <1>4 DEF Restart, Goes
<1>5. ASSUME NEW c \in Caller, RunUpgrade(c) PROVE UpgradeInv'
    BY <1>5 DEF RunUpgrade
<1>6. CASE RestartedElsewhere
    BY <1>6 DEF RestartedElsewhere
<1>7. CASE Replaced
    BY <1>7 DEF Replaced
<1>8. CASE UNCHANGED upgradeVars
    BY <1>8 DEF upgradeVars
<1> QED BY <1>1, <1>2, <1>3, <1>4, <1>5, <1>6, <1>7, <1>8 DEF UpgradeNext

(* An upgrade the server has not loaded yet is answered for by the call     *)
(* that made it: it is going to restart the server, or has said it failed.  *)
THEOREM UpgradesAreLoaded == UpgradeSpec => []UpgradeIsLoaded
<1>1. UpgradeInv => UpgradeIsLoaded
    BY DEF UpgradeInv, UpgradeIsLoaded
<1> QED BY UpgradeInvInit, UpgradeInvStep, <1>1, PTL DEF UpgradeSpec

-----------------------------------------------------------------------------
(* The types, of which the invariants above have what they need.            *)

(* The bound on what dovecot's users do.                                    *)
OthersBounded == others \in 0 .. MaxOthers

LEMMA OthersBoundedInit == AclInit => OthersBounded
BY ConstantsAssumption DEF AclInit, OthersBounded

LEMMA OthersBoundedStep == OthersBounded /\ [AclNext]_aclVars => OthersBounded'
<1> SUFFICES ASSUME OthersBounded, [AclNext]_aclVars PROVE OthersBounded'
    OBVIOUS
<1>1. CASE UNCHANGED others
    BY <1>1 DEF OthersBounded
<1>2. ASSUME NEW u \in User, NEW f \in Folder, NEW i \in Identifier, NEW rights \in Rights,
             ChangedElsewhere(u, f, i, rights)
      PROVE  OthersBounded'
    BY <1>2, ConstantsAssumption DEF ChangedElsewhere, OthersBounded
<1>3. CASE AclNext
  <2>1. ASSUME NEW c \in Call,
               \/ Refuse(c) \/ List(c) \/ ListFails(c) \/ Answer(c)
               \/ \E u \in User : Get(c, u)
               \/ \E b \in todo[c] : Query(c, b) \/ QueryFails(c, b)
        PROVE  UNCHANGED others
      BY <2>1 DEF Refuse, List, ListFails, Answer, Get, Query, QueryFails
  <2>2. ASSUME NEW c \in Call, NEW u \in User, NEW f \in Folder, NEW i \in User,
               \/ Delete(c, u, f, i)
               \/ \E requested \in SUBSET (Available \cup Unknown) :
                     Set(c, u, f, i, requested)
        PROVE  UNCHANGED others
      BY <2>2 DEF Delete, Set
  <2> QED BY <1>1, <1>2, <1>3, <2>1, <2>2 DEF AclNext
<1> QED BY <1>1, <1>3 DEF aclVars

(* Where a script moves to, and under what name things lie aside.           *)
NamesTyped ==
    /\ target \in [Script -> Targets]
    /\ \A d \in Directory : aside[d] # Nowhere =>
          \E n \in GarbageNames, t \in 0 .. MaxSecond : aside[d] = <<t, n>>

LEMMA NamesTypedInit == DirInit => NamesTyped
<1> SUFFICES ASSUME DirInit PROVE NamesTyped
    OBVIOUS
<1>1. PICK m \in Mailbox : TRUE
    BY DirectoryAssumption
<1>2. Renamed(m, m) \in Targets
    BY DEF Targets
<1>3. (CHOOSE aims \in Targets : TRUE) \in Targets
    BY <1>2
<1> QED BY <1>3 DEF DirInit, NamesTyped

LEMMA NamesTypedStep ==
    DirInv /\ AsideInv /\ NamesTyped /\ [DirNext]_dirVars => NamesTyped'
<1> SUFFICES ASSUME DirInv, AsideInv, NamesTyped, [DirNext]_dirVars PROVE NamesTyped'
    OBVIOUS
<1>1. CASE UNCHANGED <<target, aside>>
    BY <1>1 DEF NamesTyped
<1>2. ASSUME NEW c \in Script, NEW m \in Mailbox, NEW aims \in Targets, Run(c, m, aims)
      PROVE  NamesTyped'
    BY <1>2 DEF Run, NamesTyped
<1>3. ASSUME NEW c \in Script, NEW m \in Mailbox, Cleanup(c, m) PROVE NamesTyped'
  <2>1. Put(m, second) \in Targets
      BY DEF AsideInv, AsideTypes, Targets
  <2> QED BY <1>2, <1>3, <2>1 DEF Cleanup
<1>4. ASSUME NEW c \in Script, NEW old \in Mailbox, NEW new \in Mailbox,
             MoveTo(c, old, new)
      PROVE  NamesTyped'
  <2>1. Renamed(old, new) \in Targets
      BY DEF Targets
  <2> QED BY <1>2, <1>4, <2>1 DEF MoveTo
<1>5. ASSUME NEW c \in Script, Move(c) PROVE NamesTyped'
  <2>1. PICK d \in Directory :
            aside' = [aside EXCEPT ![d] =
                IF IsGarbage(To(c)) THEN <<begun[c], NameOf(c)>> ELSE @]
      BY <1>5 DEF Move, At
  <2>2. NameOf(c) \in GarbageNames /\ begun[c] \in 0 .. MaxSecond
      BY DEF DirInv, DirTypes, AsideInv, AsideTypes, NameOf, GarbageNames
  <2>3. aside = [e \in Directory |-> aside[e]]
      BY DEF AsideInv, AsideTypes
  <2>4. \A e \in Directory : aside'[e] \in {aside[e], <<begun[c], NameOf(c)>>}
      BY <2>1, <2>3
  <2>5. target' = target
      BY <1>5 DEF Move
  <2> QED BY <2>2, <2>4, <2>5 DEF NamesTyped
<1>6. ASSUME NEW c \in Script,
             RefuseScript(c) \/ Test(c) \/ MoveFails(c) \/ Killed(c) \/ AnswerLost(c)
      PROVE  UNCHANGED <<target, aside>>
    BY <1>6 DEF RefuseScript, Test, MoveFails, Killed, AnswerLost, dirHistory
<1>7. ASSUME NEW d \in Directory, NEW path, Create(d, path)
      PROVE  UNCHANGED <<target, aside>>
    BY <1>7 DEF Create, dirHistory
<1>8. Tick => UNCHANGED <<target, aside>>
    BY DEF Tick, dirHistory
<1>9. CASE DirNext
    BY <1>1, <1>3, <1>4, <1>5, <1>6, <1>7, <1>8, <1>9 DEF DirNext
<1> QED BY <1>1, <1>9 DEF dirVars

(* The versions: tables are made for a server there has been, and a server  *)
(* has loaded tables that were made.                                        *)
VersionsTyped ==
    /\ of \in [Caller -> 0 .. MaxVersion]
    /\ version \in 0 .. MaxVersion
    /\ tables \in 0 .. version
    /\ loaded \in 0 .. tables
    /\ pending \subseteq Caller
    /\ by \in Caller \cup {Nobody}

LEMMA VersionsTypedInit == UpgradeInit => VersionsTyped
BY CallerAssumption DEF UpgradeInit, VersionsTyped

LEMMA VersionsTypedStep == VersionsTyped /\ [UpgradeNext]_upgradeVars => VersionsTyped'
<1> SUFFICES ASSUME VersionsTyped, [UpgradeNext]_upgradeVars PROVE VersionsTyped'
    OBVIOUS
<1> USE CallerAssumption DEF VersionsTyped
<1>1. ASSUME NEW c \in Caller, Start(c) PROVE VersionsTyped'
    BY <1>1 DEF Start
<1>2. ASSUME NEW c \in Caller, OutputRead(c) \/ Fail(c) PROVE VersionsTyped'
    BY <1>2 DEF OutputRead, Fail
<1>3. ASSUME NEW c \in Caller, Restart(c) PROVE VersionsTyped'
    BY <1>3 DEF Restart
<1>4. ASSUME NEW c \in Caller, RunUpgrade(c) PROVE VersionsTyped'
    BY <1>4 DEF RunUpgrade
<1>5. CASE RestartedElsewhere
    BY <1>5 DEF RestartedElsewhere
<1>6. CASE Replaced
    BY <1>6 DEF Replaced
<1>7. CASE UNCHANGED upgradeVars
    BY <1>7 DEF upgradeVars
<1> QED BY <1>1, <1>2, <1>3, <1>4, <1>5, <1>6, <1>7 DEF UpgradeNext

-----------------------------------------------------------------------------
(* The three families side by side.                                         *)

(* Each family goes its own way, whatever the others do: every behaviour of *)
(* the whole is one of each of them.                                        *)
THEOREM FamiliesAreApart == Spec => AclSpec /\ DirSpec /\ UpgradeSpec
<1>1. Init => AclInit /\ DirInit /\ UpgradeInit
    BY DEF Init
<1>2. [Next]_vars => [AclNext]_aclVars
    BY DEF Next, vars
<1>3. [Next]_vars => [DirNext]_dirVars
    BY DEF Next, vars
<1>4. [Next]_vars => [UpgradeNext]_upgradeVars
    BY DEF Next, vars
<1> QED BY <1>1, <1>2, <1>3, <1>4, PTL DEF Spec, AclSpec, DirSpec, UpgradeSpec

(* Lists, directories and tables keep their types, and rights that are not  *)
(* in the allow-list never come into a list (doveadm.go:243-248).           *)
THEOREM TypeCorrect == Spec => []TypeOK
<1>1. AclSpec => []AclTypeOK
  <2>1. AclInv /\ OthersBounded => AclTypeOK
      BY DEF AclInv, AclTypes, OthersBounded, AclTypeOK, Places
  <2> QED BY AclInvInit, AclInvStep, OthersBoundedInit, OthersBoundedStep, <2>1, PTL
          DEF AclSpec
<1>2. DirSpec => []DirTypeOK
  <2>1. DirInv /\ AsideInv /\ NamesTyped => DirTypeOK
      BY DEF DirInv, DirTypes, AsideInv, AsideTypes, NamesTyped, DirTypeOK
  <2> QED BY DirInvInit, DirInvStep, AsideInvInit, AsideInvStep, NamesTypedInit,
             NamesTypedStep, <2>1, PTL DEF DirSpec
<1>3. UpgradeSpec => []UpgradeTypeOK
  <2>1. UpgradeInv /\ VersionsTyped => UpgradeTypeOK
      BY DEF UpgradeInv, VersionsTyped, UpgradeTypeOK
  <2> QED BY UpgradeInvInit, UpgradeInvStep, VersionsTypedInit, VersionsTypedStep,
             <2>1, PTL DEF UpgradeSpec
<1>4. AclTypeOK /\ DirTypeOK /\ UpgradeTypeOK => TypeOK
    BY DEF TypeOK
<1> QED BY FamiliesAreApart, <1>1, <1>2, <1>3, <1>4, PTL
=============================================================================
