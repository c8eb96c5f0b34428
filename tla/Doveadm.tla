------------------------------ MODULE Doveadm ------------------------------
(***************************************************************************)
(* The access lists of mailboxes (internal/actions/doveadm.go): reading    *)
(* all that concerns a user, a listing and then one command per folder,    *)
(* while other calls, and dovecot itself, change the lists.                *)
(*                                                                         *)
(* A mailbox is a user's folder; its list gives rights to identifiers, of  *)
(* which the code reads what follows the first "=": user=x, group=x and    *)
(* -user=x are x to it, and anyone and owner nothing.  An identifier       *)
(* without rights is not in the list.                                      *)
(*                                                                         *)
(* The listing of a user has his own folders and, as Shared/owner/folder,  *)
(* some of others'; the empty line at its end and the levels above a       *)
(* shared folder, for which the code asks nothing that has an answer, are  *)
(* left out, and so are own folders three levels deep with "Shared" in     *)
(* their names, which the code would ask about as somebody else's.         *)
(* Folders and the lines of a list come in any order: the code's is        *)
(* dovecot's.                                                              *)
(***************************************************************************)
EXTENDS Naturals

CONSTANTS
    Call,       \* the calls of the actions
    User,
    Folder,     \* names of folders
    OddFolder,  \* those that have "Shared" in them, and less than three levels
    Identifier, \* what rights are given to
    Cut,        \* Cut[i]: what follows its "=", Unnamed if there is none
    Unnamed,
    UserIs,     \* UserIs[u]: "user=" and the user
    Available,  \* the rights in the allow-list
    Unknown,    \* other rights
    MaxOthers   \* bound on what dovecot's users do to the lists

ASSUME ConstantsAssumption ==
    /\ User # {}
    /\ OddFolder \subseteq Folder
    /\ \A u \in User : UserIs[u] \in Identifier /\ Cut[UserIs[u]] = u
    /\ Unnamed \notin User
    /\ Available \cap Unknown = {}
    /\ MaxOthers \in Nat

VARIABLES
    acl,      \* acl[o][f][i]: the rights of i on the folder f of o; none: {}
    pc,       \* where a call is
    who,      \* the user a reading call is about
    todo,     \* the folders it has still to ask about
    seen,     \* the names it has entries for
    entries,  \* the entries it has gathered
    others,   \* what dovecot's users have done
    failed,   \* history: the folders a query of the call has failed for
    was,      \* history: what has been in force since the call began
    always    \* history: what, of the folders listed, has been in force ever since

aclVars == <<acl, pc, who, todo, seen, entries, others, failed, was, always>>
aclHistory == <<failed, was, always>>

Rights == SUBSET Available
Box == [owner : User, folder : Folder]
Entry == [user : User, id : Identifier, mailbox : Folder, rights : Rights]
Told == [user : User, id : {Cut[i] : i \in Identifier} \ {Unnamed},
         mailbox : Folder, rights : Rights]

\* What is told of an entry, and where it is in force.
Tell(e) == [e EXCEPT !.id = Cut[e.id]]
BoxOf(e) == [owner |-> e.user, folder |-> e.mailbox]

Entries(lists, u, f) ==
    {[user |-> u, id |-> i, mailbox |-> f, rights |-> lists[u][f][i]] :
        i \in {j \in Identifier : lists[u][f][j] # {}}}

InForce(lists) == UNION {Entries(lists, u, f) : u \in User, f \in Folder}

AclTypeOK ==
    /\ acl \in [User -> [Folder -> [Identifier -> Rights]]]
    /\ pc \in [Call -> {"begin", "list", "query", "answered", "success", "danger"}]
    /\ who \in [Call -> User]
    /\ todo \in [Call -> SUBSET Box]
    /\ seen \in [Call -> SUBSET Folder]
    /\ entries \in [Call -> SUBSET Told]
    /\ others \in 0 .. MaxOthers
    /\ failed \in [Call -> SUBSET Box]
    /\ was \in [Call -> SUBSET Entry]
    /\ always \in [Call -> SUBSET Entry]

AclInit ==
    /\ acl = [u \in User |-> [f \in Folder |-> [i \in Identifier |-> {}]]]
    /\ pc = [c \in Call |-> "begin"]
    /\ who = [c \in Call |-> CHOOSE u \in User : TRUE]
    /\ todo = [c \in Call |-> {}]
    /\ seen = [c \in Call |-> {}]
    /\ entries = [c \in Call |-> {}]
    /\ others = 0
    /\ failed = [c \in Call |-> {}]
    /\ was = [c \in Call |-> {}]
    /\ always = [c \in Call |-> {}]

\* The lists change; the histories take note.
Changed(u, f, i, rights) ==
    /\ acl' = [acl EXCEPT ![u][f][i] = rights]
    /\ was' = [c \in Call |-> was[c] \cup InForce(acl')]
    /\ always' = [c \in Call |-> always[c] \cap InForce(acl')]

-----------------------------------------------------------------------------
(* DoveadmSetACL, DoveadmDeleteACL                                          *)

\* Variant: the rights are passed on as they are asked for.
SetUnfiltered(c, u, f, i, requested) ==
    /\ pc[c] = "begin"
    /\ requested # {}
    /\ Changed(u, f, UserIs[i], requested)
    /\ pc' = [pc EXCEPT ![c] = "success"]
    /\ UNCHANGED <<who, todo, seen, entries, others, failed>>

\* Rights that are not available are dropped.
Set(c, u, f, i, requested) ==
    /\ pc[c] = "begin"
    /\ requested \cap Available # {}
    /\ Changed(u, f, UserIs[i], requested \cap Available)
    /\ pc' = [pc EXCEPT ![c] = "success"]
    /\ UNCHANGED <<who, todo, seen, entries, others, failed>>

Delete(c, u, f, i) ==
    /\ pc[c] = "begin"
    /\ Changed(u, f, UserIs[i], {})
    /\ pc' = [pc EXCEPT ![c] = "success"]
    /\ UNCHANGED <<who, todo, seen, entries, others, failed>>

\* A field is missing, no right is valid, or the command or Docker fails.
Refuse(c) ==
    /\ pc[c] = "begin"
    /\ pc' = [pc EXCEPT ![c] = "danger"]
    /\ UNCHANGED <<acl, who, todo, seen, entries, others, aclHistory>>

-----------------------------------------------------------------------------
(* DoveadmGetACL                                                            *)

Get(c, u) ==
    /\ pc[c] = "begin"
    /\ who' = [who EXCEPT ![c] = u]
    /\ pc' = [pc EXCEPT ![c] = "list"]
    /\ was' = [was EXCEPT ![c] = InForce(acl)]
    /\ UNCHANGED <<acl, todo, seen, entries, others, failed, always>>

\* What doveadm mailbox list may print for a user: his folders and, of the
\* others' that anybody has rights on, those dovecot shares with him.
Listings(u) ==
    {{b \in Box : b.owner = u} \cup shared :
        shared \in SUBSET {b \in Box : /\ b.owner # u
                                      /\ Entries(acl, b.owner, b.folder) # {}}}

\* Own folders with "Shared" in their names are taken for levels above a
\* shared folder and passed over.
List(c) ==
    /\ pc[c] = "list"
    /\ \E listed \in Listings(who[c]) :
          /\ todo' = [todo EXCEPT ![c] =
                {b \in listed : b.owner = who[c] => b.folder \notin OddFolder}]
          /\ always' = [always EXCEPT ![c] = {e \in InForce(acl) : BoxOf(e) \in listed}]
    /\ pc' = [pc EXCEPT ![c] = "query"]
    /\ UNCHANGED <<acl, who, seen, entries, others, failed, was>>

ListFails(c) ==
    /\ pc[c] = "list"
    /\ pc' = [pc EXCEPT ![c] = "danger"]
    /\ UNCHANGED <<acl, who, todo, seen, entries, others, aclHistory>>

\* aclEntries: identifiers without "=" are skipped.
Lines(b) == {e \in Entries(acl, b.owner, b.folder) : Cut[e.id] # Unnamed}

\* appendOwnACLs and appendSharedACLs, what they may add: nothing for a name
\* there is an entry for already; all of an own folder; of another user's one
\* entry with this user's name, the first.
Gathered(c, b) ==
    LET his == {Tell(e) : e \in {l \in Lines(b) : Cut[l.id] = who[c]}}
    IN  IF b.folder \in seen[c] THEN {{}}
        ELSE IF b.owner = who[c] THEN {{Tell(e) : e \in Lines(b)}}
        ELSE IF his = {} THEN {{}} ELSE {{e} : e \in his}

\* Variant: a name is seen when it has been asked about.
QueryMarked(c, b) ==
    /\ pc[c] = "query"
    /\ b \in todo[c]
    /\ todo' = [todo EXCEPT ![c] = @ \ {b}]
    /\ \E new \in Gathered(c, b) : entries' = [entries EXCEPT ![c] = @ \cup new]
    /\ seen' = [seen EXCEPT ![c] = @ \cup {b.folder}]
    /\ UNCHANGED <<acl, pc, who, others, aclHistory>>

\* Variant: names are not remembered.
QueryUnmarked(c, b) ==
    /\ pc[c] = "query"
    /\ b \in todo[c]
    /\ todo' = [todo EXCEPT ![c] = @ \ {b}]
    /\ \E new \in Gathered(c, b) : entries' = [entries EXCEPT ![c] = @ \cup new]
    /\ UNCHANGED <<acl, pc, who, seen, others, aclHistory>>

\* Variant: an entry is put down under the user of the call.
QueryMisnamed(c, b) ==
    /\ pc[c] = "query"
    /\ b \in todo[c]
    /\ todo' = [todo EXCEPT ![c] = @ \ {b}]
    /\ \E new \in Gathered(c, b) :
          /\ entries' = [entries EXCEPT ![c] = @ \cup {[e EXCEPT !.user = who[c]] : e \in new}]
          /\ seen' = [seen EXCEPT ![c] = @ \cup {e.mailbox : e \in new}]
    /\ UNCHANGED <<acl, pc, who, others, aclHistory>>

\* One folder of the listing.
Query(c, b) ==
    /\ pc[c] = "query"
    /\ b \in todo[c]
    /\ todo' = [todo EXCEPT ![c] = @ \ {b}]
    /\ \E new \in Gathered(c, b) :
          /\ entries' = [entries EXCEPT ![c] = @ \cup new]
          /\ seen' = [seen EXCEPT ![c] = @ \cup {e.mailbox : e \in new}]
    /\ UNCHANGED <<acl, pc, who, others, aclHistory>>

\* A query that fails counts as one that has found nothing.  So does a folder
\* that a listing which broke off has not printed: nobody looks at exit codes.
QueryFails(c, b) ==
    /\ pc[c] = "query"
    /\ b \in todo[c]
    /\ todo' = [todo EXCEPT ![c] = @ \ {b}]
    /\ failed' = [failed EXCEPT ![c] = @ \cup {b}]
    /\ UNCHANGED <<acl, pc, who, seen, entries, others, was, always>>

Answer(c) ==
    /\ pc[c] = "query"
    /\ todo[c] = {}
    /\ pc' = [pc EXCEPT ![c] = "answered"]
    /\ UNCHANGED <<acl, who, todo, seen, entries, others, aclHistory>>

\* A user changes a list with his mail program.
ChangedElsewhere(u, f, i, rights) ==
    /\ others < MaxOthers
    /\ others' = others + 1
    /\ Changed(u, f, i, rights)
    /\ UNCHANGED <<pc, who, todo, seen, entries, failed>>

-----------------------------------------------------------------------------
AclNext ==
    \/ \E c \in Call : \/ Refuse(c) \/ List(c) \/ ListFails(c) \/ Answer(c)
                       \/ \E u \in User : Get(c, u)
                       \/ \E b \in todo[c] : Query(c, b) \/ QueryFails(c, b)
    \/ \E c \in Call, u \in User, f \in Folder, i \in User :
          \/ Delete(c, u, f, i)
          \/ \E requested \in SUBSET (Available \cup Unknown) : Set(c, u, f, i, requested)
    \/ \E u \in User, f \in Folder, i \in Identifier, rights \in Rights :
          ChangedElsewhere(u, f, i, rights)

AclSpec == AclInit /\ [][AclNext]_aclVars

-----------------------------------------------------------------------------
(* Properties                                                               *)

(* Every entry that is answered has been in force at some time of the call, *)
(* under that owner, with these rights and for an identifier of that name,  *)
(* however the lists change between the listing and the queries             *)
(* (doveadm.go:65-74, 165-177).  Which kind of identifier is not told.      *)
AnswerWasInForce == \A c \in Call : entries[c] \subseteq {Tell(e) : e \in was[c]}

(* Of somebody else's mailbox nothing is answered but a right of the name   *)
(* asked about (doveadm.go:39-41), and under one name never the entries of  *)
(* two owners, between which the caller could not tell.                     *)
AnswerIsHis ==
    \A c \in Call : \A e \in entries[c] :
        /\ who[c] \in {e.user, e.id}
        /\ \A d \in entries[c] : d.mailbox = e.mailbox => d.user = e.user

(* What has been in force on a listed folder from the listing on, for a     *)
(* user or a group, is answered, with these exceptions (doveadm.go:65-138,  *)
(* 151-178): the query of the folder failed; an own folder has "Shared" in  *)
(* its name; the answer has another owner's folder of that name; or, on     *)
(* somebody else's folder, the right of another identifier with the name of *)
(* this one.  Rights of anyone and of owner are never answered.             *)
NothingConcealed ==
    \A c \in Call : \A e \in always[c] :
        /\ pc[c] = "answered"
        /\ Cut[e.id] # Unnamed
        /\ who[c] \in {e.user, Cut[e.id]}
        /\ BoxOf(e) \notin failed[c]
        /\ e.user = who[c] => e.mailbox \notin OddFolder
        => \/ Tell(e) \in entries[c]
           \/ \E d \in entries[c] : d.mailbox = e.mailbox /\ d.user # e.user
           \/ /\ e.user # who[c]
              /\ \E r \in was[c] : /\ Tell(r) \in entries[c]
                                   /\ BoxOf(r) = BoxOf(e)
                                   /\ r.id # e.id
============================================================================
