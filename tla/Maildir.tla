------------------------------ MODULE Maildir ------------------------------
(***************************************************************************)
(* Moving mailboxes out of the way or to another name                      *)
(* (internal/actions/maildir.go): a script that moves the directory of a   *)
(* mailbox and then that of its index, run by the shell command by         *)
(* command, beside other calls, dovecot, which makes directories, and a    *)
(* container that may be killed.                                           *)
(*                                                                         *)
(* A directory keeps its identity wherever it goes; what matters is at     *)
(* which path it is.  Paths are tuples.  Moving a directory within a file  *)
(* system takes one step.  No mailbox lies inside another one, or has the  *)
(* name of the garbage directory.                                          *)
(***************************************************************************)
EXTENDS Naturals

CONSTANTS
    Script,    \* the calls that move a mailbox, of which each runs a script
    Mailbox,   \* values of maildir, "domain.tld/user"
    Plain,     \* those without a slash, which have no index
    Sane,      \* Sane[m]: the name without anything but word characters
    IndexName, \* IndexName[m]: "user@domain.tld", that of other mailboxes too
    Suffixed,  \* Suffixed[n]: the name with "_index" behind it
    Base,      \* Base[m]: the last component
    Directory,
    Nowhere,   \* where a directory is that has not been made yet
    MaxSecond  \* bound on the clock

ASSUME DirectoryAssumption ==
    /\ Mailbox # {}
    /\ Plain \subseteq Mailbox
    /\ MaxSecond \in Nat

VARIABLES
    step,     \* where the script of a call is
    src,      \* the mailbox it moves
    target,   \* to where: the mailbox's path and the index's
    answer,   \* the answer of the call
    where,    \* where each directory is
    second,   \* the clock
    begun,    \* history: the second the script of a call was begun in
    found,    \* history: the directories the script was to move
    moved,    \* history: those that have been moved since
    aside     \* history: the second and the name a directory was put aside under

dirVars == <<step, src, target, answer, where, second, begun, found, moved, aside>>
dirHistory == <<begun, found, moved, aside>>

\* Paths.  mv puts a directory inside another one when that is its target.
Mail(m) == <<"/var/vmail", m>>
Index(m) == <<"/var/vmail_index", IndexName[m]>>
MovedIndex(m) == <<"/var/vmail_index", Suffixed[IndexName[m]]>>
Garbage(t, n) == <<"/var/vmail/_garbage", t, n>>
GarbageIndex(t, n) == Garbage(t, Suffixed[n])
IsGarbage(path) == path[1] = "/var/vmail/_garbage"
Inside(d, base) == <<"inside", d, base>>
Bases == {Base[m] : m \in Mailbox} \cup {IndexName[m] : m \in Mailbox}

\* What a mailbox and its index are called in the garbage.  The suffix may
\* make the name of another mailbox of it.
GarbageNames == {Sane[m] : m \in Mailbox} \cup {Suffixed[Sane[m]] : m \in Mailbox}

ASSUME NowhereAssumption ==
    /\ \A m \in Mailbox : Nowhere \notin {Mail(m), Index(m)}
    /\ \A n \in GarbageNames, t \in 0 .. MaxSecond : Nowhere # Garbage(t, n)
    /\ \A d \in Directory, base \in Bases : Nowhere # Inside(d, base)

At(path) == {d \in Directory : where[d] = path}

HasIndex(m) == m \notin Plain

\* Where a script puts the mailbox and the index; no index is Nowhere.
Aims(mail, index) == [mail |-> mail, index |-> index]
Put(m, t) == Aims(Garbage(t, Sane[m]),
                  IF HasIndex(m) THEN GarbageIndex(t, Sane[m]) ELSE Nowhere)
Renamed(old, new) == Aims(Mail(new),
                          IF HasIndex(old) /\ HasIndex(new) THEN MovedIndex(new) ELSE Nowhere)

Targets == {Put(m, t) : m \in Mailbox, t \in 0 .. MaxSecond} \cup
           {Renamed(m, n) : m, n \in Mailbox}

ScriptStep == {"testMail", "moveMail", "testIndex", "moveIndex"}

DirTypeOK ==
    /\ step \in [Script -> {"begin", "end"} \cup ScriptStep]
    /\ src \in [Script -> Mailbox]
    /\ target \in [Script -> Targets]
    /\ answer \in [Script -> {"none", "success", "danger"}]
    /\ \A d, e \in Directory : where[d] = where[e] /\ where[d] # Nowhere => d = e
    /\ second \in 0 .. MaxSecond
    /\ begun \in [Script -> 0 .. MaxSecond]
    /\ found \in [Script -> SUBSET Directory]
    /\ moved \in [Script -> SUBSET Directory]
    /\ \A d \in Directory : aside[d] # Nowhere =>
          \E n \in GarbageNames, t \in 0 .. MaxSecond : aside[d] = <<t, n>>

DirInit ==
    /\ step = [c \in Script |-> "begin"]
    /\ src = [c \in Script |-> CHOOSE m \in Mailbox : TRUE]
    /\ target = [c \in Script |-> CHOOSE aims \in Targets : TRUE]
    /\ answer = [c \in Script |-> "none"]
    /\ where = [d \in Directory |-> Nowhere]
    /\ second = 0
    /\ begun = [c \in Script |-> 0]
    /\ found = [c \in Script |-> {}]
    /\ moved = [c \in Script |-> {}]
    /\ aside = [d \in Directory |-> Nowhere]

-----------------------------------------------------------------------------
(* The calls                                                                *)

\* The script is started.
Run(c, m, aims) ==
    /\ step[c] = "begin"
    /\ step' = [step EXCEPT ![c] = "testMail"]
    /\ src' = [src EXCEPT ![c] = m]
    /\ target' = [target EXCEPT ![c] = aims]
    /\ begun' = [begun EXCEPT ![c] = second]
    /\ found' = [found EXCEPT ![c] =
          At(Mail(m)) \cup IF aims.index = Nowhere THEN {} ELSE At(Index(m))]
    /\ moved' = [moved EXCEPT ![c] = {}]
    /\ UNCHANGED <<answer, where, second, aside>>

\* Variant: the garbage directory is named after the mailbox only.
CleanupUnstamped(c, m) == Run(c, m, Put(m, 0))

\* MaildirCleanup names the garbage directory after the second.
Cleanup(c, m) == Run(c, m, Put(m, second))

\* MaildirMove.
MoveTo(c, old, new) == Run(c, old, Renamed(old, new))

\* A field is missing, there is no container, or Docker fails.
RefuseScript(c) ==
    /\ step[c] = "begin"
    /\ step' = [step EXCEPT ![c] = "end"]
    /\ answer' = [answer EXCEPT ![c] = "danger"]
    /\ UNCHANGED <<src, target, where, second, dirHistory>>

\* Docker fails while the script runs; it goes on without the call.
AnswerLost(c) ==
    /\ step[c] \in ScriptStep
    /\ answer[c] = "none"
    /\ answer' = [answer EXCEPT ![c] = "danger"]
    /\ UNCHANGED <<step, src, target, where, second, dirHistory>>

-----------------------------------------------------------------------------
(* The script: if [[ -d mailbox ]]; then mv ...; fi && the same for the index *)

OnMail(c) == step[c] \in {"testMail", "moveMail"}
From(c) == IF OnMail(c) THEN Mail(src[c]) ELSE Index(src[c])
To(c) == IF OnMail(c) THEN target[c].mail ELSE target[c].index
BaseOf(c) == IF OnMail(c) THEN Base[src[c]] ELSE IndexName[src[c]]
NameOf(c) == IF OnMail(c) THEN Sane[src[c]] ELSE Suffixed[Sane[src[c]]]

AfterPart(c) ==
    IF OnMail(c) /\ target[c].index # Nowhere THEN "testIndex" ELSE "end"

\* The script has come to an end, well or not: the call is answered.
Ends(c, result) ==
    answer' = IF answer[c] = "none" THEN [answer EXCEPT ![c] = result] ELSE answer

\* The part is done.
Proceeds(c) ==
    /\ step' = [step EXCEPT ![c] = AfterPart(c)]
    /\ IF AfterPart(c) = "end" THEN Ends(c, "success") ELSE UNCHANGED answer

\* [[ -d ]]
Test(c) ==
    /\ step[c] \in {"testMail", "testIndex"}
    /\ IF At(From(c)) = {} THEN Proceeds(c)
       ELSE /\ step' = [step EXCEPT ![c] =
                   IF OnMail(c) THEN "moveMail" ELSE "moveIndex"]
            /\ UNCHANGED answer
    /\ UNCHANGED <<src, target, where, second, dirHistory>>

\* mv: into the target if that is a directory already.
Arrives(c) ==
    IF At(To(c)) = {} THEN To(c)
    ELSE Inside(CHOOSE e \in Directory : where[e] = To(c), BaseOf(c))

Move(c) ==
    /\ step[c] \in {"moveMail", "moveIndex"}
    /\ From(c) # To(c)
    /\ At(Arrives(c)) = {}
    /\ \E d \in At(From(c)) :
          /\ where' = [where EXCEPT ![d] = Arrives(c)]
          /\ moved' = [k \in Script |-> moved[k] \cup {d}]
          /\ aside' = [aside EXCEPT ![d] =
                IF IsGarbage(To(c)) THEN <<begun[c], NameOf(c)>> ELSE @]
    /\ Proceeds(c)
    /\ UNCHANGED <<src, target, second, begun, found>>

\* Variant: the parts are joined by a semicolon.
MoveFailsOn(c) ==
    /\ step[c] \in {"moveMail", "moveIndex"}
    /\ Proceeds(c)
    /\ UNCHANGED <<src, target, where, second, dirHistory>>

\* The directory has gone since it was tested, something of its name is in the
\* way, or mv fails for another reason.  The other part is not begun then.
MoveFails(c) ==
    /\ step[c] \in {"moveMail", "moveIndex"}
    /\ step' = [step EXCEPT ![c] = "end"]
    /\ Ends(c, "danger")
    /\ UNCHANGED <<src, target, where, second, dirHistory>>

\* The container is killed, and its shells with it.
Killed(c) ==
    /\ step[c] \in ScriptStep
    /\ step' = [step EXCEPT ![c] = "end"]
    /\ Ends(c, "danger")
    /\ UNCHANGED <<src, target, where, second, dirHistory>>

-----------------------------------------------------------------------------
(* The surroundings                                                         *)

\* dovecot makes the directories of a mailbox that has none.
Create(d, path) ==
    /\ where[d] = Nowhere
    /\ At(path) = {}
    /\ where' = [where EXCEPT ![d] = path]
    /\ UNCHANGED <<step, src, target, answer, second, dirHistory>>

Tick ==
    /\ second < MaxSecond
    /\ second' = second + 1
    /\ UNCHANGED <<step, src, target, answer, where, dirHistory>>

DirNext ==
    \/ \E c \in Script : \/ RefuseScript(c)
                         \/ \E m \in Mailbox : Cleanup(c, m)
                         \/ \E old, new \in Mailbox : MoveTo(c, old, new)
                         \/ Test(c) \/ Move(c) \/ MoveFails(c)
                         \/ Killed(c) \/ AnswerLost(c)
    \/ \E d \in Directory, m \in Mailbox :
          Create(d, Mail(m)) \/ (HasIndex(m) /\ Create(d, Index(m)))
    \/ Tick

DirSpec == DirInit /\ [][DirNext]_dirVars

-----------------------------------------------------------------------------
(* Properties                                                               *)

(* Success means that the mailbox and the index that were there when the    *)
(* script began have both been moved, by this script or by another one in   *)
(* its way (maildir.go:53-73, 97-117).                                      *)
SuccessVacates == \A c \in Script : answer[c] = "success" => found[c] \subseteq moved[c]

(* What a clean-up puts aside comes to lie inside what was put aside before *)
(* only if both have one name in the garbage in one second                  *)
(* (maildir.go:51-64).  Two mailboxes can have that, like "a/b" and "ab"    *)
(* (sanitizeName, 21-23), and so can the index of "a/b", which is put aside *)
(* as the mailbox "a/b_index" is.                                           *)
AsideBySecond ==
    \A d, e \in Directory, base \in Bases :
        aside[d] # Nowhere /\ where[d] = Inside(e, base) => aside[e] = aside[d]
============================================================================
