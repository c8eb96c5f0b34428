---------------------------- MODULE PeerResolver ---------------------------
(***************************************************************************)
(* internal/peers: the cache behind the container names in the log.  A     *)
(* connection whose TLS handshake failed reports one line from its own     *)
(* goroutine (errorlog.go); the line names the container that holds the    *)
(* address, from a cache that one listing of all containers fills          *)
(* (peers.go).                                                             *)
(*                                                                         *)
(* The lines of a server go through one log.Logger, which holds its mutex  *)
(* while it calls Write: lookups run one after the other.  The resolver's  *)
(* own mutex guards single steps only and is not modelled.                 *)
(*                                                                         *)
(* Addresses move between containers at any time.  Time is counted in      *)
(* ticks, as the ages of what is remembered; an age stops counting where   *)
(* nothing depends on it any more.  A call to Docker or to DNS may take    *)
(* until its deadline and no longer, and the steps between the calls take  *)
(* no time.                                                                *)
(***************************************************************************)
EXTENDS Naturals

CONSTANTS
    IP,        \* the addresses of the stack
    Container,
    Writer,    \* the slots for connections that report a line
    Nobody,    \* the owner of an address no container has
    Unlisted,  \* the answer when Docker could not be asked
    None,      \* no address, no writer
    TTL,       \* DefaultTTL, in ticks
    Timeout,   \* DefaultTimeout, in ticks
    Patience   \* bound: how far the age of a report is counted

Owner == Container \cup {Nobody}

\* What a lookup says of an address.  Nobody and Unlisted make the same line,
\* one without peer_container: with the name DNS gives, or the bare address.
Peer == Owner \cup {Unlisted}

Horizon == TTL + Timeout

ASSUME ConstantsAssumption ==
    /\ {TTL, Timeout} \subseteq Nat \ {0}
    /\ Patience \in Nat
    /\ Nobody \notin Container
    /\ Unlisted \notin Owner
    /\ None \notin IP \cup Writer

VARIABLES
    owner,   \* Docker: who holds each address
    since,   \* history: since[ip][c] ticks ago c last held ip
    asked,   \* history: ticks since Docker was asked about ip or named it
    entries, \* Resolver.entries; a missing entry is one that is too old
    holder,  \* the mutex of the server's error log
    call     \* the goroutines that write a line

vars == <<owner, since, asked, entries, holder, call>>

Entry == [peer: Peer, age: 0 .. TTL]

Call == [pc: {"idle", "lock", "cache", "list", "listed", "dns", "log"},
         ip: IP \cup {None}, spent: 0 .. Timeout, found: [IP -> Owner],
         peer: Peer, waited: 0 .. Patience]

TypeOK ==
    /\ owner \in [IP -> Owner]
    /\ since \in [IP -> [Owner -> 0 .. Horizon]]
    /\ asked \in [IP -> 0 .. TTL]
    /\ entries \in [IP -> Entry]
    /\ holder \in Writer \cup {None}
    /\ call \in [Writer -> Call]

NothingFound == [ip \in IP |-> Nobody]

Idle == [pc |-> "idle", ip |-> None, spent |-> 0, found |-> NothingFound,
         peer |-> Unlisted, waited |-> 0]

Init ==
    /\ owner = [ip \in IP |-> Nobody]
    /\ since = [ip \in IP |->
                   [c \in Owner |-> IF c = Nobody THEN 0 ELSE Horizon]]
    /\ asked = [ip \in IP |-> TTL]
    /\ entries = [ip \in IP |-> [peer |-> Unlisted, age |-> TTL]]
    /\ holder = None
    /\ call = [w \in Writer |-> Idle]

-----------------------------------------------------------------------------
(* Docker, and the clock                                                   *)

\* A container stops or starts: an address changes hands.
Recycle(ip, c) ==
    /\ owner[ip] # c
    /\ owner' = [owner EXCEPT ![ip] = c]
    /\ since' = [since EXCEPT ![ip] = [@ EXCEPT ![c] = 0]]
    /\ UNCHANGED <<asked, entries, holder, call>>

Older(age, cap) == IF age < cap THEN age + 1 ELSE cap

\* Variant: resolve runs without a deadline.
DeadlineNever(w) == FALSE

\* context.WithTimeout in resolve: one deadline for Docker and DNS together.
Deadline(w) ==
    /\ call[w].pc \in {"list", "listed", "dns"}
    /\ call[w].spent = Timeout

\* The goroutine has something to do that waits for nobody.
Runnable(w) ==
    \/ call[w].pc \in {"cache", "log"}
    \/ call[w].pc = "lock" /\ holder = None

Tick ==
    /\ \A w \in Writer : ~ Deadline(w) /\ ~ Runnable(w)
    /\ since' = [ip \in IP |-> [c \in Owner |->
                    IF owner[ip] = c THEN 0
                                     ELSE Older(since[ip][c], Horizon)]]
    /\ asked' = [ip \in IP |-> Older(asked[ip], TTL)]
    /\ entries' = [ip \in IP |->
                      [entries[ip] EXCEPT !.age = Older(@, TTL)]]
    /\ call' = [w \in Writer |-> [call[w] EXCEPT
          !.spent = IF call[w].pc \in {"list", "listed", "dns"}
                    THEN Older(@, Timeout + 1) ELSE @,
          !.waited = IF call[w].pc = "idle" THEN @ ELSE Older(@, Patience)]]
    /\ UNCHANGED <<owner, holder>>

-----------------------------------------------------------------------------
(* One line: log.Logger, errorWriter.Write, Resolver.Lookup              *)

\* net/http reports a line; None for one without an address to resolve.
LogLine(w, ip) ==
    /\ call[w].pc = "idle"
    /\ call' = [call EXCEPT ![w] = [Idle EXCEPT !.pc = "lock", !.ip = ip]]
    /\ UNCHANGED <<owner, since, asked, entries, holder>>

Acquire(w) ==
    /\ call[w].pc = "lock"
    /\ holder = None
    /\ holder' = w
    /\ call' = [call EXCEPT ![w] = [@ EXCEPT
          !.pc = IF call[w].ip = None THEN "log" ELSE "cache"]]
    /\ UNCHANGED <<owner, since, asked, entries>>

Fresh(ip) == entries[ip].age < TTL

\* Variant: a hit prolongs the life of the entry.
CacheHitSliding(w) ==
    /\ call[w].pc = "cache"
    /\ Fresh(call[w].ip)
    /\ call' = [call EXCEPT ![w] = [@ EXCEPT
          !.pc = "log", !.peer = entries[call[w].ip].peer]]
    /\ entries' = [entries EXCEPT ![call[w].ip] = [@ EXCEPT !.age = 0]]
    /\ UNCHANGED <<owner, since, asked, holder>>

CacheHit(w) ==
    /\ call[w].pc = "cache"
    /\ Fresh(call[w].ip)
    /\ call' = [call EXCEPT ![w] = [@ EXCEPT
          !.pc = "log", !.peer = entries[call[w].ip].peer]]
    /\ UNCHANGED <<owner, since, asked, entries, holder>>

CacheMiss(w) ==
    /\ call[w].pc = "cache"
    /\ ~ Fresh(call[w].ip)
    /\ call' = [call EXCEPT ![w] = [@ EXCEPT !.pc = "list"]]
    /\ asked' = [asked EXCEPT ![call[w].ip] = 0]
    /\ UNCHANGED <<owner, since, entries, holder>>

\* Docker takes the listing ...
Snapshot(w) ==
    /\ call[w].pc = "list"
    /\ call' = [call EXCEPT ![w] = [@ EXCEPT
          !.pc = "listed", !.found = owner]]
    /\ UNCHANGED <<owner, since, asked, entries, holder>>

\* Variant: only the address asked for is stored.
ListReturnsOne(w) ==
    /\ call[w].pc = "listed"
    /\ LET ip     == call[w].ip
           found  == call[w].found
           listed == {i \in IP : found[i] # Nobody}
       IN  /\ entries' = [i \in IP |->
                 IF i \in listed \cap {ip}
                 THEN [peer |-> found[i], age |-> 0] ELSE entries[i]]
           /\ asked' = [i \in IP |-> IF i \in listed THEN 0 ELSE asked[i]]
           /\ call' = [call EXCEPT ![w] = [@ EXCEPT
                 !.pc = IF ip \in listed THEN "log" ELSE "dns",
                 !.found = NothingFound,
                 !.peer = found[ip]]]
    /\ UNCHANGED <<owner, since, holder>>

\* ... and the answer arrives: every address in it is stored, and the one
\* asked for is answered, or tried with DNS.
ListReturns(w) ==
    /\ call[w].pc = "listed"
    /\ LET ip     == call[w].ip
           found  == call[w].found
           listed == {i \in IP : found[i] # Nobody}
       IN  /\ entries' = [i \in IP |->
                 IF i \in listed
                 THEN [peer |-> found[i], age |-> 0] ELSE entries[i]]
           /\ asked' = [i \in IP |-> IF i \in listed THEN 0 ELSE asked[i]]
           /\ call' = [call EXCEPT ![w] = [@ EXCEPT
                 !.pc = IF ip \in listed THEN "log" ELSE "dns",
                 !.found = NothingFound,
                 !.peer = found[ip]]]
    /\ UNCHANGED <<owner, since, holder>>

\* An error, or the deadline: nothing is known of the address.
ListFails(w) ==
    /\ call[w].pc \in {"list", "listed"}
    /\ call' = [call EXCEPT ![w] = [@ EXCEPT
          !.pc = "dns", !.found = NothingFound]]
    /\ UNCHANGED <<owner, since, asked, entries, holder>>

\* DNS has a name for the address, has none, or fails.  Each is stored.
Resolved(w) ==
    /\ call[w].pc = "dns"
    /\ entries' = [entries EXCEPT
          ![call[w].ip] = [peer |-> call[w].peer, age |-> 0]]
    /\ call' = [call EXCEPT ![w] = [@ EXCEPT !.pc = "log"]]
    /\ UNCHANGED <<owner, since, asked, holder>>

\* The line is written and the mutex released.
Report(w) ==
    /\ call[w].pc = "log"
    /\ holder' = None
    /\ call' = [call EXCEPT ![w] = Idle]
    /\ UNCHANGED <<owner, since, asked, entries>>

Next ==
    \/ Tick
    \/ \E ip \in IP, c \in Owner : Recycle(ip, c)
    \/ \E w \in Writer :
          \/ \E ip \in IP \cup {None} : LogLine(w, ip)
          \/ Acquire(w) \/ CacheHit(w) \/ CacheMiss(w)
          \/ Snapshot(w) \/ ListReturns(w) \/ ListFails(w)
          \/ Resolved(w) \/ Report(w)

Spec == Init /\ [][Next]_vars

\* The calls return at their deadline; before it, nobody has to answer.
GiveUp(w) == Deadline(w) /\ (ListFails(w) \/ Resolved(w))

\* A sync.Mutex hands over to a goroutine that has waited for a millisecond.
Fairness ==
    /\ WF_vars(Tick)
    /\ \A w \in Writer :
          /\ SF_vars(Acquire(w))
          /\ WF_vars(CacheHit(w) \/ CacheMiss(w) \/ GiveUp(w) \/ Report(w))

FairSpec == Spec /\ Fairness

-----------------------------------------------------------------------------
(* Properties                                                              *)

\* c held ip less than a TTL and a timeout ago.
Recent(ip, c) == c = Unlisted \/ since[ip][c] < Horizon

(* A line names the holder its address had at some moment of the last TTL   *)
(* and Timeout, and says that it had none only when this was so at such a   *)
(* moment or Docker could not be asked (peers.go:35-36: a recycled address  *)
(* is attributed to its new container within a minute).                     *)
RecentAttribution ==
    [][\A w \in Writer : Report(w) /\ call[w].ip # None
          => Recent(call[w].ip, call[w].peer)]_vars

(* Docker is asked about an address only when neither a lookup of it nor a  *)
(* listing with it in has ended within the last TTL (peers.go:37-38: one    *)
(* Docker call per TTL rather than one per probe; 219-220: the next peer is *)
(* answered without another call).                                          *)
OneListingPerTTL ==
    [][\A w \in Writer : CacheMiss(w) => asked[call[w].ip] = TTL]_vars

(* Every line is written, also while Docker and DNS answer nothing          *)
(* (timeout_test.go:108, TestErrorLogWriteReturnsWhileLookupsHang).         *)
EveryLineWritten ==
    \A w \in Writer : call[w].pc # "idle" ~> call[w].pc = "idle"

(* timeout_test.go:105-107: "the timeout above is only worth anything if    *)
(* Write, the function net/http actually calls, is bounded by it too".      *)
BoundedByTimeout == \A w \in Writer : call[w].waited <= Timeout
=============================================================================
