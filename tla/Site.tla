-------------------------------- MODULE Site --------------------------------
(* How the server is reached: its port, its host name and certificate.  The two components share no   *)
(* state that these are about: a behaviour is of one of them, and the variables that are not this     *)
(* component's hold nothing.                                                                          *)
EXTENDS Naturals, FiniteSets

CONSTANTS Off,
  Ports, MaxRequests, MaxMishaps,
  Admins, Upkeep, Names, First, Uploads, MaxChanges, MaxWeeks,
  MaxFaults

\* A port's number is above 0; installed on one of them.
ASSUME PortsAssumption == Ports \subseteq Nat \ {0}

\* A certificate covers host names, and NetRollout's own is issued to one ("org" stands for an
\* organisation's); the upkeep is a thread of the app.
ASSUME NamesAssumption ==
  /\ First \in Names /\ Names \cap {"org", "none"} = {}
  /\ Uploads \subseteq SUBSET Names
  /\ Upkeep \notin Admins /\ "free" \notin Admins \cup {Upkeep}

VARIABLES part,
  env, published, saved, saver, confirmer, update, helper, reached,
  host, files, doing, verdict, seen,
  lock, site, status, count

Port == INSTANCE PortTrial
Access == INSTANCE SiteAccess

-----------------------------------------------------------------------------

portVars == <<env, published, saved, saver, confirmer, update, helper, reached>>
accessVars == <<host, files, doing, verdict, seen>>
vars == <<part, lock, site, status, count, portVars, accessVars>>

NoPort ==
  /\ env = Off /\ published = Off /\ saved = Off /\ saver = Off /\ confirmer = Off
  /\ update = Off /\ helper = Off /\ reached = Off
NoAccess == host = Off /\ files = Off /\ doing = Off /\ verdict = Off /\ seen = Off

Init ==
  \/ part = "port" /\ Port!Init /\ lock = Off /\ NoAccess
  \/ part = "access" /\ Access!Init /\ status = Off /\ NoPort

Next ==
  /\ UNCHANGED part
  /\ \/ part = "port" /\ Port!Next /\ UNCHANGED <<lock, accessVars>>
     \/ part = "access" /\ Access!Next /\ UNCHANGED <<status, portVars>>

Spec == Init /\ [][Next]_vars

-----------------------------------------------------------------------------

\* PortTrial: nginx listens on the port .env publishes and on the one the app's addresses name, a port
\* that the page offers to confirm is open, and another port is kept only when a browser came through it
\* in that trial.
PortSafe ==
  /\ [](part = "port" => Port!TypeOK /\ Port!Reachable /\ Port!OfferedIsOpen)
  /\ [][part = "port" => Port!KeptIsConfirmed]_vars

\* SiteAccess: a refused change leaves the setting and nginx's host name as they were and its certificate out
\* of place; and until an upkeep, or a putting back, fails halfway, the folder holds a certificate with its own
\* key, and an organisation's certificate goes only when a person replaces it.
AccessSafe ==
  /\ [](part = "access" => Access!TypeOK /\ Access!PairWhole /\ Access!AllOrNothing)
  /\ [][part = "access" => Access!OrganisationKept]_vars

-----------------------------------------------------------------------------
(* What comments of the code say and the models do not: no configuration lists these *)

\* PortTrial: the port in use is the published one, between trials.
InUseIsPublished == part = "port" => Port!InUseIsPublished
\* SiteAccess: nginx's host name is the saved one, between changes.
HostnamesAgree == part = "access" => Access!HostnamesAgree
\* SiteAccess: every change of the certs folder is all or nothing.
PairAlwaysWhole == part = "access" => Access!PairAlwaysWhole
=============================================================================
