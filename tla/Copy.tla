-------------------------------- MODULE Copy --------------------------------
(***************************************************************************)
(* What a copy of the developer's project is: their compose file, what     *)
(* their configuration says of each service in it, the check the two must  *)
(* pass together, and the document that is booted (cli/internal/sandbox:   *)
(* compose.go, environment.go, overlay.go, stack.go; app/sandbox.go).      *)
(*                                                                         *)
(* A compose file, as compose resolves it:                                 *)
(*   project      its name                                                 *)
(*   services     what each service declares                               *)
(*   networks     what each network says: whether its driver is a bridge,  *)
(*                and whether it is open, lets what is on it call out (a     *)
(*                bridge does by its masquerade, other drivers in their way) *)
(*   volumes      what each named volume says                              *)
(* A service:                                                              *)
(*   needs        each service it depends on, TRUE when it is required     *)
(*   profiles     one of these must be asked for, when there is any        *)
(*   ports        the host ports it publishes                              *)
(*   name         its fixed container name, or Unset                       *)
(*   mounts       [kind, source, target, ro]                               *)
(*   joins        the networks it joins                                    *)
(*   login        it declares a user, a password and a database            *)
(*   restart      docker starts it again                                   *)
(*   loopback     container ports published on a loopback port of the copy *)
(* An environment, as the configuration writes it down:                    *)
(*   role, why    of each service it names, and whether a reason is given  *)
(*   sql          the services whose rows are measured                     *)
(*   answers      the services with a port, and a driver where one is due  *)
(*   writable     container paths the app writes to                        *)
(*   egress       Unset, "deny" or "allow"                                 *)
(*                                                                         *)
(* Operators whose names end in _ are mutants of the operator after them.  *)
(***************************************************************************)
EXTENDS Naturals, FiniteSets, TLC

CONSTANTS
  Unset,      \* a key that is not in the document
  Default,    \* the network of a service that names none
  Project     \* the compose project of the copy

Roles == {"tested", "support", "schema", "on_demand", "ignore"}

HoldProfile == "gritqa-on-demand"

ASSUME ProjectAssumption == Project # "fixed"

Names(c) == DOMAIN c.services

Required(c, s) == {t \in DOMAIN c.services[s].needs : c.services[s].needs[t]}

\* What a service and an entry of it declare.
ServiceKeys == {"needs", "profiles", "ports", "name", "mounts", "joins", "restart", "loopback", "login"}
MountKeys   == {"kind", "source", "target", "ro"}
NetworkKeys == {"external", "name", "bridge", "open"}

\* What compose prints of a file it accepts, and parseCompose keeps: short forms expanded,
\* every name stamped in, nothing needed or mounted that is not declared.
Resolved(c) ==
  /\ \A s \in Names(c) :
       /\ DOMAIN c.services[s] = ServiceKeys
       /\ \A t \in DOMAIN c.services[s].needs :
            t \in Names(c) \ {s} /\ c.services[s].needs[t] \in BOOLEAN
       /\ \A m \in c.services[s].mounts :
            DOMAIN m = MountKeys /\ (m.kind = "volume" => m.source \in DOMAIN c.volumes)
       /\ \A m, n \in c.services[s].mounts : m.target = n.target => m = n
       /\ c.services[s].joins \subseteq DOMAIN c.networks
  /\ \A v \in DOMAIN c.volumes :
       DOMAIN c.volumes[v] = {"external", "name"} /\ c.volumes[v].name # Unset
  /\ \A n \in DOMAIN c.networks :
       /\ DOMAIN c.networks[n] = NetworkKeys /\ c.networks[n].name # Unset
       /\ c.networks[n].bridge \in BOOLEAN /\ c.networks[n].open \in BOOLEAN

\* The names that are GritQA's own are in no file of a developer: HoldProfile, and the name
\* projectName makes of a prefix and the fingerprint of the file.
Theirs(c) ==
  c.project # Project /\ \A s \in Names(c) : HoldProfile \notin c.services[s].profiles

-----------------------------------------------------------------------------
(* What an environment says.                                               *)

\* fromConfig keeps what the configuration says, per service.
Playing(e, r) == {s \in DOMAIN e.role : e.role[s] = r}

Ignored(e)  == Playing(e, "ignore")
OnDemand(e) == Playing(e, "on_demand")
Schema(e)   == Playing(e, "schema")
Denied(e)   == e.egress # "allow"

\* checkClosure: every service that is kept is asked, so the walk along required
\* dependencies finds an ignored one just when some kept service names it.
Closure(c, e) ==
  \A s \in DOMAIN e.role \ Ignored(e) : Required(c, s) \cap Ignored(e) = {}

\* checkServices.  A configuration names a service once, so none has two roles.
CheckServices(c, e) ==
  /\ DOMAIN e.role = Names(c)
  /\ \A s \in Names(c) :
       /\ e.role[s] \in Roles
       /\ e.role[s] = "ignore" => s \in e.why
       /\ s \in e.sql => e.role[s] # "tested" /\ s \in e.answers
  /\ Cardinality(Playing(e, "tested")) = 1
  /\ Closure(c, e)
  /\ e.egress \in {Unset, "deny", "allow"}

\* Normalize.  The first service measured over sql, in the order of their names, is the
\* database; which comes first is a choice here.
App(e)       == CHOOSE s \in Playing(e, "tested") : TRUE
Databases(e) == IF e.sql = {} THEN {Unset} ELSE e.sql

\* Check.
Check(c, e) == CheckServices(c, e) /\ App(e) \in e.answers

\* environment: verdicts are written down, and pass the check on every boot.
Environment(c, e) == DOMAIN e.role # {} /\ Check(c, e)

\* Resolve: the login comes from what the database declares, whether or not there is a
\* client that would use it.
Resolves(c, db) == db = Unset \/ c.services[db].login

-----------------------------------------------------------------------------
(* The document that is booted.                                            *)

\* What the boot leaves out: gone from the document, or parked behind HoldProfile.
Held(e)   == OnDemand(e) \cup Schema(e)
Absent(e) == Ignored(e) \cup Held(e)

\* Mutant: only what is gone is detached.
DetachGone_(needs, e) == [t \in DOMAIN needs \ Ignored(e) |-> needs[t]]

\* detach.
Detach(needs, e) == [t \in DOMAIN needs \ Absent(e) |-> needs[t]]

\* sealed: a bind reaches into the developer's tree.
Sealed(mounts) == {IF m.kind = "bind" THEN [m EXCEPT !.ro = TRUE] ELSE m : m \in mounts}

SharedVolume(p) == <<"gritqa-writable", p>>

\* writable: a volume over each path, instead of what was mounted there.
Writable(mounts, paths) ==
  {m \in mounts : m.target \notin paths}
  \cup {[kind |-> "volume", source |-> SharedVolume(p), target |-> p, ro |-> FALSE] : p \in paths}

Sharing(e) == {App(e)} \cup Schema(e)

\* One service of the copy.
Copied(s, decl, e, db) ==
  [decl EXCEPT
     !.name     = Unset,
     !.restart  = FALSE,
     !.profiles = IF s \in Held(e) THEN {HoldProfile} ELSE @,
     !.needs    = Detach(@, e),
     !.ports    = {},
     !.loopback = s \in {App(e), db},
     !.mounts   = IF s \in Sharing(e) THEN Writable(Sealed(@), e.writable) ELSE Sealed(@)]

\* scope: the entry becomes the copy's own.
Scope(entry) == [entry EXCEPT !.external = FALSE, !.name = Unset]

\* seal: only a bridge has a masquerade to turn off.  Any other driver is left as it was.
Seal(net) == [net EXCEPT !.open = @ /\ ~net.bridge]

Bare == [external |-> FALSE, name |-> Unset, bridge |-> TRUE, open |-> TRUE]

\* Mutant: the networks the file declares are sealed, and no other.
NetworksDeclared_(c, e) ==
  IF Denied(e) THEN [n \in DOMAIN c.networks |-> Scope(Seal(c.networks[n]))]
  ELSE [n \in DOMAIN c.networks |-> Scope(c.networks[n])]

\* Denying means naming the network a service joins when it names none.
Networks(c, e) ==
  LET named == DOMAIN c.networks
      net(n) == IF n \in named THEN c.networks[n] ELSE Bare
  IN  [n \in IF Denied(e) THEN named \cup {Default} ELSE named |->
         Scope(IF Denied(e) THEN Seal(net(n)) ELSE net(n))]

\* Overlay.
Overlay(c, e, db) ==
  [project  |-> Project,
   services |-> [s \in Names(c) \ Ignored(e) |-> Copied(s, c.services[s], e, db)],
   networks |-> Networks(c, e),
   volumes  |-> [v \in DOMAIN c.volumes \cup {SharedVolume(p) : p \in e.writable} |->
                   IF v \in DOMAIN c.volumes THEN Scope(c.volumes[v]) ELSE [external |-> FALSE, name |-> Unset]]]

-----------------------------------------------------------------------------
(* Bringing it up.                                                         *)

\* bootProfiles: the profiles of the app and of the database, and no others.
BootProfiles(c, e, db) == UNION {c.services[s].profiles : s \in {App(e), db} \cap Names(c)}

\* What compose starts under these profiles.
Up(doc, profiles) ==
  {s \in Names(doc) : doc.services[s].profiles = {} \/ doc.services[s].profiles \cap profiles # {}}

\* compose refuses to start what requires a service it does not start.
Starts(doc, profiles) == \A s \in Up(doc, profiles) : Required(doc, s) \subseteq Up(doc, profiles)

\* compose run starts the service and, every profile asked for, what it depends on.
Needing(doc, some) ==
  {t \in Names(doc) \cup some :
     \A all \in SUBSET (Names(doc) \cup some) :
       some \subseteq all /\ (\A s \in all \cap Names(doc) : DOMAIN doc.services[s].needs \cap Names(doc) \subseteq all)
         => t \in all}

\* Schema: every step in turn, the service it names and what that one depends on.
SchemaRuns(doc, e) == {<<s, Needing(doc, {s})>> : s \in Schema(e)}

\* What the containers of a document hold of the machine: a name that is fixed, or of the
\* project.
Called(doc, entry, key) == IF entry.name = Unset THEN <<doc.project, key>> ELSE <<"fixed", entry.name>>

Mounts(doc)  == UNION {doc.services[s].mounts : s \in Names(doc)}
On(doc, s)   == IF doc.services[s].joins = {} THEN {Default} ELSE doc.services[s].joins
Joins(doc)   == UNION {On(doc, s) : s \in Names(doc)}

Holds(doc) ==
  {<<"port", p>> : p \in (UNION {doc.services[s].ports : s \in Names(doc)})}
  \cup {<<"container", Called(doc, doc.services[s], s)>> : s \in Names(doc)}
  \cup {<<"volume", Called(doc, doc.volumes[m.source], m.source)>> :
          m \in {n \in Mounts(doc) : n.kind = "volume"}}
  \cup {<<"network", Called(doc, doc.networks[n], n)>> : n \in Joins(doc) \cap DOMAIN doc.networks}
  \cup {<<"tree", m.source>> : m \in {n \in Mounts(doc) : n.kind = "bind" /\ ~n.ro}}

\* The networks over which a service can call out; one the document does not declare is a
\* bridge of docker's own making, and open.
WaysOut(doc, s) == {n \in On(doc, s) : n \in DOMAIN doc.networks => doc.networks[n].open}

-----------------------------------------------------------------------------
(* Properties of one file and one environment that passed the check.       *)

\* The copy comes up where the developer's own file does: no service that boots waits for
\* one that is missing, none lost a service it requires other than one held back, and the
\* app and the database are among what boots.  A service measured over sql that is
\* anything but support is left out: Check lets it pass, and it is not up to be read.
BootsLikeTheirs(c, e) ==
  \A db \in Databases(e) :
    LET doc      == Overlay(c, e, db)
        profiles == BootProfiles(c, e, db)
    IN  Starts(c, profiles) /\ Resolves(c, db) /\ e.sql \subseteq Playing(e, "support") =>
          /\ Starts(doc, profiles)
          /\ \A s \in Up(doc, profiles) : Required(c, s) \subseteq Up(doc, profiles) \cup Held(e)
          /\ {App(e), db} \ {Unset} \subseteq Up(doc, profiles)

\* Nothing that was to be held back or left out is started, by the boot or behind a schema
\* step, and each schema service runs once, as its step.
RunsAsAsked(c, e) ==
  \A db \in Databases(e) :
    LET doc == Overlay(c, e, db)
        up  == Up(doc, BootProfiles(c, e, db))
    IN  /\ (up \cup (UNION {r[2] : r \in SchemaRuns(doc, e)})) \cap (OnDemand(e) \cup Ignored(e)) = {}
        /\ up \cap Schema(e) = {}
        /\ \A r \in SchemaRuns(doc, e) : r[2] \cap Schema(e) = {r[1]}

\* The copy holds nothing of the machine the developer's own stack holds, and nothing that
\* is not its project's; no two mounts of a service meet; what the app and the schema steps
\* write under a writable path is the copy's; and a copy that is cut off has no way out but
\* a network the file gave a driver that is not a bridge, on which seal does nothing.
IsApart(c, e) ==
  \A db \in Databases(e) :
    LET doc == Overlay(c, e, db)
    IN  /\ Holds(doc) \cap Holds(c) = {}
        /\ \A h \in Holds(doc) : h[1] \in {"container", "volume", "network"} /\ h[2][1] = Project
        /\ \A s \in Names(doc) : \A m, n \in doc.services[s].mounts : m.target = n.target => m = n
        /\ \A s \in Sharing(e) : \A m \in doc.services[s].mounts :
             m.target \in e.writable => m.kind = "volume" /\ ~m.ro
        /\ Denied(e) => \A s \in Names(doc) : \A n \in WaysOut(doc, s) :
             n \in DOMAIN doc.networks /\ ~doc.networks[n].bridge

\* What environment.go:48-50 promises: no service of a copy that is cut off can call out,
\* whatever it was taken for.  It does not hold: seal leaves any other driver open.
IsCutOff(c, e) ==
  \A db \in Databases(e) :
    LET doc == Overlay(c, e, db)
    IN  Denied(e) => \A s \in Names(doc) : WaysOut(doc, s) = {}

=============================================================================
