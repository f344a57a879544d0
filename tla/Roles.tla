------------------------------- MODULE Roles -------------------------------
(***************************************************************************)
(* The catalog of roles and of what is granted to them: CREATE ROLE, DROP  *)
(* ROLE, GRANT and REVOKE written as INSERT and DELETE on __pg_authid__    *)
(* and __pg_acl__, and the roles that are made for users nobody created.   *)
(* A grant names its role by number, and DROP ROLE leaves grants behind.   *)
(* What is granted here is not what a statement is let do: the check of    *)
(* that is left aside.                                                     *)
(***************************************************************************)
EXTENDS Naturals, Sequences

CONSTANTS
  RoleNames,   \* with "postgres"
  Relations,   \* tables and views, none of which is dropped here
  Privileges,
  Grants,      \* what GRANT and REVOKE say: [objects, privileges, grantees]
  MaxOid       \* bound: the largest number of a role

Grantees == RoleNames \cup {"PUBLIC"}

ASSUME RolesAssumption ==
  /\ "postgres" \in RoleNames /\ "PUBLIC" \notin RoleNames
  /\ \A g \in Grants : /\ g.objects \in Seq(Relations)
                       /\ g.privileges \in Seq(Privileges)
                       /\ g.grantees \in Seq(Grantees)
  /\ MaxOid \in Nat /\ MaxOid > 10

VARIABLES
  oid,      \* of each name: its role's number, or 0
  nextOid,  \* the next number AUTOINCREMENT gives
  acl,      \* __pg_acl__: [relation, privilege, grantee]
  granted,  \* history: what was granted to the role of each name and not revoked
  lost,     \* history: roles with a GRANT of which only a part is recorded
  kept      \* history: roles with a REVOKE that deletes nothing

roleVars == <<oid, nextOid, acl, granted, lost, kept>>

FirstOid == 10

\* init_catalog makes postgres.
RoleInit ==
  /\ oid = [n \in RoleNames |-> IF n = "postgres" THEN FirstOid ELSE 0]
  /\ nextOid = FirstOid + 1
  /\ acl = {}
  /\ granted = [n \in RoleNames |-> {}]
  /\ lost = {}
  /\ kept = {}

Exists(n) == oid[n] # 0

-----------------------------------------------------------------------------
(* Roles *)

\* Faulty variant: as without AUTOINCREMENT, the number after the largest there is.
NewOidReused(k) ==
  /\ k \in 1..MaxOid
  /\ \A n \in RoleNames : oid[n] < k
  /\ \E n \in RoleNames : oid[n] + 1 = k
  /\ nextOid' = k + 1

\* __pg_authid__.oid is AUTOINCREMENT: a number is never given twice.
NewOid(k) ==
  /\ k = nextOid
  /\ nextOid' = k + 1

\* CREATE ROLE, whose attributes and password are left out, and check_permissions
\* for a user without a role.  rolname is UNIQUE: for a name that exists the
\* INSERT fails.
MakeRole(n) ==
  /\ ~Exists(n)
  /\ \E k \in 1..MaxOid :
       /\ NewOid(k)
       /\ oid' = [oid EXCEPT ![n] = k]
  /\ granted' = [granted EXCEPT ![n] = {}]
  /\ lost' = lost \ {n}
  /\ kept' = kept \ {n}
  /\ UNCHANGED acl

\* Names that do not exist are no error; grants stay.
DropRole(ns) ==
  /\ oid' = [n \in RoleNames |-> IF n \in ns THEN 0 ELSE oid[n]]
  /\ granted' = [n \in RoleNames |-> IF n \in ns THEN {} ELSE granted[n]]
  /\ UNCHANGED <<nextOid, acl, lost, kept>>

\* init_catalog, at every start, makes postgres, under the number it had, where it is missing.
Restart ==
  /\ ~Exists("postgres")
  /\ oid' = [oid EXCEPT !["postgres"] = FirstOid]
  /\ UNCHANGED <<nextOid, acl, granted, lost, kept>>

-----------------------------------------------------------------------------
(* Grants *)

\* PUBLIC and names without a role have number 0.
GranteeOid(g) == IF g \in RoleNames THEN oid[g] ELSE 0

Pairs(g) == {g.objects[i] : i \in DOMAIN g.objects} \X {g.privileges[i] : i \in DOMAIN g.privileges}
Named(g) == {g.grantees[i] : i \in DOMAIN g.grantees}

\* What a statement speaks of: ALL PRIVILEGES names none, and ALL TABLES no object.
Meaning(g) ==
  (IF g.objects = <<>> THEN Relations ELSE {g.objects[i] : i \in DOMAIN g.objects})
    \X (IF g.privileges = <<>> THEN Privileges ELSE {g.privileges[i] : i \in DOMAIN g.privileges})

NamesOne(g) == Len(g.objects) = 1 /\ Len(g.privileges) = 1 /\ Len(g.grantees) = 1

\* GRANT writes the first object, privilege and grantee; ALL, which names none,
\* writes nothing, and neither does a grant that is there: its INSERT fails.
Grant(g) ==
  /\ acl' = IF g.objects = <<>> \/ g.privileges = <<>> \/ g.grantees = <<>> THEN acl
            ELSE acl \cup {[relation |-> g.objects[1], privilege |-> g.privileges[1],
                            grantee |-> GranteeOid(g.grantees[1])]}
  /\ granted' = [n \in RoleNames |-> IF n \in Named(g) /\ Exists(n) THEN granted[n] \cup Meaning(g) ELSE granted[n]]
  /\ lost' = IF NamesOne(g) THEN lost ELSE lost \cup (Named(g) \cap RoleNames)
  /\ UNCHANGED <<oid, nextOid, kept>>

\* REVOKE deletes of all that it names, and nothing of ALL; PUBLIC is no role's
\* name.
Revoke(g) ==
  /\ acl' = {a \in acl : ~(/\ <<a.relation, a.privilege>> \in Pairs(g)
                           /\ \E n \in Named(g) \cap RoleNames : Exists(n) /\ oid[n] = a.grantee)}
  /\ granted' = [n \in RoleNames |-> IF n \in Named(g) THEN granted[n] \ Meaning(g) ELSE granted[n]]
  /\ kept' = IF Pairs(g) = Meaning(g) THEN kept ELSE kept \cup (Named(g) \cap RoleNames)
  /\ UNCHANGED <<oid, nextOid, lost>>

RoleNext ==
  \/ \E n \in RoleNames : MakeRole(n)
  \/ \E ns \in SUBSET RoleNames : DropRole(ns)
  \/ Restart
  \/ \E g \in Grants : Grant(g) \/ Revoke(g)

RoleSpec == RoleInit /\ [][RoleNext]_roleVars

-----------------------------------------------------------------------------
(* Properties *)

GrantedTo(n) == {<<a.relation, a.privilege>> : a \in {a \in acl : a.grantee = oid[n]}}

\* A role is recorded to have been granted only what was granted to it since it
\* was made and not revoked, if no REVOKE of ALL was among that, and all of it, if
\* no GRANT named several of anything or ALL: what its name's earlier roles had
\* is not its own, though DROP ROLE leaves their rows, and what is said of other
\* roles does not matter.  postgres, which a start makes again under its old
\* number, is left out.
GrantsAreTheRolesOwn ==
  \A n \in RoleNames \ {"postgres"} :
    Exists(n) => /\ n \notin kept => GrantedTo(n) \subseteq granted[n]
                 /\ n \notin lost => granted[n] \subseteq GrantedTo(n)
=============================================================================
