------------------------------ MODULE MCAccess ------------------------------
(***************************************************************************)
(* The instance of Access that TLC explores: two users, two groups, a key  *)
(* that expires, a service's key, and permissions of every class.          *)
(***************************************************************************)
EXTENDS Access

CONSTANTS g, h, garbled, c1, c2, NULL, TextIn,
          Matches(_, _), Flattened(_, _), Convertible(_), SqlCondition(_, _, _), MongoQuery(_, _, _)

P == INSTANCE AccessPolicies

(* The recursions of filter trees: each is what it is at a node.           *)
MCMatches(f, x)               == P!MatchesNode(f, x)
MCFlattened(fs, kind)         == P!FlattenedNode(fs, kind)
MCConvertible(f)              == P!ConvertibleNode(f)
MCSqlCondition(f, negated, x) == P!SqlNode(f, negated, x)
MCMongoQuery(f, negated, x)   == P!MongoNode(f, negated, x)

MCPolicyFilter(policy, groups, user, action) == P!to_search_filter(policy, groups, user, action)
MCPolicyAllows(policy, groups, user, action, row) == P!Allows(policy, groups, user, action, row)
MCOrFilter(fs)  == P!or_(fs)
MCAndFilter(fs) == P!and_(fs)
MCEmptyFilter  == P!NoMatch
MCInMemory(f, x) == Matches(f, x)
MCInStatement(f, negated, x) == SqlCondition(f, negated, x)

MembersOf(gs, in, out, new) ==
  [kind |-> "GroupMember", groups |-> gs, on_match |-> in, on_mismatch |-> out, on_create |-> new]
Owned  == [kind |-> "Owner"]
Listed == [kind |-> "Acl", ids |-> {2}, on_create |-> P!DenyAll]

MCPolicies ==
  [any     |-> P!AllowAll, reading |-> [kind |-> "ReadOnly"], own |-> Owned, listed |-> Listed,
   none    |-> [kind |-> "Acl", ids |-> {}, on_create |-> P!AllowAll],
   in_g    |-> MembersOf({g}, P!AllowAll, [kind |-> "ReadOnly"], P!DenyAll),
   nested  |-> MembersOf({g}, MembersOf({g}, P!AllowAll, Listed, P!DenyAll), P!DenyAll, Owned),
   unknown |-> [kind |-> "NoSuchClass"]]

MCInitialGrants ==
  {g :> {"own", "listed"} @@ h :> {"in_g"}, g :> {"nested", "none"} @@ h :> {"unknown", "reading"}}

MCInitialMembers == 1 :> {g, h} @@ 2 :> {h}

MCRolePolicies == "admin" :> {"any"} @@ "reader" :> {"reading", "in_g"}

KeyOf(owner, roles, expires) ==
  [owner |-> owner, roles |-> roles, expires_at |-> expires, active |-> TRUE, ended |-> MaxChanges]
MCInitialKeys == "k" :> KeyOf(1, {"reader"}, 1) @@ "svc" :> KeyOf(None, {"admin", "other"}, 9)

RowOf(i, u) == [id |-> i, owner |-> u]
MCInitialRows == 1 :> RowOf(1, 1) @@ 2 :> RowOf(2, 2)

SessionOf(u, roles) == [sub |-> u, roles |-> roles]

Ask(key, cookie, optional, action) ==
  [key |-> key, cookie |-> cookie, optional |-> optional, action |-> action, id |-> 1,
   owner |-> 2, filter |-> None, ids |-> <<>>, edits |-> <<>>]
Change(action, id, condition) ==
  [action |-> action, id |-> id, owner |-> 2, condition |-> condition]

HasOwner2 == P!AttrNode("owner", P!Leaf("eq", 2))

MCCondition == {HasOwner2}

MCAsks ==
  [read    |-> Ask("k", None, FALSE, "read"),
   custom  |-> [Ask("k", SessionOf(2, {"admin"}), FALSE, "custom") EXCEPT !.id = 2],
   give    |-> Ask("gone", SessionOf(1, {"reader"}), FALSE, "update"),
   drop    |-> Ask("svc", None, TRUE, "delete"),
   away    |-> [Ask("k", None, FALSE, "edits") EXCEPT !.edits =
                 <<Change("update", 1, None), Change("delete", 1, None)>>],
   batch   |-> [Ask(None, SessionOf(2, {"reader", "other"}), FALSE, "edits") EXCEPT !.edits =
                 <<Change("create", 3, None), Change("update", None, None),
                   Change("update", 2, HasOwner2)>>],
   create  |-> [Ask("k", None, TRUE, "create") EXCEPT !.id = 3],
   many    |-> [Ask(None, SessionOf(1, {"other"}), TRUE, "batch_read") EXCEPT !.ids = <<2, 3, 1>>],
   garbled |-> Ask(None, garbled, TRUE, "count"),
   unnamed |-> Ask(None, SessionOf(None, {"admin"}), TRUE, "count"),
   nobody  |-> Ask(None, None, TRUE, "count"),
   barred  |-> Ask(None, None, FALSE, "read"),
   rival   |-> [Ask(None, SessionOf(1, {"admin"}), FALSE, "search") EXCEPT !.filter = HasOwner2]]

(* Two requests compete for the cache, or one of any other kind is alone.   *)
Competing == {"read", "custom", "give", "many"}

MCPlans ==
  {c1 :> Competing @@ c2 :> {"rival"},
   c1 :> DOMAIN MCAsks \ (Competing \cup {"rival"}) @@ c2 :> {}}
=============================================================================
