--------------------------- MODULE AccessPolicies ---------------------------
(***************************************************************************)
(* The policies of auth_policy.py: what each scopes an action to, as a      *)
(* filter over rows, and what each says of one row.  A policy may hold      *)
(* policies, so both are recursive and only the model checker uses them.    *)
(***************************************************************************)
EXTENDS Filters

CONSTANT None   \* no caller

ReadLike == {"read", "search", "count", "batch_read"}

AllowAll == [kind |-> "AllowAll"]
DenyAll  == [kind |-> "DenyAll"]

(* What a policy scopes an action to: a filter over rows.  The resolver     *)
(* binds a caller's groups to a policy, not to the policies inside it.      *)
RECURSIVE to_search_filter(_, _, _, _)
to_search_filter(policy, groups, user, action) ==
  CASE policy.kind = "AllowAll" -> All
    [] policy.kind = "DenyAll"  -> NoMatch
    [] policy.kind = "ReadOnly" -> IF action \in ReadLike THEN All ELSE NoMatch
    [] policy.kind = "Owner"    ->
         IF user = None THEN NoMatch
         ELSE IF action = "create" THEN All
         ELSE AttrNode("owner", Leaf("eq", user))
    [] policy.kind = "GroupMember" ->
         to_search_filter(IF action = "create" THEN policy.on_create
                          ELSE IF groups \cap policy.groups # {} THEN policy.on_match
                          ELSE policy.on_mismatch,
                          {}, user, action)
    [] policy.kind = "Acl" ->
         IF action = "create" THEN to_search_filter(policy.on_create, {}, user, action)
         ELSE IF policy.ids = {} THEN NoMatch
         ELSE AttrNode("id", Leaf("in", policy.ids))

(* What a policy says of one row, read off its documentation.              *)
RECURSIVE Allows(_, _, _, _, _)
Allows(p, groups, user, action, row) ==
  \/ p.kind = "AllowAll"
  \/ p.kind = "ReadOnly" /\ action \in {"read", "search", "count", "batch_read"}
  \/ p.kind = "Owner" /\ user # None /\ (action = "create" \/ row.owner = user)
  \/ p.kind \in {"GroupMember", "Acl"} /\ action = "create"
     /\ Allows(p.on_create, {}, user, action, row)
  \/ p.kind = "Acl" /\ action # "create" /\ row.id \in p.ids
  \/ /\ p.kind = "GroupMember" /\ action # "create"
     /\ Allows(IF \E g \in groups : g \in p.groups THEN p.on_match ELSE p.on_mismatch,
               {}, user, action, row)
=============================================================================
