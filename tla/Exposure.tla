------------------------------ MODULE Exposure ------------------------------
(***************************************************************************)
(* What a resource shows: the per-field flags of a DTO declaration         *)
(* (core/dto.py), the actions a resource supports (core/service.py), the   *)
(* views that narrow both (view/resource_view.py), and the HTTP surface    *)
(* the routes build from the result (http/routes.py).                      *)
(* A declaration is a function from fields to the set of models the field  *)
(* appears in; a view's overrides are a function from some fields to the   *)
(* flags they set, each TRUE or FALSE.                                     *)
(***************************************************************************)
EXTENDS Naturals, FiniteSets

CONSTANT FieldKind   \* per field: "id", "timestamp", "orderable", "text", "flag" or "nested"

Fields  == DOMAIN FieldKind
IdField == CHOOSE f \in Fields : FieldKind[f] = "id"

Models == {"create_request", "create_response", "update_request", "update_response",
           "read_response", "search_response"}

StandardActions == {"create", "read", "update", "delete", "search", "count", "batch_read"}

(* The flags a field gets when its declaration says nothing.               *)
Convention(f) ==
  CASE FieldKind[f] \in {"id", "timestamp"} -> Models \ {"create_request", "update_request"}
    [] OTHER                                -> Models

Declared == [f \in Fields |-> Convention(f)]

ModelFields(dto, model) == {f \in DOMAIN dto : model \in dto[f]}

-----------------------------------------------------------------------------
(* A view.                                                                 *)

TurnedOn(override)  == {m \in DOMAIN override : override[m]}
TurnedOff(override) == {m \in DOMAIN override : ~override[m]}

Derived(dto, overrides) ==
  [f \in DOMAIN dto |-> IF f \in DOMAIN overrides
                        THEN (dto[f] \cup TurnedOn(overrides[f])) \ TurnedOff(overrides[f])
                        ELSE dto[f]]

OverridesKnown(dto, overrides) == DOMAIN overrides \subseteq DOMAIN dto \ {IdField}

(* Mutant: an override is never compared with the inner declaration.       *)
Rewidens_Never(dto, overrides) == FALSE

Rewidens(dto, overrides) ==
  \E f \in DOMAIN overrides : ~(TurnedOn(overrides[f]) \subseteq dto[f])

HidesReadFields(inner, outer) ==
  ModelFields(inner, "read_response") \ ModelFields(outer, "read_response") # {}

(* A batch of reads needs the read it batches.                             *)
normalize_actions(actions) ==
  IF "read" \in actions THEN actions ELSE actions \ {"batch_read"}

(* The constructor's checks: any one failing raises, and there is no view. *)
ViewAccepted(dto, actions, declaredFilter, overrides, exposed) ==
  /\ OverridesKnown(dto, overrides)
  /\ ~Rewidens(dto, overrides)
  /\ ~(declaredFilter /\ HidesReadFields(dto, Derived(dto, overrides)))
  /\ normalize_actions(exposed) \subseteq normalize_actions(actions)

-----------------------------------------------------------------------------
(* The HTTP surface of a resource.                                         *)

Operators(f) ==
  CASE FieldKind[f] = "flag"                     -> {"eq", "in"}
    [] FieldKind[f] = "nested"                   -> {}
    [] FieldKind[f] \in {"orderable", "timestamp"} -> {"eq", "in", "gt", "ge", "lt", "le"}
    [] FieldKind[f] \in {"text", "id"}           -> {"eq", "in", "gt", "ge", "lt", "le", "contains"}

(* A filter type the application declares names every inner field.         *)
FilterSurface(dto, declaredFilter) ==
  UNION {{f} \X Operators(f) : f \in IF declaredFilter THEN DOMAIN dto
                                     ELSE ModelFields(dto, "read_response")}

SortableFields(dto) == ModelFields(dto, "read_response")

(* Only the client's own fields of the request model reach the service.    *)
Assigned(dto, model, payload) ==
  [f \in DOMAIN payload \cap ModelFields(dto, model) |-> payload[f]]
=============================================================================
