------------------------------ MODULE Bootstrap ------------------------------
(***************************************************************************)
(* The command create-fga-model and the authorization store it fills. The    *)
(* command makes a store unless it is given the id of one and writes the     *)
(* embedded model v0 there; it prints the ids of both, which go into the     *)
(* configuration of the service. A call that fails ends the command: what    *)
(* the store has done until then stays, and so it does when the store has    *)
(* done what it was asked but the answer is late.                            *)
(*                                                                           *)
(* A model is known by how it compares with the embedded v0 when it is read  *)
(* back: whether its schema version and its type definitions are equal. The  *)
(* command writes the type definitions of v0, but the answer of DeepEqual on *)
(* what the server returns for them depends on the server.                   *)
(***************************************************************************)
EXTENDS FiniteSets

CONSTANTS
  Stores,     \* store ids
  ModelIds,   \* model ids: bounds the models that are written
  NoId        \* the empty id

ASSUME NoIdIsEmpty == NoId \notin Stores \cup ModelIds

Comparison == [sameSchema : BOOLEAN, sameTypes : BOOLEAN]

Model == [store : Stores, id : ModelIds, is : Comparison]

VARIABLES
  stores,    \* the ids of the stores that exist
  models,    \* the models that they hold
  command,   \* "idle", "create" or "write": the call the command is at
  storeId    \* and the store it works on

bootVars == <<stores, models, command, storeId>>

BootTypes ==
  /\ stores \subseteq Stores
  /\ models \subseteq Model
  /\ command \in {"idle", "create", "write"}
  /\ storeId \in Stores \cup {NoId}

BootInit ==
  /\ stores = {} /\ models = {}
  /\ command = "idle" /\ storeId = NoId

FreshIds == ModelIds \ {m.id : m \in models}

\* The model that a store has under an id, if there is one.
ModelAt(s, id) == {m \in models : m.store = s /\ m.id = id}

-----------------------------------------------------------------------------
\* Any store id may be given, also one that does not exist (yet).
RunCommand ==
  /\ command = "idle" /\ FreshIds # {}
  /\ \E s \in Stores \cup {NoId} :
       /\ storeId' = s
       /\ command' = IF s = NoId THEN "create" ELSE "write"
  /\ UNCHANGED <<stores, models>>

Exit == command' = "idle" /\ storeId' = NoId

\* The new store becomes the store of the client.
CreateStore ==
  /\ command = "create"
  /\ \E s \in Stores \ stores :
       /\ stores' = stores \cup {s}
       /\ command' = "write"
       /\ storeId' = s
  /\ UNCHANGED models

CreateStoreFails ==
  /\ command = "create"
  /\ \/ UNCHANGED stores
     \/ \E s \in Stores \ stores : stores' = stores \cup {s}
  /\ Exit
  /\ UNCHANGED models

\* What WriteModel leaves in the store.
Written(id) ==
  /\ storeId \in stores
  /\ \E same \in BOOLEAN :
       models' = models \cup
         {[store |-> storeId, id |-> id, is |-> [sameSchema |-> TRUE, sameTypes |-> same]]}

WriteModel ==
  /\ command = "write"
  /\ \E id \in FreshIds : Written(id)
  /\ Exit
  /\ UNCHANGED stores

\* There is no such store, or another error.
WriteModelFails ==
  /\ command = "write"
  /\ UNCHANGED models \/ \E id \in FreshIds : Written(id)
  /\ Exit
  /\ UNCHANGED stores

\* Another program, or another version of this one, writes to a store.
OtherModel ==
  /\ \E s \in stores, id \in FreshIds, c \in Comparison :
       models' = models \cup {[store |-> s, id |-> id, is |-> c]}
  /\ UNCHANGED <<stores, command, storeId>>

BootNext ==
  \/ RunCommand \/ CreateStore \/ CreateStoreFails \/ WriteModel \/ WriteModelFails
  \/ OtherModel
=============================================================================
