------------------------------ MODULE BlobStore -------------------------------
(***************************************************************************)
(* What a store of uploaded files promises (the comments of media.Store in *)
(* internal/platform/media/media.go): a key that Put answers is the name   *)
(* of a whole file, the same bytes are stored once, and what is stored     *)
(* stays.  The disk may take back names it has not kept when the power     *)
(* goes, and an operator may put another tree of files in the place of     *)
(* this one.                                                               *)
(***************************************************************************)
CONSTANTS Clients,    \* the callers of Put
          Keys,       \* the names of files, one per content
          NoKey       \* no answer

VARIABLES stored,     \* the whole files, by name
          kept,       \* the names a power loss does not take
          answer      \* what Put answered each caller and the caller has not taken

vars == <<stored, kept, answer>>

Init == /\ stored = {} /\ kept = {}
        /\ answer = [c \in Clients |-> NoKey]

(* Put: the file is there when its key is answered, whether this call or   *)
(* an earlier one stored it.                                               *)
Store == \E c \in Clients, k \in Keys :
           /\ answer[c] = NoKey
           /\ answer' = [answer EXCEPT ![c] = k]
           /\ stored' = stored \cup {k}
           /\ UNCHANGED kept

Take == \E c \in Clients :
          /\ answer' = [answer EXCEPT ![c] = NoKey]
          /\ UNCHANGED <<stored, kept>>

Keep == \E k \in stored :
          /\ kept' = kept \cup {k}
          /\ UNCHANGED <<stored, answer>>

Stop == /\ answer' = [c \in Clients |-> NoKey]
        /\ UNCHANGED <<stored, kept>>

PowerLoss == /\ kept \subseteq stored' /\ stored' \subseteq stored
             /\ kept' = stored'
             /\ answer' = [c \in Clients |-> NoKey]

Replace == /\ stored' \subseteq Keys /\ kept' = stored'
           /\ UNCHANGED answer

Next == Store \/ Take \/ Keep \/ Stop \/ PowerLoss \/ Replace

Spec == Init /\ [][Next]_vars
=============================================================================
