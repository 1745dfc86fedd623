-------------------------------- MODULE AuditLog --------------------------------
(***************************************************************************)
(* Log.Scopes of internal/audit/log.go: the trail of several sets of rows  *)
(* read as one history.  Each scope is a statement of its own, cut at the  *)
(* limit by the database; the merge is sorted and cut again.               *)
(***************************************************************************)
EXTENDS Sorting, SequencesExt

CONSTANTS
  DefaultLimit,     \* how many entries a screen reads that names no limit
  MaxLimit          \* the most it may ask for

ASSUME LimitAssumption == DefaultLimit \in 1..MaxLimit /\ MaxLimit \in Nat

(* A limit of zero or less is no limit, and takes the default.             *)
Clamped(limit) ==
  IF limit <= 0 THEN DefaultLimit
  ELSE IF limit > MaxLimit THEN MaxLimit ELSE limit

(* newestFirst, and ORDER BY at DESC, id DESC of the store.                *)
NewestFirst(a, b) == a.at > b.at \/ (a.at = b.at /\ a.id > b.id)

Recency(entries) == {p \in entries \X entries : NewestFirst(p[1], p[2])}

NewestOf(entries) == SortedBy(entries, Recency(entries))

Cut(entries, limit) == SubSeq(entries, 1, IF Len(entries) < limit THEN Len(entries) ELSE limit)

(* ByEntities: the entries of one scope.                                   *)
InScope(trail, scope) == {e \in trail : e.scope = scope}

ByEntities(trail, scope, limit) == Cut(NewestOf(InScope(trail, scope)), limit)

\* Mutant: the merge is cut before it is sorted.
ScopesCutFirst(trail, limit, scopes) ==
  LET most == Clamped(limit)
      read == FlattenSeq([i \in DOMAIN scopes |-> ByEntities(trail, scopes[i], most)])
  IN  NewestOf(ToSet(Cut(read, most)))

(* What the statements read.  No card names a scope twice, so the entries  *)
(* of a merge are all different; one scope is in order as it was read.     *)
AllRead(trail, scopes, limit) ==
  UNION {ToSet(ByEntities(trail, scopes[i], limit)) : i \in DOMAIN scopes}

Scopes(trail, limit, scopes) ==
  LET most == Clamped(limit)
  IN  Cut(IF Len(scopes) = 1 THEN ByEntities(trail, scopes[1], most)
          ELSE NewestOf(AllRead(trail, scopes, most)), most)
=============================================================================
