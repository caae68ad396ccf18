--------------------------- MODULE RecipeExchange ---------------------------
(***************************************************************************)
(* What the exchange of recipes promises, without files and times: the      *)
(* writer publishes the index of a batch line by line, and what the mutator *)
(* works with was made of one index as it was at one moment, the beginning  *)
(* of one batch, however long the load took.                                *)
(* Mutator implements this specification.                                   *)
(***************************************************************************)
EXTENDS Sequences

CONSTANTS
    Lines,        \* the lines of an index
    Drafts,       \* the indexes of batches, and all their beginnings
    Outcomes,     \* Outcomes[draft]: what may be made of it
    Nothing       \* no recipe for any seed

VARIABLES
    published,    \* the index
    reading,      \* what the load in progress may become
    view          \* what the mutator works with

exchangeVars == <<published, reading, view>>

ExchangeInit ==
    /\ published \in Drafts
    /\ reading = {}
    /\ view = Nothing

\* The writer begins a batch, or adds a line.
Publish ==
    /\ published' \in Drafts
    /\ published' = <<>> \/ \E line \in Lines : published' = Append(published, line)
    /\ UNCHANGED <<reading, view>>

\* All that is read of the index is read at once ...
Read ==
    /\ reading = {} /\ view = Nothing
    /\ reading' = Outcomes[published]
    /\ UNCHANGED <<published, view>>

\* ... while what becomes of it is settled recipe by recipe ...
Settle ==
    /\ reading' \subseteq reading
    /\ UNCHANGED <<published, view>>

\* ... and seen when it is complete.
Take ==
    /\ view' \in reading
    /\ reading' = {}
    /\ UNCHANGED published

\* The mutator begins a load, or ends.
Forget ==
    /\ reading' = {} /\ view' = Nothing
    /\ UNCHANGED published

ExchangeNext == Publish \/ Read \/ Settle \/ Take \/ Forget

ExchangeSpec == ExchangeInit /\ [][ExchangeNext]_exchangeVars

=============================================================================
