------------------------------ MODULE BothSides ------------------------------
(***************************************************************************)
(* Both sides of a resource: the units of work its requests run in, and    *)
(* the remote repositories that send the requests, each of them served at  *)
(* one instant, as UnitOfWork implements Collection.                       *)
(***************************************************************************)
EXTENDS UnitOfWork

CONSTANTS Clients, Ids, Cells, Hierarchies, Tables, Calls, PageSize, MaxListed, MayBreak

VARIABLES origin, resource, table, call, stage, reply, listed, outcome, before, after, walk

Remote == INSTANCE RemoteResource

\* Keys are counted from 1, a page holds something, the tables have a number, NULL or
\* nothing under each key, the calls name keys of theirs and columns they may, and the
\* classes compare numbers.
ASSUME CallsAssumption == Remote!CallsMakeSense

-----------------------------------------------------------------------------
(* What a caller can rely on *)

\* A walk over the pages is faithful (flama.ddd.repositories.http).
ListingFaithful == Remote!ListingFaithful

\* What a caller is told is what happened to the table (flama.resources.crud,
\* the exceptions of flama.ddd.repositories.http).
AnswerTells == Remote!AnswerTells

\* A search finds what its values say (flama.resources.filtering).
SearchAnswers == Remote!SearchAnswers
=============================================================================
