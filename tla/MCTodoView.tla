----------------------------- MODULE MCTodoView -----------------------------
\* Two lists, one whose todo is delegated and one whose todo is not.
EXTENDS TodoView

CONSTANTS team, own
=============================================================================
