------------------------------ MODULE MCServer ------------------------------
EXTENDS Server

CONSTANTS old, new, get, sock

\* A rolling deploy: the new binary brings a second migration.
MCLatest == [i \in Servers |-> IF i = old THEN 1 ELSE 2]

MCHome == [q \in Requests |-> new]
=============================================================================
