--------------------------- MODULE CanonicalModel ---------------------------
(***************************************************************************)
(* The graph of the codebase that agents are told about: the ingestion     *)
(* scans the source tree and writes canonical_nodes (rasa/memory/          *)
(* ingest.py), a later job writes an embedding of each node                *)
(* (rasa/memory/search.py).  Both are commands somebody runs, maybe at     *)
(* once and while the tree is edited.                                      *)
(*                                                                         *)
(* A node is known by its name; its id is made anew for each match that a  *)
(* run finds in a file.  Ids are kept by the rows that exist, while edges  *)
(* are always those of the last run.  A Go package is found in each of its *)
(* files, all commands are package main, and methods of one name count as  *)
(* one name, whatever their receivers.                                     *)
(***************************************************************************)
EXTENDS Integers, Sequences, FiniteSets

CONSTANTS
  Files,
  Scanned,     \* the files in the order of the scan
  Owner,       \* Owner[f]: the module or package that file f belongs to
  Names,       \* what a file may define: functions, classes, types
  Runs,        \* runs of the ingestion
  Jobs,        \* runs of the embedding job
  Limit,       \* nodes a job looks at (200 in the code)
  MaxCopies,   \* bound on the matches of one name in a file
  Batch,       \* nodes embedded at a time (10 in the code)
  MaxEdits,    \* bound on edits of the tree
  MaxFaults    \* bound on failed statements and calls

ModelConstants ==
  /\ Scanned \in Seq(Files) /\ Len(Scanned) = Cardinality(Files)
  /\ \A f \in Files : \E i \in DOMAIN Scanned : Scanned[i] = f
  /\ "none" \notin Runs
  /\ Limit \in Nat \ {0} /\ Batch \in 1..Limit
  /\ MaxCopies \in Nat \ {0} /\ MaxEdits \in Nat /\ MaxFaults \in Nat

VARIABLES
  code,      \* code[f][n]: how often file f defines n, itself once; nothing when
             \* it is not there or does not parse
  edits,     \* edits so far
  node,      \* node[k]: id of the row of k, or None
  edges,     \* edges[k]: the outgoing edges of that row
  chunks,    \* embeddings: the id of the node and the job that wrote it
  at,        \* at[r]: where run r is
  found,     \* found[r]: the tree as run r scanned it
  wiped,     \* wiped[r]: ids that the transaction of r deletes
  job,       \* job[j]: where job j is
  todo,      \* todo[j]: nodes job j has still to embed
  fresh,     \* history: the run that made the table what it is, if it began
             \* with an empty one and wrote alone, or None
  met,       \* history: runs that another one wrote under
  together,  \* history: two jobs ran at once
  faults     \* faults so far

tree == <<code, edits>>
table == <<node, edges>>
run == <<at, found, wiped>>
work == <<job, todo>>
vars == <<tree, table, chunks, run, work, fresh, met, together, faults>>

Self == "self"
None == "none"
Keys == {Owner[f] : f \in Files} \X (Names \cup {Self})
NoFile == [n \in Names \cup {Self} |-> 0]
Sources ==
  {NoFile} \cup {c \in [Names \cup {Self} -> 0..MaxCopies] : c[Self] = 1}
Trees == [Files -> Sources]
NewIds == Runs \X Files \X (Names \cup {Self}) \X (1..MaxCopies)
NoId == <<None, None, None, None>>
Ids == {node[k] : k \in Keys} \ {NoId}

TypeOK ==
  /\ code \in Trees /\ edits \in 0..MaxEdits
  /\ node \in [Keys -> NewIds \cup {NoId}]
  /\ edges \in [Keys -> SUBSET NewIds]
  /\ chunks \subseteq NewIds \X Jobs
  /\ at \in [Runs -> {"new", "scanned", "wiped", "over"}]
  /\ found \in [Runs -> Trees] /\ wiped \in [Runs -> SUBSET NewIds]
  /\ job \in [Jobs -> {"new", "busy", "over"}]
  /\ todo \in [Jobs -> SUBSET NewIds]
  /\ fresh \in Runs \cup {None} /\ met \subseteq Runs
  /\ together \in BOOLEAN /\ faults \in 0..MaxFaults

(* The rows of the seed are of no file and are left out. *)
Init ==
  /\ code \in Trees /\ edits = 0
  /\ node = [k \in Keys |-> NoId] /\ edges = [k \in Keys |-> {}]
  /\ chunks = {}
  /\ at = [r \in Runs |-> "new"]
  /\ found = [r \in Runs |-> [f \in Files |-> NoFile]]
  /\ wiped = [r \in Runs |-> {}]
  /\ job = [j \in Jobs |-> "new"] /\ todo = [j \in Jobs |-> {}]
  /\ fresh = None /\ met = {} /\ together = FALSE /\ faults = 0

Edit(f) ==
  /\ edits < MaxEdits /\ edits' = edits + 1
  /\ \E c \in Sources : code' = [code EXCEPT ![f] = c]
  /\ UNCHANGED <<table, chunks, run, work, fresh, met, together, faults>>

(* _discover_python_nodes, _discover_go_nodes: the files in which tree t   *)
(* has a node of that name, by their place in the scan.                    *)
Places(t, k) ==
  {i \in DOMAIN Scanned : Owner[Scanned[i]] = k[1] /\ t[Scanned[i]][k[2]] > 0}

First(S) == CHOOSE i \in S : \A j \in S : i <= j
Last(S) == CHOOSE i \in S : \A j \in S : i >= j

Scan(r) ==
  /\ at[r] = "new"
  /\ at' = [at EXCEPT ![r] = "scanned"]
  /\ found' = [found EXCEPT ![r] = code]
  /\ UNCHANGED <<tree, table, chunks, wiped, work, fresh, met, together, faults>>

(* --clear: the transaction deletes what it sees; what another one deletes *)
(* is locked until that one ends.                                          *)
Wipe(r) ==
  /\ at[r] = "scanned"
  /\ \A s \in Runs \ {r} : wiped[s] = {}
  /\ at' = [at EXCEPT ![r] = "wiped"]
  /\ wiped' = [wiped EXCEPT ![r] = Ids]
  /\ UNCHANGED <<tree, table, chunks, found, work, fresh, met, together, faults>>

(* A faulty variant, for the mutant: only the embeddings are deleted. *)
KeptHalfWiped(r, k) == node[k]

(* The rows that the transaction leaves in place. *)
Kept(r, k) == IF node[k] \in wiped[r] THEN NoId ELSE node[k]

(* The rest of the transaction: the upserts, in the order of the scan, and *)
(* the COMMIT.  The first match of a name inserts the row, each later one  *)
(* replaces all but its id; the edges lead to every match.  Embeddings go  *)
(* with the rows.                                                          *)
Write(r) ==
  /\ at[r] \in {"scanned", "wiped"}
  /\ \A s \in Runs \ {r} : wiped[s] = {}
  /\ at' = [at EXCEPT ![r] = "over"] /\ wiped' = [wiped EXCEPT ![r] = {}]
  /\ LET of(k) == Places(found[r], k)
         id(i, n, m) == <<r, Scanned[i], n, m>>
     IN /\ node' = [k \in Keys |->
             IF Kept(r, k) # NoId \/ of(k) = {} THEN Kept(r, k)
             ELSE id(First(of(k)), k[2], 1)]
        /\ edges' = [k \in Keys |->
             IF of(k) = {} THEN IF Kept(r, k) = NoId THEN {} ELSE edges[k]
             ELSE IF k[2] # Self THEN {}
             ELSE LET last == Last(of(k))
                      matches(n) == 1..found[r][Scanned[last]][n]
                  IN UNION {{id(last, n, m) : m \in matches(n)} : n \in Names}]
  /\ chunks' = {c \in chunks : c[1] \notin wiped[r]}
  /\ fresh' = IF r \notin met /\ (at[r] = "wiped" \/ Ids = {}) THEN r ELSE None
  /\ met' = met \cup {s \in Runs \ {r} : at[s] = "wiped"}
  /\ UNCHANGED <<tree, found, work, together, faults>>

Fault == faults < MaxFaults /\ faults' = faults + 1

(* The transaction fails and is rolled back. *)
FailRun(r) ==
  /\ at[r] \in {"scanned", "wiped"} /\ Fault
  /\ at' = [at EXCEPT ![r] = "over"] /\ wiped' = [wiped EXCEPT ![r] = {}]
  /\ UNCHANGED <<tree, table, chunks, found, work, fresh, met, together>>

(* A faulty variant, for the mutant: what is embedded is chosen again. *)
UnembeddedOrNot == Ids

(* Nodes without an embedding. *)
Unembedded == Ids \ {c[1] : c \in chunks}

AtMost(n, S) ==
  {T \in SUBSET S : Cardinality(T) = IF Cardinality(S) < n THEN Cardinality(S)
                                     ELSE n}

(* embed_all_nodes: the SELECT, in no order. *)
Pick(j) ==
  /\ job[j] = "new"
  /\ \E ids \in AtMost(Limit, Unembedded) :
       /\ todo' = [todo EXCEPT ![j] = ids]
       /\ job' = [job EXCEPT ![j] = IF ids = {} THEN "over" ELSE "busy"]
  /\ together' = (together \/ \E i \in Jobs : job[i] = "busy")
  /\ UNCHANGED <<tree, table, chunks, run, fresh, met, faults>>

(* One batch: the call, and its INSERTs in a transaction, which waits for  *)
(* whoever deletes the nodes and fails when they are gone.  Nothing is     *)
(* unique in the table but the new id, so that ON CONFLICT never applies.  *)
EmbedBatch(j) ==
  /\ job[j] = "busy"
  /\ \E ids \in AtMost(Batch, todo[j]) :
       /\ \A r \in Runs : wiped[r] \cap ids = {}
       /\ IF ids \subseteq Ids
          THEN /\ chunks' = chunks \cup {<<i, j>> : i \in ids}
               /\ todo' = [todo EXCEPT ![j] = @ \ ids]
          ELSE todo' = [todo EXCEPT ![j] = {}] /\ UNCHANGED chunks
  /\ job' = [job EXCEPT ![j] = IF todo'[j] = {} THEN "over" ELSE "busy"]
  /\ UNCHANGED <<tree, table, run, fresh, met, together, faults>>

(* The call or a statement fails: the job ends. *)
FailBatch(j) ==
  /\ job[j] = "busy" /\ Fault
  /\ job' = [job EXCEPT ![j] = "over"] /\ todo' = [todo EXCEPT ![j] = {}]
  /\ UNCHANGED <<tree, table, chunks, run, fresh, met, together>>

Next ==
  \/ \E f \in Files : Edit(f)
  \/ \E r \in Runs : Scan(r) \/ Wipe(r) \/ Write(r) \/ FailRun(r)
  \/ \E j \in Jobs : Pick(j) \/ EmbedBatch(j) \/ FailBatch(j)

Spec == Init /\ [][Next]_vars

(* The module or package defines the name twice, in two files or in one.   *)
Twice(t, k) ==
  \E i, j \in Places(t, k) : i # j \/ t[Scanned[i]][k[2]] > 1

(* A run that began with an empty table and met no other leaves the graph  *)
(* of the tree it scanned: a row for every name, and no edge that leads    *)
(* nowhere but to a name that its owner defines twice, in two files or in  *)
(* one.  After any other run edges may lead nowhere: rows keep their ids,  *)
(* edges do not.  Whatever happened, each edge names a node with a row.    *)
GraphIsWhole ==
  /\ fresh # None => \A k \in Keys :
       /\ node[k] # NoId <=> Places(found[fresh], k) # {}
       /\ \A e \in edges[k] :
            e \in Ids \/ Twice(found[fresh], <<k[1], e[3]>>)
  /\ \A k \in Keys : \A e \in edges[k] : node[<<k[1], e[3]>>] # NoId

(* Every embedding is of a node that exists, although jobs go on while the *)
(* table is cleared, and a node has one, unless two jobs ran at once.      *)
EmbeddedOnce ==
  /\ \A c \in chunks : c[1] \in Ids
  /\ ~together => \A c, d \in chunks : c[1] = d[1] => c = d
=============================================================================
