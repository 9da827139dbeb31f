--------------------------- MODULE KnowledgeGraph ---------------------------
(***************************************************************************)
(* kg/: the graph of entities and relations of a process, and its file.    *)
(* The file is written as a whole (save) or grows by what is new (append), *)
(* which a cursor in memory tells; the process, or the write, may stop at  *)
(* any line.  What is in an entity is a version of it.                     *)
(***************************************************************************)
EXTENDS Naturals, SequencesExt

CONSTANTS
  Entity,       \* entity ids
  Contracts,    \* the contracts of a GAAG registry, in its order
  Requires,        \* Requires[c]: the dependencies a contract names
  MaxCalls      \* bound: calls, and ends of the process

ASSUME GraphAssumption ==
  /\ Contracts \in Seq(Entity) /\ Requires \in [Entity -> Seq(Entity)] /\ MaxCalls \in Nat

VARIABLES
  graph,     \* _entities, in the order of their arrival, and _relations
  synced,    \* _synced_entities, _synced_relations
  store,     \* the file: its format, whether it is there and can be read, its lines
  link,      \* history: the file is of this graph and "current", of it and "behind", or "apart"
  revised,   \* history: an entity that is in the file was given again
  dropped,   \* history: an import left a dependency out
  calls

graphVars == <<graph, synced, store, link, revised, dropped, calls>>

NoGraph == [ents |-> <<>>, rels |-> <<>>]
NoneSynced == [ents |-> 0, rels |-> 0]
Formats == {"json", "json.gz", "ndjson", "ndjson.gz"}
Grows(format) == format \in {"ndjson", "ndjson.gz"}
NoStore(format) == [format |-> format, there |-> FALSE, sound |-> TRUE, lines |-> NoGraph]

GraphInit ==
  /\ graph = NoGraph /\ synced = NoneSynced
  /\ store \in {NoStore(f) : f \in Formats}
  /\ link = "apart" /\ revised = FALSE /\ dropped = FALSE
  /\ calls = 0

-----------------------------------------------------------------------------
Position(ents, e) == {i \in DOMAIN ents : ents[i].id = e}
Has(g, e) == Position(g.ents, e) # {}

(* add_entity: a dict, so what is given again stays at its place *)
Placed(ents, e, v) ==
  IF Position(ents, e) = {} THEN Append(ents, [id |-> e, version |-> v])
  ELSE [i \in DOMAIN ents |-> IF ents[i].id = e THEN [id |-> e, version |-> v] ELSE ents[i]]
WithEntity(g, e, v) == [g EXCEPT !.ents = Placed(@, e, v)]
(* add_relation: a list, whoever is at its ends *)
WithRelation(g, s, t) == [g EXCEPT !.rels = Append(@, <<s, t>>)]

(* neighbors, incoming: along the relations, to what is in the graph *)
Neighbours(g, e) == {t \in Entity : Has(g, t) /\ \E i \in DOMAIN g.rels : g.rels[i] = <<e, t>>}
Incoming(g, e) == {s \in Entity : Has(g, s) /\ \E i \in DOMAIN g.rels : g.rels[i] = <<s, e>>}

Calls == calls < MaxCalls /\ calls' = calls + 1
Changed == link' = IF link = "current" THEN "behind" ELSE link

AddEntity(e) ==
  /\ Calls /\ \E v \in {0, 1} : graph' = WithEntity(graph, e, v)
  /\ graph' # graph /\ Changed
  /\ revised' = (revised \/ \E i \in Position(graph.ents, e) : i <= synced.ents)
  /\ UNCHANGED <<synced, store, dropped>>

AddRelation(s, t) ==
  /\ Calls /\ graph' = WithRelation(graph, s, t) /\ Changed
  /\ UNCHANGED <<synced, store, revised, dropped>>

(* import_from_gaag: contract by contract, and of its dependencies those that are in
   the graph by now *)
WithContract(g, c) ==
  LET h == WithEntity(g, c, 0)
      rels[k \in 0 .. Len(Requires[c])] ==
        IF k = 0 THEN h.rels
        ELSE IF Has(h, Requires[c][k]) THEN Append(rels[k - 1], <<c, Requires[c][k]>>)
        ELSE rels[k - 1]
  IN [h EXCEPT !.rels = rels[Len(Requires[c])]]
Imported(g) ==
  LET upto[n \in 0 .. Len(Contracts)] ==
        IF n = 0 THEN g ELSE WithContract(upto[n - 1], Contracts[n])
  IN upto[Len(Contracts)]
ImportContracts ==
  /\ Calls /\ graph' = Imported(graph) /\ Changed
  /\ revised' = (revised \/ \E i \in 1 .. synced.ents : graph'.ents[i] # graph.ents[i])
  /\ dropped' = (dropped \/ \E i \in DOMAIN Contracts : \E d \in ToSet(Requires[Contracts[i]]) :
                    Has(graph', d) /\ d \notin Neighbours(graph', Contracts[i]))
  /\ UNCHANGED <<synced, store>>

-----------------------------------------------------------------------------
(* What a write leaves: all lines, or, cut off, the first ones and part of one.  That
   much can be read if the lines are text, not if they are compressed or one JSON *)
Lines(g) == {[ents |-> SubSeq(g.ents, 1, i), rels |-> <<>>] : i \in 0 .. Len(g.ents)}
            \cup {[g EXCEPT !.rels = SubSeq(@, 1, i)] : i \in 0 .. Len(g.rels)}
CutOff(old, g) == [old EXCEPT !.there = TRUE, !.sound = (old.format = "ndjson"), !.lines = g]

AllSynced == synced' = [ents |-> Len(graph.ents), rels |-> Len(graph.rels)]

(* save_graph opens the file for writing, which empties it *)
SaveGraph ==
  /\ Calls
  /\ store' = [store EXCEPT !.there = TRUE, !.sound = TRUE, !.lines = graph]
  /\ AllSynced /\ link' = "current" /\ revised' = FALSE
  /\ UNCHANGED <<graph, dropped>>

(* append_graph: what came after the cursor.  To a file that is there it writes through
   gzip, whatever the file is, and what was text is text no more *)
New == [ents |-> SubSeq(graph.ents, synced.ents + 1, Len(graph.ents)),
        rels |-> SubSeq(graph.rels, synced.rels + 1, Len(graph.rels))]
Longer(g, more) == [ents |-> g.ents \o more.ents, rels |-> g.rels \o more.rels]
Readable == store.sound /\ (store.there => store.format = "ndjson.gz")
AppendNew ==
  /\ Calls /\ Grows(store.format)
  /\ store' = [store EXCEPT !.there = TRUE, !.sound = Readable, !.lines = Longer(@, New)]
  /\ AllSynced
  /\ link' = IF link = "apart" /\ store.there THEN "apart" ELSE "current"
  /\ UNCHANGED <<graph, revised, dropped>>

(* The write fails, or the process ends with it: the cursor stays, or is gone.  A write
   to nothing that is new leaves nothing to cut off *)
WriteCutOff ==
  /\ Calls /\ link' = "apart"
  /\ \/ \E g \in Lines(graph) : store' = CutOff(store, g)
     \/ /\ Grows(store.format)
        /\ \E g \in Lines(New) :
             store' = [CutOff(store, Longer(store.lines, g)) EXCEPT
                         !.sound = ~store.there /\ store.format = "ndjson"]
  /\ \/ graph' = NoGraph /\ synced' = NoneSynced
     \/ UNCHANGED <<graph, synced>>
  /\ UNCHANGED <<revised, dropped>>

(* load: add_entity and add_relation, line by line; then all of it is synced.  Slip: it
   is not *)
Read(lines) ==
  LET upto[n \in 0 .. Len(lines)] ==
        IF n = 0 THEN <<>> ELSE Placed(upto[n - 1], lines[n].id, lines[n].version)
  IN upto[Len(lines)]
Loaded(f) == [ents |-> Read(f.lines.ents), rels |-> f.lines.rels]
CursorAt(g) == [ents |-> Len(g.ents), rels |-> Len(g.rels)]
CursorForgotten(g) == NoneSynced
Cursor(g) == CursorAt(g)
LoadGraph ==
  /\ Calls /\ store.there /\ store.sound
  /\ graph' = Loaded(store) /\ synced' = Cursor(graph')
  /\ link' = "current" /\ revised' = FALSE
  /\ UNCHANGED <<store, dropped>>

(* A process that starts anew has an empty graph *)
NewProcess ==
  /\ Calls /\ graph' = NoGraph /\ synced' = NoneSynced
  /\ link' = "apart" /\ revised' = FALSE
  /\ UNCHANGED <<store, dropped>>

GraphNext ==
  \/ \E e \in Entity : AddEntity(e)
  \/ \E s, t \in Entity : AddRelation(s, t)
  \/ ImportContracts \/ SaveGraph \/ AppendNew \/ WriteCutOff \/ LoadGraph \/ NewProcess

GraphSpec == GraphInit /\ [][GraphNext]_graphVars

GraphTypeOK ==
  /\ \A g \in {graph, store.lines} :
       /\ \A i \in DOMAIN g.ents : g.ents[i].id \in Entity /\ g.ents[i].version \in {0, 1}
       /\ \A i \in DOMAIN g.rels : g.rels[i] \in Entity \X Entity
  /\ synced.ents \in 0 .. Len(graph.ents) /\ synced.rels \in 0 .. Len(graph.rels)
  /\ store.format \in Formats /\ link \in {"current", "behind", "apart"} /\ {store.there, store.sound, revised, dropped} \subseteq BOOLEAN
  /\ calls \in 0 .. MaxCalls
-----------------------------------------------------------------------------
(* As long as the file is of this graph and can be read, it and what the cursor says
   is new are the graph: no line is missing, none is there twice, whatever the order
   of saves, appends, loads and changes (save, append, load) *)
GraphIsKept ==
  link # "apart" /\ store.sound /\ ~revised =>
    /\ Longer(Loaded(store), New) = graph
    /\ link = "current" => New = NoGraph

(* append takes .ndjson as well as .ndjson.gz (append_graph).  It writes through gzip in
   both cases, and a .ndjson file cannot be read any more; this fails *)
AppendedCanBeRead == link = "current" => store.sound

(* What is appended is all that the file lacks.  The cursor counts entities: one that
   was given again with other properties is not new; this fails *)
RevisionsAreAppended == link = "current" /\ store.sound => Loaded(store) = graph

(* "every dependency of a contract: a DEPENDS_ON relation" (import_from_gaag).  One that
   the registry lists later than the contract is left out; this fails *)
DependenciesAreImported == ~dropped
=============================================================================
