--------------------------- MODULE SessionReplay ----------------------------
(***************************************************************************)
(* A stored session played back: FeatureStoreReader, the merge of          *)
(* ReplayRunner in src/simulation/replay.py and the CommunicationGraph of  *)
(* src/simulation/communication_graph.py, composed with the extraction     *)
(* that wrote the session.  What the workflow does with a window is in     *)
(* Workflow, how the loop is paused and stopped in ReplayControl.          *)
(***************************************************************************)
EXTENDS ExtractionStore

VARIABLES
    playing,        \* a ReplayRunner exists and has not finished
    source,         \* per modality: the rows it read
    heads,          \* per modality: the sorted rows not drained yet
    played,         \* the windows processed, each with its rows
    graph,          \* the communication graph's totals per link
    delta           \* _window_deltas: this window's packets per link

playVars == <<playing, source, heads, played, graph, delta>>
sessionVars == <<extractVars, playVars>>

NoRows == [m \in Modality |-> <<>>]

PlayInit ==
    /\ playing = FALSE
    /\ source = NoRows
    /\ heads = NoRows
    /\ played = <<>>
    /\ graph = [k \in {} |-> 0]
    /\ delta = [k \in {} |-> 0]

(* check_compatible and ReplayRunner.__init__: each stream is read into its  *)
(* sorter.  A missing directory raises.                                      *)
OpenReplay ==
    /\ ~playing /\ played = <<>>
    /\ pc = "idle"
    /\ checkpoint.status = "completed"
    /\ InPlace
    /\ source' = [m \in Modality |-> StoredRows(m)]
    /\ heads' = [m \in Modality |-> IterSorted(StoredRows(m))]
    /\ playing' = TRUE
    /\ UNCHANGED <<extractVars, played, graph, delta>>

(* _drain: the rows of window w at the head of a stream. *)
Drained(rows, w) ==
    LET n == CHOOSE k \in 0 .. Len(rows) :
                /\ \A i \in 1 .. k : rows[i].wid = w
                /\ k < Len(rows) => rows[k + 1].wid # w
    IN  SubSeq(rows, 1, n)

Link(row) == <<row.key[2], row.key[3]>>

(* Mutant: a link that is known already is started anew. *)
AppliedAnew(totals, rows) ==
    LET add(t, row) ==
            [k \in DOMAIN t \cup {Link(row)} |->
                IF k = Link(row) THEN Cardinality(row.ids) ELSE t[k]]
    IN  FoldLeft(add, totals, rows)

(* CommunicationGraph.apply_many: packets are added to their links.          *)
Applied(totals, rows) ==
    LET add(t, row) ==
            [k \in DOMAIN t \cup {Link(row)} |->
                (IF k \in DOMAIN t THEN t[k] ELSE 0)
                + (IF k = Link(row) THEN Cardinality(row.ids) ELSE 0)]
    IN  FoldLeft(add, totals, rows)

(* Mutant: the deltas of the last window are kept. *)
BeginWindowKeeping(d) == d

(* begin_window: the deltas of another window are cleared. *)
BeginWindow(d) == [k \in {} |-> 0]

(* One round of ReplayRunner.run: the lowest window at any head. *)
PlayWindow ==
    /\ playing
    /\ \E m \in Modality : heads[m] # <<>>
    /\ LET w == Min({Head(heads[m]).wid : m \in {n \in Modality : heads[n] # <<>>}})
           rows == [m \in Modality |-> Drained(heads[m], w)]
       IN  /\ played # <<>> => w >= Last(played).wid
           /\ heads' = [m \in Modality |-> SubSeq(heads[m], Len(rows[m]) + 1, Len(heads[m]))]
           /\ played' = Append(played, [wid |-> w, rows |-> rows])
           /\ graph' = Applied(graph, rows["communication"])
           /\ delta' = Applied(BeginWindow(delta), rows["communication"])
    /\ UNCHANGED <<extractVars, playing, source>>

EndReplay ==
    /\ playing
    /\ \A m \in Modality : heads[m] = <<>>
    /\ playing' = FALSE
    /\ UNCHANGED <<extractVars, source, heads, played, graph, delta>>

SessionInit == ExtractInit /\ PlayInit

SessionNext ==
    \/ ExtractNext /\ UNCHANGED playVars
    \/ OpenReplay \/ PlayWindow \/ EndReplay

SessionSpec == SessionInit /\ [][SessionNext]_sessionVars

-----------------------------------------------------------------------------
Played(m) == FlattenSeq([n \in DOMAIN played |-> played[n].rows[m]])

(* Windows are played in strictly ascending order, every row in its own.     *)
WindowsInOrder ==
    /\ \A i, j \in DOMAIN played : i < j => played[i].wid < played[j].wid
    /\ \A n \in DOMAIN played, m \in Modality : \A i \in DOMAIN played[n].rows[m] :
            played[n].rows[m][i].wid = played[n].wid

(* A replay processes windows in strictly ascending order, every stored row  *)
(* in its own window and once, rows of a window in the order they were       *)
(* stored (window_sort.py, ReplayRunner.run).                                *)
ReplayIsChronological ==
    /\ WindowsInOrder
    /\ \A m \in Modality : IsPrefix(Played(m), ByWindow(source[m]))
    /\ ~playing => \A m \in Modality : Len(Played(m)) = Len(source[m])

(* The graph's totals and its deltas of the current window are those of the  *)
(* raw capture, all the way from the packets: when a whole session has been  *)
(* played, each link counts all of its packets (communication_graph.py).     *)
GraphCountsThePackets ==
    /\ \A k \in DOMAIN delta :
        delta[k] = Cardinality(PacketsBetween(Last(played).wid, k[1], k[2]))
    /\ (played # <<>> /\ ~playing) =>
        \A k \in DOMAIN graph :
            graph[k] = Cardinality(UNION {PacketsBetween(w, k[1], k[2]) : w \in PacketWindows})
=============================================================================
