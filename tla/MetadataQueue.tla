--------------------------- MODULE MetadataQueue ---------------------------
(***************************************************************************)
(* How a scraped playlist's metadata reaches the database.  VideoServer    *)
(* scrapes a movie's players and pushes their playlists on the queue       *)
(* new_metadata; every get_m3u8, of any movie, empties that queue and      *)
(* records what it popped (new_metadata_received), deleting the files of a *)
(* player whose metadata has changed (delete_full_movie).  The fetch of a   *)
(* playlist's times (compute_times_without_cache) is the second writer: it *)
(* holds a playlist for up to twenty minutes, and deletes and records with *)
(* it when it is not the one that is known.                                *)
(*                                                                         *)
(* A key is a player of a movie: its imdb and server.  An entry of the     *)
(* queue is [key, scrape, meta]: the scrape it comes from makes it unique, *)
(* and meta stands for the playlist, the number of segments and duration   *)
(* of which are compared.                                                  *)
(***************************************************************************)
EXTENDS Integers, Sequences, FiniteSets, Functions

CONSTANTS
    Calls,          \* concurrent calls of get_m3u8
    Keys, MovieOf,
    Metas,
    NoMeta,         \* no row in movies; a player without a video
    NotScraped,     \* not in the cache of players
    MaxScrapes,     \* bound on the scrapes
    MaxFaults       \* bound on database errors and cancelled calls

ASSUME QueueConstants ==
    /\ NoMeta \notin Metas
    /\ IsFiniteSet(Keys)
    /\ MaxScrapes \in Nat
    /\ MaxFaults \in Nat

VARIABLES
    players,        \* VideoServer.cache: by movie, its players' playlists
    queue,          \* new_metadata
    meta,           \* movies: by key, the metadata recorded
    timed,          \* the cache of times: by key, the entry's playlist
    stored,         \* by key, the playlists whose segments have a file
    dir,            \* keys whose directory exists
    pc, key, got,   \* each call: its next step, key and playlist
    items,          \*  what it popped and has not recorded,
    role,           \*  and the entry of times that its fetch computes
    scrapes, faults,
    pushed, recorded,   \* history: the entries scraped, and those recorded
    raced,          \* history: keys whose entries did not keep their order
    rewound,        \* history: keys whose row a fetch has deleted, or has
                    \* written from another playlist than the last scraped
    mixed           \* history: keys whose rows were last purged with a file
                    \* or a call of another playlist about, or by such a fetch

database == <<meta, stored, dir>>
call == <<pc, key, got, items>>
fetch == <<timed, role>>
history == <<pushed, recorded, raced, rewound, mixed>>
vars == <<players, queue, database, call, fetch, scrapes, faults, history>>

Movies == {MovieOf[k] : k \in Keys}
KeysOf(m) == {k \in Keys : MovieOf[k] = m}

Init ==
    /\ players = [m \in Movies |-> NotScraped]
    /\ queue = <<>>
    /\ meta = [k \in Keys |-> NoMeta]
    /\ stored = [k \in Keys |-> {}] /\ dir = {}
    /\ timed = [k \in Keys |-> NoMeta]
    /\ role = [c \in Calls |-> "none"]
    /\ pc = [c \in Calls |-> "idle"]
    /\ key \in [Calls -> Keys]
    /\ got = [c \in Calls |-> NoMeta]
    /\ items = [c \in Calls |-> {}]
    /\ scrapes = 0 /\ faults = 0
    /\ pushed = {} /\ recorded = {}
    /\ raced = {} /\ rewound = {} /\ mixed = {}

-----------------------------------------------------------------------------
Goto(c, step) == pc' = [pc EXCEPT ![c] = step]

\* An item is an entry and the next step of the future made for it.
Item(e, step) == [entry |-> e, step |-> step]

Entries(c) == {i.entry : i \in items[c]}

\* Entries neither recorded nor lost.
Pending == Range(queue) \cup UNION {Entries(c) : c \in Calls}

Orders(S) == Bijection(1 .. Cardinality(S), S)

\* The entry of a player that was scraped last.
Newest(k) ==
    {e \in pushed : e.key = k /\ \A o \in pushed : o.key = k => o.scrape <= e.scrape}

\* The playlists, other than m, of k's files and of the calls that may still
\* store one.
Others(k, m) ==
    (stored[k] \cup {got[c] : c \in {o \in Calls : /\ key[o] = k
                                            /\ pc[o] \in {"drain", "join", "download"}}})
    \ {m}

\* A purge of k leaves it mixed or sets it right.
Mark(k, wrong) == mixed' = IF wrong THEN mixed \cup {k} ELSE mixed \ {k}

\* A player without a video does not fail the call.
AnswerAnyway(c, k, playlist) ==
    /\ key' = [key EXCEPT ![c] = k]
    /\ got' = [got EXCEPT ![c] = playlist]
    /\ Goto(c, "drain")

\* The call has its player's playlist; without a video it has failed.
Answer(c, k, playlist) ==
    /\ key' = [key EXCEPT ![c] = k]
    /\ got' = [got EXCEPT ![c] = playlist]
    /\ Goto(c, IF playlist = NoMeta THEN "idle" ELSE "drain")

\* get_from_server, the movie's players being in the cache.
Cached(c, k) ==
    /\ pc[c] = "idle"
    /\ players[MovieOf[k]] # NotScraped
    /\ Answer(c, k, players[MovieOf[k]][k])
    /\ UNCHANGED <<players, queue, database, items, fetch, scrapes, faults, history>>

\* get_from_server when they are not: VideoServer::get scrapes every player
\* of the movie, once for all the calls that wait (try_get_with), and pushes
\* the playlists it has found.
Scrape(c, k) ==
    /\ pc[c] = "idle" /\ scrapes < MaxScrapes
    /\ players[MovieOf[k]] = NotScraped
    /\ \E f \in [KeysOf(MovieOf[k]) -> Metas \cup {NoMeta}] :
           LET new == {[key |-> o, scrape |-> scrapes + 1, meta |-> f[o]] :
                       o \in {x \in DOMAIN f : f[x] # NoMeta}}
           IN  /\ \E s \in Orders(new) : queue' = queue \o s
               /\ players' = [players EXCEPT ![MovieOf[k]] = f]
               /\ Answer(c, k, f[k])
               /\ pushed' = pushed \cup new
    /\ scrapes' = scrapes + 1
    /\ UNCHANGED <<database, items, fetch, faults, recorded, raced, rewound, mixed>>

\* The cache entry expires, or delete_entry invalidates it after a download
\* that timed out.
Invalidate(m) ==
    /\ players[m] # NotScraped
    /\ players' = [players EXCEPT ![m] = NotScraped]
    /\ UNCHANGED <<queue, database, call, fetch, scrapes, faults, history>>

-----------------------------------------------------------------------------
(* new_metadata_received.                                                  *)

Pop(c) ==
    /\ pc[c] = "drain"
    /\ queue # <<>>
    /\ items' = [items EXCEPT ![c] = @ \cup {Item(Head(queue), "read")}]
    /\ queue' = Tail(queue)
    /\ raced' = raced \cup
           {k \in {Head(queue).key} :
               \E o \in Calls : \E e \in Entries(o) : e.key = k}
    /\ UNCHANGED <<players, database, pc, key, got, fetch, scrapes, faults, pushed,
                   recorded, rewound, mixed>>

Drained(c) ==
    /\ pc[c] = "drain"
    /\ queue = <<>>
    /\ Goto(c, "join")
    /\ UNCHANGED <<players, queue, database, key, got, items, fetch, scrapes,
                   faults, history>>

Advance(c, i, step) ==
    items' = [items EXCEPT ![c] = (@ \ {i}) \cup {Item(i.entry, step)}]

\* A row that is there already is kept (INSERT OR IGNORE).
RecordFirst(c, i) ==
    /\ meta' = [meta EXCEPT ![i.entry.key] = IF @ = NoMeta THEN i.entry.meta
                                             ELSE @]
    /\ items' = [items EXCEPT ![c] = @ \ {i}]
    /\ recorded' = recorded \cup {i.entry}
    /\ rewound' = rewound \ {i.entry.key}

\* set_playlist_metadata; then the future's guard is disarmed.
Record(c, i) ==
    /\ meta' = [meta EXCEPT ![i.entry.key] = i.entry.meta]
    /\ items' = [items EXCEPT ![c] = @ \ {i}]
    /\ recorded' = recorded \cup {i.entry}
    /\ rewound' = rewound \ {i.entry.key}

\* The metadata is not compared with the playlist's.
ReadAny(c, i) ==
    /\ i.step = "read"
    /\ Advance(c, i, "set")
    /\ UNCHANGED <<database, recorded, rewound, mixed>>

\* get_playlist_metadata, and the comparison with the playlist's.
Read(c, i) ==
    /\ i.step = "read"
    /\ Advance(c, i, IF meta[i.entry.key] \in {NoMeta, i.entry.meta}
                     THEN "set" ELSE "delete")
    /\ UNCHANGED <<database, recorded, rewound, mixed>>

SetMetadata(c, i) ==
    /\ i.step = "set"
    /\ Record(c, i)
    /\ UNCHANGED <<stored, dir, mixed>>

\* delete_full_movie: the files, ...
DeleteFiles(c, i) ==
    /\ i.step = "delete"
    /\ i.entry.key \in dir
    /\ stored' = [stored EXCEPT ![i.entry.key] = {}]
    /\ Advance(c, i, "rows")
    /\ UNCHANGED <<meta, dir, recorded, rewound, mixed>>

\* ... then the rows, ...
DeleteRows(c, i) ==
    /\ i.step = "rows"
    /\ meta' = [meta EXCEPT ![i.entry.key] = NoMeta]
    /\ Advance(c, i, "insert")
    /\ Mark(i.entry.key, Others(i.entry.key, i.entry.meta) # {})
    /\ UNCHANGED <<stored, dir, recorded, rewound>>

\* ... and the new row.  A call that has the old playlist may still be
\* downloading: it is in a race with this.
Insert(c, i) ==
    /\ i.step = "insert"
    /\ Record(c, i)
    /\ Mark(i.entry.key, Others(i.entry.key, i.entry.meta) # {})
    /\ UNCHANGED <<stored, dir>>

\* One step of one of the futures that try_join_all polls.
Join(c) ==
    /\ pc[c] = "join"
    /\ \E i \in items[c] :
           \/ Read(c, i) \/ SetMetadata(c, i)
           \/ DeleteFiles(c, i) \/ DeleteRows(c, i) \/ Insert(c, i)
    /\ UNCHANGED <<players, queue, pc, key, got, fetch, scrapes, faults, pushed, raced>>

\* The futures are dropped, and what is not recorded with them.
PushNothingBack(c) ==
    /\ items' = [items EXCEPT ![c] = {}]
    /\ Goto(c, "idle")
    /\ UNCHANGED <<players, queue, database, key, got, fetch, scrapes, history>>

\* The futures are dropped: the guards push what is not recorded back.
PushBack(c) ==
    /\ \E s \in Orders(Entries(c)) : queue' = queue \o s
    /\ items' = [items EXCEPT ![c] = {}]
    /\ Goto(c, "idle")
    /\ raced' = raced \cup {k \in {e.key : e \in Entries(c)} :
                              \E e \in Range(queue) : e.key = k}
    /\ UNCHANGED <<players, database, key, got, fetch, scrapes, pushed, recorded,
                   rewound, mixed>>

\* read_dir fails when the player has no directory.
NoDirectory(c) ==
    /\ pc[c] = "join"
    /\ \E i \in items[c] : i.step = "delete" /\ i.entry.key \notin dir
    /\ PushBack(c)
    /\ UNCHANGED faults

\* An error of the database, or the request is cancelled.
Fault(c) ==
    /\ pc[c] = "join" /\ items[c] # {}
    /\ faults < MaxFaults /\ faults' = faults + 1
    /\ PushBack(c)

\* The call downloads a segment of its playlist, or needs the times of them.
Return(c) ==
    /\ pc[c] = "join" /\ items[c] = {}
    /\ \E next \in {"download", "times"} : Goto(c, next)
    /\ UNCHANGED <<players, queue, database, key, got, items, fetch, scrapes, faults,
                   history>>

\* The segment is stored, or not.
Download(c) ==
    /\ pc[c] = "download"
    /\ \/ /\ stored' = [stored EXCEPT ![key[c]] = @ \cup {got[c]}]
          /\ dir' = dir \cup {key[c]}
       \/ UNCHANGED <<stored, dir>>
    /\ Goto(c, "idle")
    /\ UNCHANGED <<players, queue, meta, key, got, items, fetch, scrapes, faults,
                   history>>

-----------------------------------------------------------------------------
(* The fetch of the times of the call's playlist: fast_get_times and the   *)
(* rounds of slow_fetch_times, none of which gives up when the playlist    *)
(* has been replaced.                                                      *)

\* The playlist's metadata as the entry of times has it or, when the entry is
\* to be created, as the row or at last the playlist itself.
Known(c) ==
    LET k == key[c]
    IN  IF timed[k] # NoMeta THEN timed[k]
        ELSE IF meta[k] # NoMeta THEN meta[k]
        ELSE got[c]

\* compute_times_without_cache up to its comparison.  The cache lets one
\* fetch at a time create an entry, and one at a time replace it.
Compare(c) ==
    LET r == IF timed[key[c]] = NoMeta THEN "create" ELSE "slow"
    IN  /\ pc[c] = "times"
        /\ \A o \in Calls : key[o] = key[c] => role[o] # r
        /\ role' = [role EXCEPT ![c] = r]
        /\ Goto(c, IF Known(c) = got[c] THEN "put" ELSE "purge")
        /\ UNCHANGED <<players, queue, database, key, got, items, timed, scrapes,
                       faults, history>>

\* delete_full_movie with the fetch's own playlist: the files, ...
FetchFiles(c) ==
    /\ pc[c] = "purge"
    /\ key[c] \in dir
    /\ stored' = [stored EXCEPT ![key[c]] = {}]
    /\ Goto(c, "rows")
    /\ UNCHANGED <<players, queue, meta, dir, key, got, items, fetch, scrapes,
                   faults, history>>

\* The fetch's playlist is not the one scraped last.
Outdated(c) == \A e \in Newest(key[c]) : e.meta # got[c]

\* ... then the rows, ...
FetchRows(c) ==
    /\ pc[c] = "rows"
    /\ meta' = [meta EXCEPT ![key[c]] = NoMeta]
    /\ Goto(c, "insert")
    /\ rewound' = rewound \cup {key[c]}
    /\ Mark(key[c], Outdated(c) \/ Others(key[c], got[c]) # {})
    /\ UNCHANGED <<players, queue, stored, dir, key, got, items, fetch, scrapes,
                   faults, pushed, recorded, raced>>

\* ... and the new row.
FetchInsert(c) ==
    /\ pc[c] = "insert"
    /\ meta' = [meta EXCEPT ![key[c]] = got[c]]
    /\ Goto(c, "put")
    /\ rewound' = IF Outdated(c) THEN rewound \cup {key[c]} ELSE rewound \ {key[c]}
    /\ Mark(key[c], Outdated(c) \/ Others(key[c], got[c]) # {})
    /\ UNCHANGED <<players, queue, stored, dir, key, got, items, fetch, scrapes,
                   faults, pushed, recorded, raced>>

\* The round is over: the entry has the playlist's metadata.
Put(c) ==
    /\ pc[c] = "put"
    /\ timed' = [timed EXCEPT ![key[c]] = got[c]]
    /\ role' = [role EXCEPT ![c] = "none"]
    /\ Goto(c, "times")
    /\ UNCHANGED <<players, queue, database, key, got, items, scrapes, faults, history>>

Leave(c) ==
    /\ role' = [role EXCEPT ![c] = "none"]
    /\ Goto(c, "idle")

\* read_dir fails in a fetch as well, and ends it.
FetchNoDirectory(c) ==
    /\ pc[c] = "purge"
    /\ key[c] \notin dir
    /\ Leave(c)
    /\ UNCHANGED <<players, queue, database, key, got, items, timed, scrapes, faults,
                   history>>

\* So does an error of the database or of a deletion, or a request that is
\* cancelled while it creates the entry.
FetchFails(c) ==
    /\ pc[c] \in {"purge", "rows", "insert", "put"}
    /\ faults < MaxFaults /\ faults' = faults + 1
    /\ Leave(c)
    /\ mixed' = IF pc[c] = "insert" THEN mixed \cup {key[c]} ELSE mixed
    /\ UNCHANGED <<players, queue, database, key, got, items, timed, scrapes,
                   pushed, recorded, raced, rewound>>

\* The fetch has finished, its time is up, or another one computes.
FetchEnds(c) ==
    /\ pc[c] = "times"
    /\ Leave(c)
    /\ UNCHANGED <<players, queue, database, key, got, items, timed, scrapes, faults,
                   history>>

Fetch(c) ==
    \/ Compare(c) \/ FetchFiles(c) \/ FetchRows(c) \/ FetchInsert(c) \/ Put(c)
    \/ FetchNoDirectory(c) \/ FetchFails(c) \/ FetchEnds(c)

\* The cache of times drops an entry to make room.
Evict(k) ==
    /\ timed[k] # NoMeta
    /\ timed' = [timed EXCEPT ![k] = NoMeta]
    /\ UNCHANGED <<players, queue, database, call, role, scrapes, faults, history>>

Next ==
    \/ \E c \in Calls :
           \/ \E k \in Keys : Cached(c, k) \/ Scrape(c, k)
           \/ Pop(c) \/ Drained(c) \/ Join(c) \/ Return(c) \/ Download(c)
           \/ NoDirectory(c) \/ Fault(c)
           \/ Fetch(c)
    \/ \E m \in Movies : Invalidate(m)
    \/ \E k \in Keys : Evict(k)

Spec == Init /\ [][Next]_vars

-----------------------------------------------------------------------------
Entry == [key : Keys, scrape : 1 .. MaxScrapes, meta : Metas]

TypeOK ==
    /\ DOMAIN players = Movies
    /\ \A m \in Movies : \/ players[m] = NotScraped
                         \/ players[m] \in [KeysOf(m) -> Metas \cup {NoMeta}]
    /\ queue \in Seq(Entry)
    /\ meta \in [Keys -> Metas \cup {NoMeta}]
    /\ stored \in [Keys -> SUBSET Metas] /\ dir \in SUBSET Keys
    /\ timed \in [Keys -> Metas \cup {NoMeta}]
    /\ pc \in [Calls -> {"idle", "drain", "join", "download",
                       "times", "purge", "rows", "insert", "put"}]
    /\ role \in [Calls -> {"none", "create", "slow"}]
    /\ key \in [Calls -> Keys] /\ got \in [Calls -> Metas \cup {NoMeta}]
    /\ items \in [Calls -> SUBSET [entry : Entry,
                        step : {"read", "set", "delete", "rows", "insert"}]]
    /\ scrapes \in 0 .. MaxScrapes

\* An entry scraped is in exactly one place until it is recorded, the queue or
\* one of the calls, however many calls pop, fail and push back at once: its
\* metadata is never dropped and never handled twice.
NoEntryLost ==
    /\ pushed = recorded \cup Pending
    /\ recorded \cap Pending = {}
    /\ \A i, j \in DOMAIN queue : queue[i] = queue[j] => i = j
    /\ \A c \in Calls :
           /\ Entries(c) \cap Range(queue) = {}
           /\ \A i, j \in items[c] : i.entry = j.entry => i = j
           /\ \A o \in Calls : Entries(c) \cap Entries(o) # {} => c = o

PendingFor(k) == {e \in Pending : e.key = k}

\* Once nothing is pending for a player, its metadata is that of the playlist
\* scraped last, unless two of its entries were handled at once, one was
\* pushed back behind another, or a fetch of times has the last word: it
\* deleted the row and did not write it, or wrote an older playlist's.
LatestRecorded ==
    \A k \in Keys \ (raced \cup rewound) : PendingFor(k) = {} =>
        \A e \in Newest(k) : meta[k] = e.meta

\* Once nothing is pending for a player, its files are segments of the
\* playlist recorded, which a later change of metadata will be compared
\* with, or of the one a fetch of times is about to record: the files of
\* another playlist were deleted.  The exceptions are entries out of order as
\* above, a file or a call of the other playlist that was there when the rows
\* were replaced, and a fetch that replaced them with an older playlist or
\* failed halfway.
FilesMatchMetadata ==
    \A k \in Keys \ (raced \cup mixed) : PendingFor(k) = {} =>
        stored[k] \subseteq {meta[k]} \cup
            {got[c] : c \in {o \in Calls : pc[o] = "insert" /\ key[o] = k}}
=============================================================================
