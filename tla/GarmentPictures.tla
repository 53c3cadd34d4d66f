--------------------------- MODULE GarmentPictures ---------------------------
(***************************************************************************)
(* Pictures in object storage, their ImageAsset rows, and the endpoint that   *)
(* serves them with thumbnails cached beside them (api/v1/images.py,          *)
(* storage/, stage 4).  An uploaded photo has a key of its own; the canonical *)
(* pictures of a garment share one, so a new one replaces the old one's bytes  *)
(* before its row is committed.  The hash of a picture is the picture.       *)
(***************************************************************************)
EXTENDS Naturals, Sequences, FiniteSets

CONSTANTS
    Photos,            \* what a picture may show
    Garments,
    Drawers,           \* sessions that may be drawing at once
    Readers,           \* requests for pictures that may be under way at once
    Sizes,             \* what ?thumb= may ask for
    MinEdge, MaxEdge,  \* THUMB_MIN_EDGE, THUMB_MAX_EDGE
    BuildConcurrency,  \* THUMB_BUILD_CONCURRENCY
    MaxUploads, MaxAssets, MaxDrawn, MaxShown  \* bounds

ASSUME PicturesAssumption ==
    /\ MinEdge \in Nat /\ MaxEdge \in Nat /\ MinEdge <= MaxEdge
    /\ Sizes \subseteq Nat /\ BuildConcurrency \in Nat \ {0}

VARIABLES
    objects,   \* object storage: [key, photo], one to a key
    assets,    \* ImageAsset rows: [key, sha, made]
    drawn,     \* how often a picture was put under each canonical key
    drawing,   \* the sessions of stage 4 between put_object and commit
    reading,   \* the requests for a picture
    shown      \* what was served: [of, photo]

pictureVars == <<objects, assets, drawn, drawing, reading, shown>>

Canonicals == {[canonical |-> g] : g \in Garments}
Free == [phase |-> "free"]
NoThumb == [none |-> TRUE]

PicturesInit ==
    /\ objects = {} /\ assets = <<>> /\ shown = {}
    /\ drawn = [k \in Canonicals |-> 0]
    /\ drawing = [d \in Drawers |-> Free]
    /\ reading = [r \in Readers |-> Free]

Exists(key) == \E o \in objects : o.key = key
GetObject(key) == (CHOOSE o \in objects : o.key = key).photo
PutObject(key, photo) ==
    objects' = {o \in objects : o.key # key} \cup {[key |-> key, photo |-> photo]}

\* The shorter edge is at least MinEdge and at most MaxEdge.
Edge(size) == IF size < MinEdge THEN MinEdge ELSE IF size > MaxEdge THEN MaxEdge ELSE size

\* A mutant of ThumbnailKey: the thumbnail is cached beside its picture.
ThumbnailBeside(asset, size) == [thumb |-> asset.key, edge |-> Edge(size)]
ThumbnailKey(asset, size) == [thumb |-> asset.sha, edge |-> Edge(size)]

-----------------------------------------------------------------------------
(* Pictures arrive                                                          *)

\* The key is new; when the row cannot be committed the object is left over.
StoreUploadedImage(photo) ==
    LET uploads == {o \in objects : "raw" \in DOMAIN o.key}
        key == [raw |-> Cardinality(uploads)] IN
    /\ Len(assets) < MaxAssets /\ Cardinality(uploads) < MaxUploads
    /\ PutObject(key, photo)
    /\ \/ assets' = Append(assets, [key |-> key, sha |-> photo, made |-> 0])
       \/ assets' = assets
    /\ UNCHANGED <<drawn, drawing, reading, shown>>

\* Stage 4 puts the verified picture,
PutCanonical(d, key, photo) ==
    /\ drawing[d] = Free /\ drawn[key] < MaxDrawn
    /\ PutObject(key, photo)
    /\ drawn' = [drawn EXCEPT ![key] = @ + 1]
    /\ drawing' = [drawing EXCEPT ![d] =
          [phase |-> "put", key |-> key, sha |-> photo, made |-> drawn[key] + 1]]
    /\ UNCHANGED <<assets, reading, shown>>

\* and its row is committed with the rest of the run,
CommitCanonical(d) ==
    LET r == drawing[d] IN
    /\ r.phase = "put" /\ Len(assets) < MaxAssets
    /\ assets' = Append(assets, [key |-> r.key, sha |-> r.sha, made |-> r.made])
    /\ drawing' = [drawing EXCEPT ![d] = Free]
    /\ UNCHANGED <<objects, drawn, reading, shown>>

\* or rolled back.
LoseCanonical(d) ==
    /\ drawing[d].phase = "put"
    /\ drawing' = [drawing EXCEPT ![d] = Free]
    /\ UNCHANGED <<objects, assets, drawn, reading, shown>>

-----------------------------------------------------------------------------
(* Pictures are served                                                      *)

Goes(r, to) == reading' = [reading EXCEPT ![r] = to]

Serve(r, photo) ==
    /\ Goes(r, Free)
    /\ shown' = shown \cup {[of |-> reading[r].of, photo |-> photo]}

AskForPicture(r, a) ==
    /\ reading[r] = Free /\ Cardinality(shown) < MaxShown
    /\ \E size \in Sizes :
          Goes(r, [phase |-> "cache", of |-> a, thumb |-> ThumbnailKey(assets[a], size)])
       \/ Goes(r, [phase |-> "original", of |-> a, thumb |-> NoThumb])
    /\ UNCHANGED <<objects, assets, drawn, drawing, shown>>

\* A cache that cannot be read is a miss.
LookInCache(r) ==
    LET q == reading[r] IN
    /\ q.phase = "cache"
    /\ \/ Exists(q.thumb) /\ Serve(r, GetObject(q.thumb))
       \/ Goes(r, [q EXCEPT !.phase = "original"]) /\ UNCHANGED shown
    /\ UNCHANGED <<objects, assets, drawn, drawing>>

FetchOriginal(r) ==
    LET q == reading[r]
        photo == GetObject(assets[q.of].key) IN
    /\ q.phase = "original"
    /\ \/ q.thumb = NoThumb /\ Serve(r, photo)
       \/ /\ q.thumb # NoThumb /\ UNCHANGED shown
          /\ Goes(r, [phase |-> "queued", of |-> q.of, thumb |-> q.thumb, photo |-> photo])
       \/ Goes(r, Free) /\ UNCHANGED shown
    /\ UNCHANGED <<objects, assets, drawn, drawing>>

\* The gate lets BuildConcurrency builds run at a time.
EnterGate(r) ==
    /\ reading[r].phase = "queued"
    /\ Cardinality({q \in Readers : reading[q].phase = "building"}) < BuildConcurrency
    /\ Goes(r, [reading[r] EXCEPT !.phase = "building"])
    /\ UNCHANGED <<objects, assets, drawn, drawing, shown>>

\* A build that fails serves the original.
BuildThumbnail(r) ==
    LET q == reading[r] IN
    /\ q.phase = "building"
    /\ Serve(r, q.photo) \/ (Goes(r, [q EXCEPT !.phase = "built"]) /\ UNCHANGED shown)
    /\ UNCHANGED <<objects, assets, drawn, drawing>>

\* The thumbnail is served although it could not be cached.
ServeThumbnail(r) ==
    LET q == reading[r] IN
    /\ q.phase = "built"
    /\ PutObject(q.thumb, q.photo) \/ objects' = objects
    /\ Serve(r, q.photo)
    /\ UNCHANGED <<assets, drawn, drawing>>

PicturesNext ==
    \/ \E photo \in Photos : StoreUploadedImage(photo)
    \/ \E d \in Drawers :
          \/ \E key \in Canonicals, photo \in Photos : PutCanonical(d, key, photo)
          \/ CommitCanonical(d) \/ LoseCanonical(d)
    \/ \E r \in Readers :
          \/ \E a \in DOMAIN assets : AskForPicture(r, a)
          \/ LookInCache(r) \/ FetchOriginal(r) \/ EnterGate(r) \/ BuildThumbnail(r)
          \/ ServeThumbnail(r)

PicturesSpec == PicturesInit /\ [][PicturesNext]_pictureVars

-----------------------------------------------------------------------------

PicturesTypeOK ==
    /\ \A o, p \in objects : o.key = p.key => o = p
    /\ \A a \in DOMAIN assets : assets[a].sha \in Photos /\ Exists(assets[a].key)
    /\ \A s \in shown : s.of \in DOMAIN assets /\ s.photo \in Photos

\* Another picture was put under the asset's key after its own.
DrawnOver(a) == assets[a].made # 0 /\ drawn[assets[a].key] > assets[a].made

\* "A given asset id / object key never changes what it returns" (images.py:22):
\* what is served of an asset, from its key or from the cache, is the picture its
\* row has the hash of, unless it was drawn over, or another with the same hash
\* was, whose thumbnail it shares.
AssetsShowThemselves ==
    \A s \in shown :
        \/ s.photo = assets[s.of].sha
        \/ \E a \in DOMAIN assets : assets[a].sha = assets[s.of].sha /\ DrawnOver(a)
=============================================================================
