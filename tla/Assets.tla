------------------------------- MODULE Assets -------------------------------
(***************************************************************************)
(* Textures: the registry that names them and counts their holders         *)
(* (assets.cpp, loaders/image.cpp) over a generational slot map            *)
(* (slotmap.h), and the device's own table of them (impl_headless/draw.cpp)*)
(* which the renderer's target shares (queue.cpp).  A name is its hash.    *)
(* An upload fails as other devices' may; TL_ASSERT is compiled out.       *)
(***************************************************************************)
EXTENDS Integers, Sequences, FiniteSets, SequencesExt

CONSTANTS
    Names,          \* names of images
    TexSlots,       \* slots of a Handle<_,12,4>: the registry's and the device's
    GenMax,         \* H::GEN_MAX
    MaxWidth,       \* the widest texture of the device
    ArenaRoom,      \* streaming buffers the platform's arena has room for
    MaxHolds        \* bound on the holders of one texture

ASSUME AssetsAssumption == TexSlots \in Nat /\ GenMax \in Nat \ {0} /\ ArenaRoom \in Nat

VARIABLES
    textures,       \* SlotMap: each slot's record, generation and live bit; the free list
    by_name,        \* live images by name
    device,         \* textures of the device, how many live, buffers left in the arena
    target_tex,     \* the renderer's target, or Null
    asset_reply,    \* the last answer
    exhausted,      \* a push failed: TL_FATAL
    holds,          \* history: how many hold each handle
    past            \* history: handles whose last holder released them

avars == <<textures, by_name, device, target_tex, asset_reply, exhausted, holds, past>>

Indices == 0 .. TexSlots - 1
Null == [idx |-> 0, gen |-> 0]
Handle(i, g) == [idx |-> i, gen |-> g]
NoName == ""                 \* the name of a streaming texture: hash 0

(* ---- slotmap.h ---- *)

NoRec == [name |-> NoName, refcount |-> 0, dev |-> Null, kind |-> "none"]
Count == Len(textures.slots)
At(i) == textures.slots[i + 1]
Alive(h) == h # Null /\ h.idx < Count /\ At(h.idx).live /\ At(h.idx).gen = h.gen

\* Where the next insert goes: the slot freed last, or a new one.
Reused == textures.free # <<>>
NextHandle == IF Reused THEN Handle(Last(textures.free), At(Last(textures.free)).gen) ELSE Handle(Count, 1)

Insert(rec) ==
    textures' =
        IF Reused
        THEN [slots |-> [textures.slots EXCEPT ![NextHandle.idx + 1].rec = rec, ![NextHandle.idx + 1].live = TRUE],
              free |-> Front(textures.free)]
        ELSE [textures EXCEPT !.slots = Append(@, [rec |-> rec, gen |-> 1, live |-> TRUE])]

\* A removed slot is always reused, its generation starting over after the last.
Bug_Vacate(h) ==
    textures' =
        [slots |-> [textures.slots EXCEPT ![h.idx + 1] =
                        [rec |-> NoRec, gen |-> IF h.gen = GenMax THEN 1 ELSE h.gen + 1, live |-> FALSE]],
         free |-> Append(textures.free, h.idx)]

\* A removed slot is zeroed; it is reused under the next generation, or never again after the last.
Vacate(h) ==
    LET last == h.gen = GenMax
    IN textures' =
        [slots |-> [textures.slots EXCEPT ![h.idx + 1] =
                        [rec |-> NoRec, gen |-> IF last THEN h.gen ELSE h.gen + 1, live |-> FALSE]],
         free |-> IF last THEN textures.free ELSE Append(textures.free, h.idx)]

(* ---- DrawApi ---- *)

Lookup(h) == h # Null /\ device.tex[h.idx].alive /\ device.tex[h.idx].gen = h.gen
FreeTex(d) == {i \in Indices : ~d.tex[i].alive}
CreateError(w) == IF w = 0 \/ w > MaxWidth THEN "TEX_BAD_ARG" ELSE IF FreeTex(device) = {} THEN "TEX_LIMIT" ELSE "OK"
NextTex(d) == LET i == Min(FreeTex(d)) IN Handle(i, IF d.tex[i].gen = 0 THEN 1 ELSE d.tex[i].gen)

Made(d, h, usage) == [d EXCEPT !.tex[h.idx] = [alive |-> TRUE, gen |-> h.gen, usage |-> usage], !.live = @ + 1]
Create(usage) ==
    device' = [Made(device, NextTex(device), usage) EXCEPT !.room = IF usage = "STREAMING" THEN @ - 1 ELSE @]

\* A stale or null handle is ignored; the generation moves on at once, never to 0.
Freed(gen, usage) == [alive |-> FALSE, gen |-> IF gen >= GenMax THEN 1 ELSE gen + 1, usage |-> usage]
Destroyed(d, h) == [d EXCEPT !.tex[h.idx] = Freed(@.gen, @.usage), !.live = @ - 1]
Destroy(h) == device' = IF Lookup(h) THEN Destroyed(device, h) ELSE device

(* ---- AssetRegistry ---- *)

AInit ==
    /\ textures = [slots |-> <<>>, free |-> <<>>]
    /\ by_name = <<>>
    /\ device = [tex |-> [i \in Indices |-> [alive |-> FALSE, gen |-> 0, usage |-> "STATIC"]],
                 live |-> 0, room |-> ArenaRoom]
    /\ target_tex = Null /\ asset_reply = "OK" /\ exhausted = FALSE
    /\ holds = <<>> /\ past = {}

DomainFull == ~Reused /\ Count >= TexSlots

Refuse(e) ==
    /\ asset_reply' = e
    /\ UNCHANGED <<textures, by_name, device, target_tex, exhausted, holds, past>>

\* Of a map, or of history, one more entry.
With(f, key, value) == [k \in DOMAIN f \union {key} |-> IF k = key THEN value ELSE f[k]]

\* A new record, and the handle that its first holder gets.
Grant(name, kind) ==
    /\ Insert([name |-> name, refcount |-> 1, dev |-> NextTex(device), kind |-> kind])
    /\ holds' = With(holds, NextHandle, 1)
    /\ asset_reply' = "OK"

CreateStreaming(w) ==
    IF w = 0 THEN Refuse("ASSET_BAD_ARG")
    ELSE IF DomainFull THEN Refuse("ASSET_LIMIT")
    ELSE IF CreateError(w) # "OK" THEN Refuse(CreateError(w))
    ELSE IF device.room = 0
    THEN exhausted' = TRUE /\ UNCHANGED <<textures, by_name, device, target_tex, asset_reply, holds, past>>
    ELSE /\ Create("STREAMING") /\ Grant(NoName, "STREAMING")
         /\ UNCHANGED <<by_name, target_tex, exhausted, past>>

\* One more holder of what is loaded.
LoadAgain(name) ==
    LET h == by_name[name]
    IN /\ holds[h] < MaxHolds
       /\ textures' = [textures EXCEPT !.slots[h.idx + 1].rec.refcount = @ + 1]
       /\ holds' = [holds EXCEPT ![h] = @ + 1]
       /\ asset_reply' = "OK"
       /\ UNCHANGED <<by_name, device, target_tex, exhausted, past>>

\* It stays.
Bug_UploadFails ==
    /\ Create("STATIC")
    /\ asset_reply' = "DEVICE_ERROR"
    /\ UNCHANGED <<textures, by_name, target_tex, exhausted, holds, past>>

\* What is created for an upload that fails is destroyed.
UploadFails ==
    \E h \in {NextTex(device)} :
        /\ device' = [device EXCEPT !.tex[h.idx] = Freed(h.gen, "STATIC")]
        /\ asset_reply' = "DEVICE_ERROR"
        /\ UNCHANGED <<textures, by_name, target_tex, exhausted, holds, past>>

Upload(name) ==
    /\ Create("STATIC") /\ Grant(name, "IMAGE")
    /\ by_name' = With(by_name, name, NextHandle)
    /\ UNCHANGED <<target_tex, exhausted, past>>

Load(name, w) ==
    IF name = NoName THEN Refuse("ASSET_BAD_ARG")
    ELSE IF name \in DOMAIN by_name THEN LoadAgain(name)
    ELSE IF DomainFull THEN Refuse("ASSET_LIMIT")
    ELSE \/ \E e \in {"NOT_FOUND", "FILE_IO", "IMAGE_DECODE"} : Refuse(e)
         \/ w # 0 /\ CreateError(w) # "OK" /\ Refuse(CreateError(w))
         \/ w # 0 /\ CreateError(w) = "OK" /\ (UploadFails \/ Upload(name))

\* A holder lets go; so may one that let go before, of a handle that is stale.
Release(h) ==
    IF ~Alive(h) THEN Refuse("OK")
    ELSE IF At(h.idx).rec.refcount > 1
    THEN /\ textures' = [textures EXCEPT !.slots[h.idx + 1].rec.refcount = @ - 1]
         /\ holds' = [holds EXCEPT ![h] = @ - 1]
         /\ asset_reply' = "OK"
         /\ UNCHANGED <<by_name, device, target_tex, exhausted, past>>
    ELSE /\ Destroy(At(h.idx).rec.dev)
         /\ by_name' = IF At(h.idx).rec.kind = "STREAMING" THEN by_name
                       ELSE Restrict(by_name, DOMAIN by_name \ {At(h.idx).rec.name})
         /\ Vacate(h)
         /\ holds' = Restrict(holds, DOMAIN holds \ {h})
         /\ past' = past \union {h}
         /\ asset_reply' = "OK"
         /\ UNCHANGED <<target_tex, exhausted>>

\* render_resize: the target goes before the next one comes, which may fail.
Resize(w) ==
    \E d \in {IF Lookup(target_tex) THEN Destroyed(device, target_tex) ELSE device} :
        /\ IF w = 0 \/ w > MaxWidth \/ FreeTex(d) = {}
           THEN device' = d /\ target_tex' = Null
           ELSE device' = Made(d, NextTex(d), "TARGET") /\ target_tex' = NextTex(d)
        /\ UNCHANGED <<textures, by_name, asset_reply, exhausted, holds, past>>

ANext ==
    /\ ~exhausted
    /\ \/ \E w \in 0 .. MaxWidth + 1 :
            CreateStreaming(w) \/ Resize(w) \/ \E n \in Names \union {NoName} : Load(n, w)
       \/ \E h \in DOMAIN holds \union past \union {Null} : Release(h)

ASpec == AInit /\ [][ANext]_avars

Live == {i \in 0 .. Count - 1 : At(i).live}
Rec(h) == At(h.idx).rec

\* Whatever failed on the way, the device's textures are the registry's and the renderer's, one
\* each: none leaks and none is shared (image.cpp:59-62, assets.cpp:59).  A record counts the
\* holders that have not let go, a name finds the one live image of that name, and a handle let go
\* by all finds nothing ever after, though its slot is used again and again (slotmap.h's
\* quarantine).  The domain is full only when every slot is in use or has run through its
\* generations, and only streaming buffers can run out fatally.
AssetsInv ==
    /\ {Handle(i, device.tex[i].gen) : i \in {j \in Indices : device.tex[j].alive}}
        = {At(i).rec.dev : i \in Live} \union ({target_tex} \ {Null})
    /\ device.live = Cardinality(Live) + (IF target_tex = Null THEN 0 ELSE 1)
    /\ {Handle(i, At(i).gen) : i \in Live} = DOMAIN holds
    /\ \A h \in DOMAIN holds :
        /\ Rec(h).refcount = holds[h]
        /\ Rec(h).kind = "IMAGE" => Rec(h).name \in DOMAIN by_name /\ by_name[Rec(h).name] = h
    /\ \A n \in DOMAIN by_name : by_name[n] \in DOMAIN holds /\ Rec(by_name[n]).name = n
    /\ \A h \in past : ~Alive(h)
    /\ asset_reply = "ASSET_LIMIT" => \A i \in Indices : i \in Live \/ (i < Count /\ At(i).gen = GenMax)
    /\ exhausted => device.room = 0
=============================================================================
