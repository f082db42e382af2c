------------------------------- MODULE Avatars -------------------------------
(***************************************************************************)
(* The profile photo of one user: one object that every upload overwrites  *)
(* and a link in users.logo with the time of the upload as its version     *)
(* (handleProfileAvatarUpload and handleProfileAvatarDownload).  Browsers  *)
(* keep what a link has once shown them, for a year and without asking.    *)
(***************************************************************************)
EXTENDS Naturals

CONSTANTS
    Uploads,    \* uploads, each of a photo of its own
    Browsers,
    NoPhoto,
    MaxClock    \* bound: the milliseconds that are modelled

ASSUME AvatarsAssumption ==
    /\ NoPhoto \notin Uploads
    /\ MaxClock \in Nat \ {0}

VARIABLES
    object,     \* the photo in MinIO
    logo,       \* the version in users.logo, 0 while it is empty
    clock,      \* the time in milliseconds
    upload,     \* how far each upload has come
    version,    \* the version that an upload has built its link with
    cache       \* what each browser keeps under each version

avatarVars == <<object, logo, clock, upload, version, cache>>

Times == 0 .. MaxClock
Photos == Uploads \cup {NoPhoto}

AvatarsTypeOK ==
    /\ object \in Photos
    /\ logo \in Times
    /\ clock \in Times
    /\ upload \in [Uploads -> {"new", "put", "versioned", "done",
                               "failed", "half"}]
    /\ version \in [Uploads -> Times]
    /\ cache \in [Browsers -> [Times -> Photos]]

AvatarsInit ==
    /\ object = NoPhoto
    /\ logo = 0
    /\ clock = 1
    /\ upload = [p \in Uploads |-> "new"]
    /\ version = [p \in Uploads |-> 0]
    /\ cache = [b \in Browsers |-> [v \in Times |-> NoPhoto]]

Goes(p, step) == upload' = [upload EXCEPT ![p] = step]
Passes == clock < MaxClock /\ clock' = clock + 1

(* PutObject, which takes a millisecond at least. *)
PutObject(p) ==
    /\ upload[p] = "new"
    /\ Passes
    /\ \/ object' = p /\ Goes(p, "put")
       \/ object' = p /\ Goes(p, "half")
       \/ UNCHANGED object /\ Goes(p, "failed")
    /\ UNCHANGED <<logo, version, cache>>

(* Mutation: the version does not change with the upload.                  *)
SameVersion == 1

Now == clock

(* Uploads of one user are taken not to reach this line in the same        *)
(* millisecond.                                                            *)
BuildVersion(p) ==
    /\ upload[p] = "put"
    /\ Passes
    /\ version' = [version EXCEPT ![p] = Now]
    /\ Goes(p, "versioned")
    /\ UNCHANGED <<object, logo, cache>>

(* The UPDATE of users.logo, which may fail, or whose answer may be lost. *)
SetLogo(p) ==
    /\ upload[p] = "versioned"
    /\ \/ logo' = version[p] /\ Goes(p, "done")
       \/ UNCHANGED logo /\ Goes(p, "half")
    /\ UNCHANGED <<object, clock, version, cache>>

(* A page shows the photo of a profile: from the cache, or downloaded. *)
Download(b) ==
    /\ logo # 0
    /\ cache[b][logo] = NoPhoto
    /\ cache' = [cache EXCEPT ![b] = [@ EXCEPT ![logo] = object]]
    /\ UNCHANGED <<object, logo, clock, upload, version>>

AvatarsNext ==
    \/ \E p \in Uploads : PutObject(p) \/ BuildVersion(p) \/ SetLogo(p)
    \/ \E b \in Browsers : Download(b)

AvatarsSpec == AvatarsInit /\ [][AvatarsNext]_avatarVars

-----------------------------------------------------------------------------
Shown(b) == IF cache[b][logo] # NoPhoto THEN cache[b][logo] ELSE object

(* Once no upload is between its object and its link, and none has stopped *)
(* there, every browser shows the photo that is stored, whatever the order *)
(* in which objects and links of concurrent uploads were written.          *)
SettledShowsStored ==
    (logo # 0 /\ \A p \in Uploads : upload[p] \in {"new", "done", "failed"})
        => \A b \in Browsers : Shown(b) = object
=============================================================================
