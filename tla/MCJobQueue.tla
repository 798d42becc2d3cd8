----------------------------- MODULE MCJobQueue -----------------------------
(* Small instances of JobQueue for TLC.                                    *)
EXTENDS JobQueue, TLC

CONSTANTS w1, w2, c1, c2

MCWorker == {w1, w2}
MCClients == {c1, c2}
MCOneClient == {c1}
MCServesAll == [w \in Worker |-> Key]

(* selection_refresh (guarded) whose handler enqueues final_publish        *)
(* (not guarded) with the newest revision.                                 *)
PublishKeys == {"refresh", "publish"}
PublishGuarded == {"refresh"}
PublishFollow == [k \in Key |-> IF k = "refresh" THEN {"publish"} ELSE {}]
PublishRevs == [k \in Key |-> IF k = "publish" THEN {1, 2} ELSE {NoRev}]

(* musicbrainz_refresh (guarded, one active identity, provider kind) and   *)
(* folder_release_selection (guarded, IntegrityError not caught).          *)
IdentityKeys == {"mb_refresh", "folder"}
IdentityOnly == {"mb_refresh"}
IdentityFollow == [k \in Key |-> IF k = "mb_refresh" THEN {"folder"} ELSE {}]
IdentityRevs == [k \in Key |-> IF k = "mb_refresh" THEN {1, 2} ELSE {NoRev}]

SessionSymmetry == Permutations(Worker) \union Permutations(Client)
=============================================================================
