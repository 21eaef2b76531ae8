----------------------------- MODULE SelfUpdate -----------------------------
(***************************************************************************)
(* How a kt executable learns of a newer release and replaces itself, on a *)
(* machine where several kt commands run at once.                          *)
(*                                                                         *)
(* A release is a number, 0 a tag that is no version.  Its archive and the *)
(* checksum file are two uploads, and a release may be published again.    *)
(* The executable is the number of the release it came from and whether it *)
(* is whole.  A command knows its own version, which it was compiled with, *)
(* whatever has become of the file since.                                  *)
(***************************************************************************)
EXTENDS Naturals

CONSTANTS
    Kts,                 \* kt commands
    Releases,            \* 1 .. n
    CHECK_INTERVAL_SECS, \* in ticks of the clock
    MaxTime,
    UpdateBounds         \* records naming how often each bounded thing happens

\* What a configuration of this module gives them.
SelfUpdateConstants ==
    /\ Releases \subseteq Nat /\ \E n \in Releases : Releases = 1 .. n
    /\ CHECK_INTERVAL_SECS \in Nat \ {0} /\ MaxTime \in Nat

VARIABLES
    exe,        \* the installed executable
    temp,       \* the replacement each command writes, or NoFile
    latest,     \* the tag of the latest release
    asset,      \* the two uploads of each release, as versions of the archive
    kt,         \* what each command is doing
    cache,      \* update-check.json
    clock,      \* the time, as the system tells it
    since,      \* history: the latest release when each tick began
    honest,     \* history: no fetch has failed, no clock been set back
    limits

updateVars == <<exe, temp, latest, asset, kt, cache, clock, since, honest, limits>>

NoFile  == [of |-> 0, whole |-> FALSE]
NoCache == [tag |-> 0, at |-> MaxTime + 1]   \* absent, torn or unreadable
NoTag   == 0

Whole(v) == [of |-> v, whole |-> TRUE]

Asleep == [at |-> "none"]

\* A broken comparison: the tag only has to be another.
is_other_version(current, tag) == tag # 0 /\ tag # current

\* Neither is newer when one is no version.
is_newer_version(current, tag) == tag # 0 /\ tag > current

UpdateInit ==
    /\ exe = Whole(1) /\ temp = [k \in Kts |-> NoFile]
    /\ latest = 1 /\ asset = [r \in Releases |-> [archive |-> 1, checksum |-> 1]]
    /\ kt = [k \in Kts |-> Asleep]
    /\ cache = NoCache /\ clock = 0 /\ since = [t \in 0 .. MaxTime |-> 1]
    /\ honest = TRUE
    /\ limits \in UpdateBounds

Spend(what) == limits[what] > 0 /\ limits' = [limits EXCEPT ![what] = @ - 1]

\* A command that is at one step goes on to another.
Go(k, from, to) == kt[k].at = from /\ kt' = [kt EXCEPT ![k].at = to]

End(k) == kt' = [kt EXCEPT ![k] = Asleep]

-----------------------------------------------------------------------------
(***************************************************************************)
(* Replacing the executable.                                               *)
(***************************************************************************)
UnchangedByUpdate == UNCHANGED <<latest, asset, cache, clock, since, honest>>

\* A command runs whatever is installed when it starts.
self_update(k) ==
    /\ kt[k] = Asleep /\ exe.whole /\ Spend("updates")
    /\ kt' = [kt EXCEPT ![k] = [at |-> "tag", version |-> exe.of]]
    /\ UNCHANGED <<exe, temp>> /\ UnchangedByUpdate

latest_release_tag(k) ==
    /\ kt[k].at = "tag"
    /\ kt' = [kt EXCEPT ![k] =
                 IF is_newer_version(@.version, latest)
                 THEN [at |-> "archive", version |-> @.version, tag |-> latest]
                 ELSE Asleep]
    /\ UNCHANGED <<exe, temp, limits>> /\ UnchangedByUpdate

download_archive(k) ==
    /\ kt[k].at = "archive"
    /\ kt' = [kt EXCEPT ![k] = [at |-> "checksum", version |-> @.version, tag |-> @.tag,
                                archive |-> asset[@.tag].archive]]
    /\ UNCHANGED <<exe, temp, limits>> /\ UnchangedByUpdate

Verified(k) == kt[k].archive = asset[kt[k].tag].checksum

\* A checksum of other bytes ends the update; the archive is then unpacked, and
\* the executable must still be there.
verify_checksum(k) ==
    /\ kt[k].at = "checksum"
    /\ kt' = [kt EXCEPT ![k] =
                 IF Verified(k) /\ exe # NoFile THEN [@ EXCEPT !.at = "write"] ELSE Asleep]
    /\ UNCHANGED <<exe, temp, limits>> /\ UnchangedByUpdate

\* The replacement is written beside the executable ...
write_replacement(k) ==
    /\ Go(k, "write", "mode")
    /\ temp' = [temp EXCEPT ![k] = [of |-> kt[k].tag, whole |-> FALSE]]
    /\ UNCHANGED <<exe, limits>> /\ UnchangedByUpdate

\* ... to its end, and made executable ...
make_executable(k) ==
    /\ Go(k, "mode", "rename")
    /\ temp' = [temp EXCEPT ![k].whole = TRUE]
    /\ UNCHANGED <<exe, limits>> /\ UnchangedByUpdate

\* A broken replacement: the file is renamed before it is written to its end.
rename_early(k) ==
    /\ kt[k].at \in {"mode", "rename"} /\ End(k)
    /\ exe' = temp[k] /\ temp' = [temp EXCEPT ![k] = NoFile]
    /\ UNCHANGED limits /\ UnchangedByUpdate

\* ... and renamed over it.
rename(k) ==
    /\ kt[k].at = "rename" /\ End(k)
    /\ exe' = temp[k] /\ temp' = [temp EXCEPT ![k] = NoFile]
    /\ UNCHANGED limits /\ UnchangedByUpdate

Updating == {"tag", "archive", "checksum", "write", "mode", "rename"}

\* Any step may fail: a download, an archive without a kt, a full disk, a
\* rename the system refuses.  What was written is removed.
update_fails(k) ==
    /\ kt[k].at \in Updating /\ Spend("failures")
    /\ End(k) /\ temp' = [temp EXCEPT ![k] = NoFile]
    /\ UNCHANGED exe /\ UnchangedByUpdate

\* A command is killed: what it has written stays, under a name of its own.
killed(k) ==
    /\ kt[k] # Asleep /\ Spend("kills")
    /\ End(k)
    /\ UNCHANGED <<exe, temp>> /\ UnchangedByUpdate

\* Homebrew or Cargo does it instead, and puts in what is then the latest.
run_command(k) ==
    /\ kt[k].at = "tag" /\ limits.manager
    /\ End(k) /\ exe' = Whole(latest)
    /\ UNCHANGED <<temp, limits>> /\ UnchangedByUpdate

-----------------------------------------------------------------------------
(***************************************************************************)
(* The passive check before a command does what it was started for.        *)
(***************************************************************************)
UnchangedByCheck == UNCHANGED <<exe, temp, latest, asset, clock, since>>

\* A broken freshness: the age is not looked at.
cache_is_there(c, now) == c # NoCache

cache_is_fresh(c, now) == c # NoCache /\ (c.at >= now \/ now - c.at < CHECK_INTERVAL_SECS)

Notice(k, tag) == IF is_newer_version(kt[k].version, tag) THEN tag ELSE NoTag

\* The clock and the cache are read; a fresh one answers.
maybe_notice(k) ==
    /\ kt[k] = Asleep /\ exe.whole /\ Spend("checks")
    /\ kt' = [kt EXCEPT ![k] =
                 IF cache_is_fresh(cache, clock)
                 THEN [at |-> "told", version |-> exe.of, now |-> clock, tag |-> cache.tag]
                 ELSE [at |-> "ask", version |-> exe.of, now |-> clock,
                       tag |-> IF cache = NoCache THEN NoTag ELSE cache.tag]]
    /\ UNCHANGED <<cache, honest>> /\ UnchangedByCheck

\* The latest tag, or what the old cache said.
ask(k) ==
    /\ kt[k].at = "ask"
    /\ \/ kt' = [kt EXCEPT ![k] = [@ EXCEPT !.at = "save", !.tag = latest]]
          /\ UNCHANGED <<honest, limits>>
       \/ Spend("failures") /\ Go(k, "ask", "save") /\ honest' = FALSE
    /\ UNCHANGED cache /\ UnchangedByCheck

\* The file is truncated, and then written; a failure is ignored, and two
\* commands that write at once may leave a mixture.
save_cache(k) ==
    /\ Go(k, "save", "write cache")
    /\ cache' = NoCache
    /\ UNCHANGED <<honest, limits>> /\ UnchangedByCheck

write_cache(k) ==
    /\ Go(k, "write cache", "told")
    /\ cache' \in {[tag |-> kt[k].tag, at |-> kt[k].now]}
                    \cup (IF cache = NoCache THEN {} ELSE {NoCache})
    /\ UNCHANGED <<honest, limits>> /\ UnchangedByCheck

\* The notice is printed, if the tag is newer, and the command ends.
notice_given(k) ==
    /\ kt[k].at = "told" /\ End(k)
    /\ UNCHANGED <<cache, honest, limits>> /\ UnchangedByCheck

-----------------------------------------------------------------------------
(***************************************************************************)
(* The world.                                                              *)
(***************************************************************************)
publish_release ==
    /\ latest + 1 \in Releases
    /\ latest' = latest + 1
    /\ UNCHANGED <<exe, temp, asset, kt, cache, clock, since, honest, limits>>

\* A release is published again: its archive first, its checksum after it.
republish(r) ==
    /\ r <= latest
    /\ \/ asset[r].archive = asset[r].checksum /\ Spend("republished")
          /\ asset' = [asset EXCEPT ![r].archive = @ + 1]
       \/ asset[r].archive # asset[r].checksum /\ UNCHANGED limits
          /\ asset' = [asset EXCEPT ![r].checksum = asset[r].archive]
    /\ UNCHANGED <<exe, temp, latest, kt, cache, clock, since, honest>>

clock_ticks ==
    /\ clock < MaxTime /\ clock' = clock + 1
    /\ since' = [since EXCEPT ![clock'] = latest]
    /\ UNCHANGED <<exe, temp, latest, asset, kt, cache, honest, limits>>

set_back ==
    /\ clock > 0 /\ Spend("corrections")
    /\ clock' = 0 /\ honest' = FALSE
    /\ UNCHANGED <<exe, temp, latest, asset, kt, cache, since>>

UpdateNext ==
    \/ publish_release \/ clock_ticks \/ set_back \/ \E r \in Releases : republish(r)
    \/ \E k \in Kts :
          \/ self_update(k) \/ latest_release_tag(k) \/ download_archive(k)
          \/ verify_checksum(k) \/ write_replacement(k) \/ make_executable(k) \/ rename(k)
          \/ update_fails(k) \/ killed(k) \/ run_command(k)
          \/ maybe_notice(k) \/ ask(k) \/ save_cache(k) \/ write_cache(k) \/ notice_given(k)

UpdateSpec == UpdateInit /\ [][UpdateNext]_updateVars

-----------------------------------------------------------------------------
(***************************************************************************)
(* Properties.                                                             *)
(***************************************************************************)
UpdateTypeOK ==
    /\ exe \in [of : Releases \cup {0}, whole : BOOLEAN]
    /\ temp \in [Kts -> [of : Releases \cup {0}, whole : BOOLEAN]]
    /\ latest \in Releases
    /\ cache \in {NoCache} \cup [tag : Releases \cup {0}, at : 0 .. MaxTime]
    /\ clock \in 0 .. MaxTime /\ honest \in BOOLEAN

\* Whatever fails, is killed or runs at the same time, there is always a whole
\* executable, and it is one that was released.
ExeIsWhole == exe.whole /\ exe.of \in 1 .. latest

\* A notice never names a version that was not released or is not newer than
\* the command, and while fetches work and the clock is right it lags less than
\* an interval behind the releases: neither another command that saves an older
\* answer later, nor a cache torn between two of them, can make it older.
NoticeIsTimely ==
    \A k \in Kts : kt[k].at = "told" =>
        /\ Notice(k, kt[k].tag) # NoTag => Notice(k, kt[k].tag) \in kt[k].version + 1 .. latest
        /\ honest => kt[k].tag >=
              since[IF kt[k].now < CHECK_INTERVAL_SECS THEN 0
                    ELSE kt[k].now - CHECK_INTERVAL_SECS + 1]

\* There is a whole executable at all times, and a notice is of a newer release.
UpdateIsSafe == ExeIsWhole /\ NoticeIsTimely
=============================================================================
