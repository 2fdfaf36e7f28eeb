------------------------------ MODULE MediaSignIn ------------------------------
(***************************************************************************)
(* Cookies for yt-dlp: internal/mediaauth/service.go and the two callers   *)
(* of PrepareAuthArgs, Engine.Start with runDownload and AnalyzeWithPolicy *)
(* in internal/engine/ytdlp.  The sealed cookies become a temporary file   *)
(* for the time of one run; requests change mode and cookies meanwhile,    *)
(* and a killed program leaves files that the next start removes.          *)
(*                                                                         *)
(* Cookies are numbered.  A request holds the service's lock; the reading  *)
(* of the mode waits for it, the reading of the secret does not.           *)
(* Bounds: MaxRuns runs, MaxOrders requests, MaxMishaps.                   *)
(***************************************************************************)
EXTENDS Integers

CONSTANTS
    Run,      \* slots for yt-dlp runs, downloads and analyses
    MaxRuns, MaxOrders, MaxMishaps

VARIABLES
    program,   \* "up", or "cleaning" at start, or "down"
    mode,      \* media_auth_settings: the mode stored
    cookies,   \* the sealed cookies, NoCookies when there are none
    run,       \* slot -> where the run is, the cookies it read, and whether it
               \* began after the cookies had been deleted
    tempFile,  \* slot -> the cookies in its temporary file, or NoCookies
    order,     \* the request that holds the lock
    removed,   \* the last request about cookies was a deletion that succeeded
    used       \* runs, requests and mishaps so far

signVars == <<program, mode, cookies, run, tempFile, order, removed, used>>

NoCookies == 0
Mode == {"none", "browser", "cookie_file"}
NoRun == [at |-> "none", read |-> NoCookies, after |-> FALSE]

SignTypeOK ==
    /\ program \in {"up", "cleaning", "down"} /\ mode \in Mode
    /\ cookies \in 0 .. 2
    /\ run \in [Run -> [at : {"none", "secret", "file", "args", "working"}, read : 0 .. 2, after : BOOLEAN]]
    /\ tempFile \in [Run -> 0 .. 2]
    /\ order \in {"none", "reset_mode"} /\ removed \in BOOLEAN
    /\ program = "up" \/ (order = "none" /\ \A r \in Run : run[r] = NoRun)

SignInit ==
    /\ program = "up" /\ mode = "none" /\ cookies = NoCookies
    /\ run = [r \in Run |-> NoRun] /\ tempFile = [r \in Run |-> NoCookies]
    /\ order = "none" /\ removed = FALSE
    /\ used = [runs |-> 0, orders |-> 0, mishaps |-> 0]
------------------------------------------------------------------------------
Use(what, most) == used[what] < most /\ used' = [used EXCEPT ![what] = @ + 1]
Unlocked == program = "up" /\ order = "none"
SettingsStay == UNCHANGED <<mode, cookies, order, removed>>

\* GetSettings shows the mode "cookie_file" only while there are cookies.
EffectiveMode == IF mode = "cookie_file" /\ cookies = NoCookies THEN "none" ELSE mode

UpdateSignIn(m) ==
    /\ Unlocked /\ Use("orders", MaxOrders)
    /\ m = "cookie_file" => cookies # NoCookies
    /\ mode' = m
    /\ UNCHANGED <<program, cookies, run, tempFile, order, removed>>

ImportCookies(c) ==
    /\ Unlocked /\ Use("orders", MaxOrders)
    /\ cookies' = c /\ removed' = FALSE
    /\ UNCHANGED <<program, mode, run, tempFile, order>>

\* Mutant: deleting takes the mode back and leaves the cookies.
DeleteModeOnly ==
    /\ Unlocked /\ Use("orders", MaxOrders)
    /\ order' = "reset_mode"
    /\ UNCHANGED <<program, mode, cookies, run, tempFile, removed>>

\* DeleteCookies: the secret goes first, the mode in a second write.
DeleteCookies ==
    /\ Unlocked /\ Use("orders", MaxOrders)
    /\ cookies' = NoCookies /\ order' = "reset_mode"
    /\ UNCHANGED <<program, mode, run, tempFile, removed>>

ResetMode ==
    /\ order = "reset_mode" /\ order' = "none" /\ removed' = TRUE
    /\ mode' = IF mode = "cookie_file" THEN "none" ELSE mode
    /\ UNCHANGED <<program, cookies, run, tempFile, used>>

ResetModeFails ==
    /\ order = "reset_mode" /\ order' = "none" /\ Use("mishaps", MaxMishaps)
    /\ UNCHANGED <<program, mode, cookies, run, tempFile, removed>>
------------------------------------------------------------------------------
RunAt(r, label) == run' = [run EXCEPT ![r].at = label]
Over(r) == run' = [run EXCEPT ![r] = NoRun]

\* PrepareAuthArgs.
ReadMode(r) ==
    /\ Unlocked /\ run[r] = NoRun /\ Use("runs", MaxRuns)
    /\ run' = [run EXCEPT ![r] = [NoRun EXCEPT !.at = IF EffectiveMode = "cookie_file" THEN "secret" ELSE "args",
                                               !.after = removed]]
    /\ UNCHANGED <<program, tempFile>> /\ SettingsStay

\* The lock has been given back: the cookies may have gone or changed.
ReadCookies(r) ==
    /\ run[r].at = "secret"
    /\ IF cookies = NoCookies THEN Over(r) ELSE run' = [run EXCEPT ![r].at = "file", ![r].read = cookies]
    /\ UNCHANGED <<program, tempFile, used>> /\ SettingsStay

\* A file that cannot be written completely is removed again.
CreateTempCookieFile(r) ==
    /\ run[r].at = "file"
    /\ \/ RunAt(r, "args") /\ tempFile' = [tempFile EXCEPT ![r] = run[r].read] /\ UNCHANGED used
       \/ Over(r) /\ Use("mishaps", MaxMishaps) /\ UNCHANGED tempFile
    /\ UNCHANGED program /\ SettingsStay

Cleanup(r) == tempFile' = [tempFile EXCEPT ![r] = NoCookies]

\* The rest of the arguments; subtitle options that are not valid end the run.
BuildArgs(r) ==
    /\ run[r].at = "args"
    /\ \/ RunAt(r, "working") /\ UNCHANGED <<tempFile, used>>
       \/ Over(r) /\ Cleanup(r) /\ Use("mishaps", MaxMishaps)
    /\ UNCHANGED program /\ SettingsStay

\* However yt-dlp ended, the deferred cleanup runs when its goroutine returns.
RunEnds(r) ==
    /\ run[r].at = "working"
    /\ Over(r) /\ Cleanup(r)
    /\ UNCHANGED <<program, used>> /\ SettingsStay
------------------------------------------------------------------------------
\* The program is killed, or exits before the goroutines have returned.
Killed ==
    /\ program # "down" /\ program' = "down" /\ Use("mishaps", MaxMishaps)
    /\ run' = [r \in Run |-> NoRun] /\ order' = "none"
    /\ UNCHANGED <<mode, cookies, tempFile, removed>>

Launches ==
    /\ program = "down" /\ program' = "cleaning"
    /\ UNCHANGED <<run, tempFile, used>> /\ SettingsStay

\* CleanupStaleTempFiles, before the first request; a removal that fails is left out.
CleanupStaleTempFiles ==
    /\ program = "cleaning" /\ program' = "up"
    /\ tempFile' = [r \in Run |-> NoCookies]
    /\ UNCHANGED <<run, used>> /\ SettingsStay

Preparing(r) == ReadMode(r) \/ ReadCookies(r) \/ CreateTempCookieFile(r) \/ BuildArgs(r) \/ RunEnds(r)

SignNext ==
    \/ \E m \in Mode : UpdateSignIn(m)
    \/ \E c \in 1 .. 2 : ImportCookies(c)
    \/ DeleteCookies \/ ResetMode \/ ResetModeFails
    \/ \E r \in Run : Preparing(r)
    \/ Killed \/ Launches \/ CleanupStaleTempFiles

SignSpec == SignInit /\ [][SignNext]_signVars
------------------------------------------------------------------------------
\* While the program serves, every temporary file with cookies belongs to a run
\* that goes on: early returns, ends of every kind, and kills leave none behind.
FileHasRun ==
    program = "up" => \A r \in Run : tempFile[r] # NoCookies => run[r].at \in {"args", "working"}

\* A run that begins after the cookies were deleted never gets any, until new ones
\* are imported, although its mode and its cookies are read at two times.
DeletedCookiesStayOut == \A r \in Run : run[r].after /\ removed => tempFile[r] = NoCookies

\* Cookies go to runs that may have them, and nowhere else.
CookiesAreGuarded == SignTypeOK /\ FileHasRun /\ DeletedCookiesStayOut
==============================================================================
