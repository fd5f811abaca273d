----------------------------- MODULE LiveTranscode -----------------------------
(***************************************************************************)
(* Videos a page plays through the transcoding service: transcodingPlayer.js *)
(* (start, wait for the stream, resume after a stall, leave), the jobs of    *)
(* ghoststream/manager.js, and the HLS players it creates.  A player is one  *)
(* container of the viewer; nothing stops what it awaits when it is removed. *)
(***************************************************************************)
EXTENDS Naturals

CONSTANTS Players,      \* the containers the viewer shows, one after another
          MaxJobs,      \* bound: jobs started
          MaxPolls,     \* how often a new job is asked for its stream (30, or 20 times)
          MaxResumes    \* MAX_RESUME_ATTEMPTS

ASSUME TranscodeAssumption ==
    {MaxJobs, MaxPolls, MaxResumes} \subseteq Nat /\ MaxPolls # 0

Jobs == 1..MaxJobs
NoJob == 0

VARIABLES native,      \* the browser plays HLS itself, otherwise hls.js does
          jobs,        \* the service's jobs
          player       \* what each container's functions know and wait for

transcodeVars == <<native, jobs, player>>

Container ==
    [phase: {"unused", "asking", "polling", "loading", "buffering", "playing", "cached",
             "failed"},
     shown: BOOLEAN,
     job: Jobs \cup {NoJob}, source: Jobs \cup {NoJob},
     polled: Jobs \cup {NoJob}, newJob: Jobs \cup {NoJob},
     resuming: {"no", "posted", "polling"},
     attempts: 0..MaxResumes, polls: 0..(MaxPolls - 1),
     stalls: SUBSET {"last", "older"},
     asked: {"no", "sent", "good", "bad"}]

\* The service has got this job.
Real(j) == j \in Jobs /\ jobs[j] # "none"

TranscodeTypeOK ==
    /\ native \in BOOLEAN
    /\ jobs \in [Jobs -> {"none", "starting", "streaming", "broken"}]
    /\ player \in [Players -> Container]
    \* what plays is a job of the service, and so is the job whose status is asked
    /\ \A p \in Players : player[p].phase = "playing" => Real(player[p].source) /\ Real(player[p].job)

TranscodeInit ==
    /\ native \in BOOLEAN
    /\ jobs = [j \in Jobs |-> "none"]
    /\ player = [p \in Players |->
         [phase |-> "unused", shown |-> FALSE, job |-> NoJob, source |-> NoJob,
          polled |-> NoJob, newJob |-> NoJob, resuming |-> "no", attempts |-> 0,
          polls |-> 0, stalls |-> {}, asked |-> "no"]]

-----------------------------------------------------------------------------
(* Starting: startTranscoding, startLiveTranscode, startHLSPlayback. *)

Show(p) ==
    /\ player[p].phase = "unused"
    /\ player' = [player EXCEPT ![p].phase = "asking", ![p].shown = TRUE]
    /\ UNCHANGED <<native, jobs>>

PlayCached(p) ==
    /\ player[p].phase = "asking"
    /\ player' = [player EXCEPT ![p].phase = "cached"]
    /\ UNCHANGED <<native, jobs>>

\* The service is not available or refuses the job.
StartFails(p) ==
    /\ player[p].phase = "asking"
    /\ player' = [player EXCEPT ![p].phase = "failed"]
    /\ UNCHANGED <<native, jobs>>

NewJobs == {j \in Jobs : jobs[j] = "none" /\ \A i \in 1..(j - 1) : jobs[i] # "none"}

\* transcode(): the answer may name the stream already.
Started(j, status) == jobs' = [jobs EXCEPT ![j] = status]

Transcoded(p) ==
    /\ player[p].phase = "asking"
    /\ \E j \in NewJobs, status \in {"starting", "streaming"} :
         /\ Started(j, status)
         /\ player' = [player EXCEPT ![p].job = j, ![p].polls = 0,
                         ![p].phase = IF status = "streaming" THEN "loading" ELSE "polling"]
    /\ UNCHANGED native

\* One turn of a loop that asks for the stream of job j: getJobStatus answers,
\* or gives null, which counts as a turn.
Asked(p, j, answered) ==
    IF answered /\ jobs[j] = "streaming" THEN "stream"
    ELSE IF answered /\ jobs[j] = "broken" THEN "error"
    ELSE IF player[p].polls + 1 = MaxPolls THEN "error" ELSE "again"

PollStream(p) ==
    /\ player[p].phase = "polling"
    /\ \E answered \in BOOLEAN :
         LET turn == Asked(p, player[p].job, answered) IN
         /\ player' = [player EXCEPT
                         ![p].phase = CASE turn = "stream" -> "loading"
                                        [] turn = "error" -> "failed"
                                        [] turn = "again" -> "polling",
                         ![p].polls = IF turn = "again" THEN @ + 1 ELSE @]
    /\ UNCHANGED <<native, jobs>>

\* hls.js parses the manifest, which stops its timer and all later rejections.
ManifestParsed(p) ==
    /\ ~native /\ player[p].phase = "loading"
    /\ player' = [player EXCEPT ![p].phase = "buffering"]
    /\ UNCHANGED <<native, jobs>>

\* A fatal error before that, or the timeout of a minute.
LoadFails(p) ==
    /\ ~native /\ player[p].phase = "loading"
    /\ player' = [player EXCEPT ![p].phase = "failed"]
    /\ UNCHANGED <<native, jobs>>

\* play() settles; the browser's own player has loaded by then, or failed too often.
\* No timer waits for either, and a stream without data leaves it pending.  hls.js
\* watches the job it loads until the job is ready, ends, or cannot be asked;
\* natively nothing does.
LoadSettles(p) ==
    /\ player[p].phase = IF native THEN "loading" ELSE "buffering"
    /\ \/ \E polled \in {NoJob, player[p].job} :
            /\ native => polled = NoJob
            /\ player' = [player EXCEPT ![p].phase = "playing", ![p].source = player[p].job,
                                        ![p].polled = polled]
       \/ player' = [player EXCEPT ![p].phase = "failed"]
    /\ UNCHANGED <<native, jobs>>

-----------------------------------------------------------------------------
(* setupAutoResume: a stalled or failed video gets another job. *)

autoResumeTranscode(r) ==
    IF r.resuming # "no" \/ r.attempts >= MaxResumes THEN r
    ELSE [r EXCEPT !.resuming = "posted", !.attempts = @ + 1, !.polls = 0]

\* Each wait arms a timer; only the last one is known to whoever clears it.
VideoWaits(p) ==
    /\ player[p].phase = "playing"
    /\ native => player[p].shown
    /\ player' = [player EXCEPT ![p].stalls =
                    {"last"} \cup IF "last" \in @ THEN {"older"} ELSE @]
    /\ UNCHANGED <<native, jobs>>

Playing(p) ==
    /\ player[p].phase = "playing"
    /\ player[p].shown
    /\ player' = [player EXCEPT ![p].stalls = @ \ {"last"}, ![p].attempts = 0]
    /\ UNCHANGED <<native, jobs>>

StallLasts(p) ==
    /\ player[p].asked = "no"
    /\ \E t \in player[p].stalls :
         player' = [player EXCEPT ![p].stalls = @ \ {t}, ![p].asked = "sent"]
    /\ UNCHANGED <<native, jobs>>

\* The service looks at the job, or the request fails.
StatusLooked(p) ==
    /\ player[p].asked = "sent"
    /\ \/ player' = [player EXCEPT ![p].asked = "bad"]
       \/ /\ jobs[player[p].job] # "broken"
          /\ player' = [player EXCEPT ![p].asked = "good"]
    /\ UNCHANGED <<native, jobs>>

StatusAnswered(p) ==
    /\ player[p].asked \in {"good", "bad"}
    /\ LET r == [player[p] EXCEPT !.asked = "no"] IN
       player' = [player EXCEPT ![p] =
                    IF player[p].asked = "good" THEN r ELSE autoResumeTranscode(r)]
    /\ UNCHANGED <<native, jobs>>

\* transcodeerror: after the last attempt the video shows the error and pauses.
WatchSeesError(p) ==
    /\ player[p].polled # NoJob
    /\ jobs[player[p].polled] = "broken"
    /\ player' = [player EXCEPT ![p] = autoResumeTranscode([@ EXCEPT !.polled = NoJob])]
    /\ UNCHANGED <<native, jobs>>

WatchEnds(p) ==
    /\ player[p].polled # NoJob
    /\ player' = [player EXCEPT ![p].polled = NoJob]
    /\ UNCHANGED <<native, jobs>>

ResumeRefused(p) ==
    /\ player[p].resuming = "posted"
    /\ player' = [player EXCEPT ![p].resuming = "no"]
    /\ UNCHANGED <<native, jobs>>

\* The stream is found: the job is now the player's, and hls.js loads it; the
\* browser's own player has no hls to load it with, which ends the resume as
\* an error.
Resumed(r) ==
    [r EXCEPT !.resuming = "no", !.job = r.newJob,
              !.source = IF native THEN r.source ELSE r.newJob]

ResumeStarted(p) ==
    /\ player[p].resuming = "posted"
    /\ \E j \in NewJobs, status \in {"starting", "streaming"} :
         /\ Started(j, status)
         /\ LET r == [player[p] EXCEPT !.newJob = j, !.resuming = "polling"] IN
            player' = [player EXCEPT ![p] = IF status = "streaming" THEN Resumed(r) ELSE r]
    /\ UNCHANGED native

PollResumeKeepsFlag(p) ==
    /\ player[p].resuming = "polling"
    /\ \E answered \in BOOLEAN :
         LET r == player[p]
             turn == Asked(p, r.newJob, answered)
         IN /\ player' = [player EXCEPT ![p] =
                            CASE turn = "stream" -> Resumed(r)
                              [] turn = "error" -> r
                              [] turn = "again" -> [r EXCEPT !.polls = @ + 1]]
    /\ UNCHANGED <<native, jobs>>

PollResume(p) ==
    /\ player[p].resuming = "polling"
    /\ \E answered \in BOOLEAN :
         LET r == player[p]
             turn == Asked(p, r.newJob, answered)
         IN /\ player' = [player EXCEPT ![p] =
                            CASE turn = "stream" -> Resumed(r)
                              [] turn = "error" -> [r EXCEPT !.resuming = "no"]
                              [] turn = "again" -> [r EXCEPT !.polls = @ + 1]]
    /\ UNCHANGED <<native, jobs>>

-----------------------------------------------------------------------------
(* Leaving. *)

\* navigateMedia: cleanupOffscreenMedia puts its work, _ghoststreamCleanup with
\* it, off to the next frame, and renderMediaWindow removes every container of
\* the viewer before that frame, so that it finds none to clean up.
Leave(p) ==
    /\ player[p].shown
    /\ player' = [player EXCEPT ![p].shown = FALSE]
    /\ UNCHANGED <<native, jobs>>

\* goBackToCategories removes every container and runs no cleanup.
CloseViewer ==
    /\ \E p \in Players : player[p].shown
    /\ player' = [p \in Players |-> [player[p] EXCEPT !.shown = FALSE]]
    /\ UNCHANGED <<native, jobs>>

-----------------------------------------------------------------------------
(* The service. *)

JobStreams(j) ==
    /\ jobs[j] = "starting"
    /\ jobs' = [jobs EXCEPT ![j] = "streaming"]
    /\ UNCHANGED <<native, player>>

JobBreaks(j) ==
    /\ jobs[j] \in {"starting", "streaming"}
    /\ jobs' = [jobs EXCEPT ![j] = "broken"]
    /\ UNCHANGED <<native, player>>

-----------------------------------------------------------------------------
StartStep(p) ==
    \/ PlayCached(p) \/ StartFails(p) \/ Transcoded(p) \/ PollStream(p)
    \/ ManifestParsed(p) \/ LoadFails(p)

ResumeStep(p) == ResumeRefused(p) \/ ResumeStarted(p) \/ PollResume(p)

TranscodeNext ==
    \/ \E p \in Players : Show(p)
    \/ \E p \in Players : StartStep(p)
    \/ \E p \in Players : LoadSettles(p)
    \/ \E p \in Players : ResumeStep(p)
    \/ \E p \in Players : VideoWaits(p)
    \/ \E p \in Players : Playing(p)
    \/ \E p \in Players : StallLasts(p)
    \/ \E p \in Players : StatusLooked(p)
    \/ \E p \in Players : StatusAnswered(p)
    \/ \E p \in Players : WatchSeesError(p)
    \/ \E p \in Players : WatchEnds(p)
    \/ \E p \in Players : Leave(p)
    \/ CloseViewer
    \/ \E j \in Jobs : JobStreams(j)
    \/ \E j \in Jobs : JobBreaks(j)

TranscodeSpec == TranscodeInit /\ [][TranscodeNext]_transcodeVars

\* Requests are answered or fail, and the timers go off; the service itself may
\* leave a job starting for ever, and a load may never settle.
TranscodeFairness ==
    \A p \in Players : WF_transcodeVars(StartStep(p)) /\ WF_transcodeVars(ResumeStep(p))

FairTranscodeSpec == TranscodeSpec /\ TranscodeFairness

-----------------------------------------------------------------------------
(* Properties. *)

\* A container that began to start its video ends up with an error, or with a stream
\* that its player has got as far as the manifest (the browser's own one: as far as
\* the address), and a resume under way ends, so that isResuming never shuts out the
\* resumes of later stalls, whatever the service does with the job.
StartsAndResumesEnd ==
    []<>(\A p \in Players : /\ player[p].phase \notin {"asking", "polling"}
                            /\ player[p].phase = "loading" => native
                            /\ player[p].resuming = "no")

\* The job of a video that is left while it plays does not go on for nobody: the
\* cleanup cancels it, as the function stored with the video is written to do.
LeftJobsEnd ==
    \A p \in Players :
        (player[p].phase = "playing" /\ ~player[p].shown)
            ~> player[p].job \notin {j \in Jobs : jobs[j] = "streaming"}
=============================================================================
