----------------------------- MODULE MCBackground -----------------------------
\* The parts that promise that something happens in the end: the application's
\* lifecycle in both hosts with two callers of Shutdown, the refreshing of trackers,
\* and the ranking of the queue under load.  They share no state, so each behaviour
\* is about one of them, the scene, and the others stay as they are: their states
\* add up and do not multiply.
EXTENDS AppLifecycle, Trackers, QueueLoad

VARIABLE scene

backgroundVars == <<scene, appVars, trackerVars, loadVars>>

Init ==
    /\ scene \in {"lifecycle", "trackers", "load"}
    /\ AppInit /\ (scene # "lifecycle" => host = "server")
    /\ TrackerInit /\ (scene # "trackers" => slots = 1)
    /\ LoadInit /\ (scene # "load" => ~Waiting(Low))

AppScene == scene = "lifecycle" /\ UNCHANGED <<scene, trackerVars, loadVars>>
TrackerScene == scene = "trackers" /\ UNCHANGED <<scene, appVars, loadVars>>
LoadScene == scene = "load" /\ UNCHANGED <<scene, appVars, trackerVars>>

Next ==
    \/ AppScene /\ AppNext
    \/ TrackerScene /\ TrackerNext
    \/ LoadScene /\ LoadNext

\* The fairness of the three specifications, each in its scene.
Fairness ==
    /\ WF_backgroundVars(AppScene /\ StartStep)
    /\ \A w \in Worker : WF_backgroundVars(AppScene /\ EndPass(w)) /\ SF_backgroundVars(AppScene /\ Exit(w))
    /\ \A c \in Caller : WF_backgroundVars(AppScene /\ ShutdownStep(c))
    /\ \A g \in Refresher : WF_backgroundVars(TrackerScene /\ RefreshStep(g))
    /\ WF_backgroundVars(LoadScene /\ Minute) /\ WF_backgroundVars(LoadScene /\ Dispatching)

Spec == Init /\ [][Next]_backgroundVars /\ Fairness
==============================================================================
