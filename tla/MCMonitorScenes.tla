-------------------------- MODULE MCMonitorScenes --------------------------
(* Two instances of SourceMonitor in one run: in the scene "capture" cron's  *)
(* monitor pass follows a page whose content changes; in the scene "overlap" *)
(* two passes meet on a page with one offer that comes and goes.             *)
EXTENDS MCSourceMonitor

CONSTANT Cron   \* the monitor pass that plays alone in "capture"

VARIABLE scene

mcVars == <<vars, scene>>

Plays(m) == scene = "overlap" \/ m \in Cron

\* In "overlap" the page has one content, one row of it is enough and nothing fails.
OnlyHash == CHOOSE h \in Hashes : TRUE
SceneBounds ==
  scene = "overlap" => page'.hash = OnlyHash /\ Cardinality(DOMAIN deals') <= 1 /\ faults' = 0

SceneInit == ServedInit /\ scene \in {"capture", "overlap"} /\ (scene = "overlap" => page.hash = OnlyHash)

SceneNext ==
  /\ Next
  /\ SceneBounds
  /\ \A m \in Monitors : ~Plays(m) => pass'[m] = Idle
  /\ UNCHANGED scene

\* SourceMonitor's fairness, for the scene and the pass the liveness property is about.
SceneFairness ==
  /\ WF_mcVars(scene = "capture" /\ Elapse /\ UNCHANGED scene)
  /\ \A m \in Cron :
       /\ SF_mcVars(scene = "capture" /\ StartMonitor(m) /\ UNCHANGED scene)
       /\ WF_mcVars(scene = "capture" /\ (MonitorStep(m) \/ CrawlStep(m)) /\ UNCHANGED scene)

SceneSpec == SceneInit /\ [][SceneNext]_mcVars /\ SceneFairness

\* LastingContentIsCaptured, in the scene whose pass cron keeps starting: content
\* that stays on the page becomes a row of its source.
ContentIsCaptured == scene = "capture" => LastingContentIsCaptured
=============================================================================
