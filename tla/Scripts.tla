------------------------------ MODULE Scripts ------------------------------
(***************************************************************************)
(* The eight scripts of src/ as programs of module Pyplot: for each chart  *)
(* the plt.figure()/plt.subplots() that starts it, the drawing calls that *)
(* fill it (one artist per chart, or per axes for plt.subplots), the      *)
(* plt.savefig that writes it and the plt.close() that ends it, where the *)
(* script has one.  print() calls and styling arguments are left out.     *)
(***************************************************************************)
EXTENDS Pyplot

FigStep == [op |-> "fig", arg |-> NoArg]
CloseStep == [op |-> "close", arg |-> NoArg]
DrawStep(a) == [op |-> "draw", arg |-> a]
SaveStep(f) == [op |-> "save", arg |-> f]

\* One chart that the script closes after saving it.
ClosedChart(a, f) == <<FigStep, DrawStep(a), SaveStep(f), CloseStep>>

\* One chart that the script leaves open after saving it.
OpenChart(a, f) == <<FigStep, DrawStep(a), SaveStep(f)>>

\* plot_algorithm_comparison.py: response time, throughput, improvement.
AlgorithmComparison ==
    ClosedChart("cmp_rt", "algorithm_response_time.png") \o
    ClosedChart("cmp_tp", "algorithm_throughput.png") \o
    ClosedChart("cmp_imp", "algorithm_improvement_comparison.png")

\* plot_algorithm_comparison_updated.py: the same three charts, sorted and
\* normalised to PROPOSED, under *_updated.png names.
AlgorithmComparisonUpdated ==
    ClosedChart("upd_rt", "algorithm_response_time_updated.png") \o
    ClosedChart("upd_tp", "algorithm_throughput_updated.png") \o
    ClosedChart("upd_imp", "algorithm_improvement_comparison_updated.png")

\* plot_clean_graphs.py: restyled response time and throughput charts,
\* saved under the names plot_algorithm_comparison.py also writes.
CleanGraphs ==
    ClosedChart("clean_rt", "algorithm_response_time.png") \o
    ClosedChart("clean_tp", "algorithm_throughput.png")

\* plot_lb_clean.py: one chart, never closed.
LbClean == OpenChart("lbc_rt", "lb_failure_response_time.png")

\* plot_lb_failure.py: response time bars and overhead-vs-queue line.
LbFailure ==
    ClosedChart("lbf_rt", "lb_failure_response_time.png") \o
    ClosedChart("lbf_oh", "lb_failure_overhead_vs_queue.png")

\* plot_retry_graphs.py: response time bars and overhead-vs-rate line.
RetryGraphs ==
    ClosedChart("rg_rt", "retry_response_time.png") \o
    ClosedChart("rg_oh", "retry_overhead_percentage.png")

\* plot_retry_overhead.py: one plt.subplots figure whose two axes are drawn
\* in turn, saved once, never closed.
RetryOverhead ==
    <<FigStep, DrawStep("ro_ax1"), DrawStep("ro_ax2"),
      SaveStep("retry_overhead_analysis.png")>>

\* plot_scalability.py: two charts; the first is never closed before the
\* second plt.figure().
Scalability ==
    OpenChart("sc_rt", "scalability_response_time.png") \o
    OpenChart("sc_tp", "scalability_throughput.png")

\* The scripts by name (their file names under src/ without ".py").
AllProgs ==
    ("plot_algorithm_comparison" :> AlgorithmComparison) @@
    ("plot_algorithm_comparison_updated" :> AlgorithmComparisonUpdated) @@
    ("plot_clean_graphs" :> CleanGraphs) @@
    ("plot_lb_clean" :> LbClean) @@
    ("plot_lb_failure" :> LbFailure) @@
    ("plot_retry_graphs" :> RetryGraphs) @@
    ("plot_retry_overhead" :> RetryOverhead) @@
    ("plot_scalability" :> Scalability)

AllScripts == DOMAIN AllProgs

\* A chart block of the source: the file it writes and what it draws.
Block(f, a) == [file |-> f, art |-> a]

\* The chart blocks of each script, in source order.
AllRenders ==
    ("plot_algorithm_comparison" :>
        <<Block("algorithm_response_time.png", {"cmp_rt"}),
          Block("algorithm_throughput.png", {"cmp_tp"}),
          Block("algorithm_improvement_comparison.png", {"cmp_imp"})>>) @@
    ("plot_algorithm_comparison_updated" :>
        <<Block("algorithm_response_time_updated.png", {"upd_rt"}),
          Block("algorithm_throughput_updated.png", {"upd_tp"}),
          Block("algorithm_improvement_comparison_updated.png", {"upd_imp"})>>) @@
    ("plot_clean_graphs" :>
        <<Block("algorithm_response_time.png", {"clean_rt"}),
          Block("algorithm_throughput.png", {"clean_tp"})>>) @@
    ("plot_lb_clean" :>
        <<Block("lb_failure_response_time.png", {"lbc_rt"})>>) @@
    ("plot_lb_failure" :>
        <<Block("lb_failure_response_time.png", {"lbf_rt"}),
          Block("lb_failure_overhead_vs_queue.png", {"lbf_oh"})>>) @@
    ("plot_retry_graphs" :>
        <<Block("retry_response_time.png", {"rg_rt"}),
          Block("retry_overhead_percentage.png", {"rg_oh"})>>) @@
    ("plot_retry_overhead" :>
        <<Block("retry_overhead_analysis.png", {"ro_ax1", "ro_ax2"})>>) @@
    ("plot_scalability" :>
        <<Block("scalability_response_time.png", {"sc_rt"}),
          Block("scalability_throughput.png", {"sc_tp"})>>)

\* The arguments of the steps of kind op: the artists ("draw") or the
\* output files ("save") the programs name.
ProgArgs(op) ==
    UNION {{AllProgs[s][i].arg :
              i \in {i \in DOMAIN AllProgs[s] : AllProgs[s][i].op = op}} :
           s \in AllScripts}

\* Every script of src/ that calls plt.close() starts its next chart right
\* after it (plot_algorithm_comparison*.py, plot_clean_graphs.py,
\* plot_lb_failure.py, plot_retry_graphs.py) or ends.
ASSUME ScriptsScoped == ChartsScoped(AllProgs)

\* Each script saves every chart it draws, before moving on, to a name of
\* its own.
ASSUME ScriptsSaveCharts == ChartsSaved(AllProgs) /\ SavesDistinct(AllProgs)

\* The programs above and the chart blocks of AllRenders, written each from
\* the source on its own, agree chart for chart.
ASSUME ScriptsRender == RendersMatch
=============================================================================
