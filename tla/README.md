# Formal models of the DS_project plotting scripts

The repository is eight standalone Python scripts, `src/plot_*.py`. Each one
hardcodes a few measurements, draws one or more charts with
`matplotlib.pyplot` and writes them as PNG files to the working directory.
No script reads input or calls another script. Two things are shared:

* **Inside one process: pyplot's global figure manager.** This is the
  ordered table of open figures. Its last entry is the *current* figure,
  which every `plt.bar`, `plt.text`, `plt.savefig` and `plt.close` addresses.
  `plt.figure()` appends a figure numbered one more than the largest open
  number. A drawing call when no figure is open makes one (`gcf()`).
  `plt.close()` removes the current figure, and the previous one becomes
  current again.
* **Across processes: the output files.** They outlive each run. Several
  scripts write the same names. The user runs the scripts one at a time in
  any order. A `savefig` that fails (for example an unwritable directory or a
  full disk) raises an error that nothing catches. The process then dies, and
  the file is either untouched or truncated.

Beyond this control, the scripts compute a few derived values that the charts
print: unit-scaled value labels, overhead colour buckets and a least-squares
trend line. Each of these is modelled by what the code computes.

## Modules

| module | models | source |
|---|---|---|
| `ChartPrograms` | the script text seen two ways: `Prog`, programs of pyplot steps, and `Renders`, the chart blocks in source order; `Drawn`, the chart a savefig is meant to write; `RendersMatch`, that the two agree; the programs' disciplines `ChartsScoped`, `ChartsSaved`, `SavesDistinct` | all scripts |
| `RenderCalls` | the design of spec section 9: a run makes its scripts' render calls in order, each writing one file with its own chart; a failure aborts the run and at worst truncates that file | all scripts |
| `Pyplot` | figure manager and output files, running the programs; refines `RenderCalls` | all scripts |
| `Scripts` | the eight programs (figure/draw/save/close steps and file names) and, written separately from the chart blocks, `AllRenders` | all scripts |
| `MC_Pyplot` | instantiates `Pyplot` with `Scripts` for TLC | - |
| `PyplotProofs` | TLAPS proofs of type correctness and `NoBleed` | - |
| `RendersProofs` | TLAPS proof of the refinement of `RenderCalls` | - |
| `WorkSavedProofs` | TLAPS proof of `WorkSaved` | - |
| `RTLabelsProofs` | TLAPS proof of `LabelAccurate` | - |
| `RankingProofs` | TLAPS proof of `LegendMatchesBars` | - |
| `Ranking` | `np.argsort`, the rank colours, the legend and the two callouts of graph 1 | `plot_algorithm_comparison_updated.py` 5-16, 22-23, 47-61 |
| `PyFormat` | `f'{x:.Nf}'` on scaled integers (`RoundDiv`) | the label f-strings |
| `RTLabels`, `MC_RTLabels` | the K/M value-label loop of the response-time charts | `plot_algorithm_comparison.py` 19-31, `plot_algorithm_comparison_updated.py` 26-31, `plot_clean_graphs.py` 17-23 |
| `OverheadBuckets` | `rt_vs_proposed` and the bar-colour chain of graph 3 | `plot_algorithm_comparison_updated.py` 5-6, 103-123 |
| `TrendLine` | `np.polyfit(..., 1)` in closed form and its legend label | `plot_retry_overhead.py` 7-9, 57-61 |

### Pyplot: state and actions

| variable | meaning |
|---|---|
| `running` | the script whose process is alive, or `None` |
| `pc` | index of the program's next step |
| `stack` | the numbers of the open figures, in activation order (the last is current) |
| `canvas` | `canvas[n]`: the artists drawn on figure `n` |
| `files` | `files[f]`: `Absent`, `Corrupt`, or the chart `[by, art]` last saved to `f` |
| `runs` | the number of script runs so far (bounded by `MaxRuns`) |

| action | code |
|---|---|
| `Start(s)` | `python plot_x.py`: a fresh interpreter with no figures |
| `Figure` | `plt.figure(...)` / `plt.subplots(...)`: append `NewNum` and make it current |
| `Draw` | the drawing calls of one chart (`plt.bar`, `plt.text`, `ax.*`), through `gcf()` (`WithCurrentFigure`) |
| `Save` | `plt.savefig(f)`: write the current figure's artists and the writer to `f` |
| `SaveFail` | `plt.savefig(f)` raises: `f` is unchanged or `Corrupt`, and the process ends |
| `Close` | `plt.close()`: pop the current figure |
| `Exit` | the last statement has run, and the figures vanish with the process |

A drawing call is reduced to the artist it adds. Each chart has one artist
id, or one per axes for `plt.subplots`. Titles, colours, fonts and
`print()` calls do not change which figure a call reaches, so they are left
out.

## Runs

| run | cfg | expect | what it shows |
|---|---|---|---|
| `pyplot_core` | `MC_Pyplot.cfg` | pass | `RendersInOrder`: `RenderCalls!Spec` holds under the mapping `caller <- running`, `done <- SavesDone` (the savefigs the run has completed), `files <- files`, so every run writes its chart blocks' files in source order, each with exactly the block's artists, and a failed savefig leaves at most that file truncated and the later ones untouched; `NoBleed`: over any 3 runs of the 8 scripts, in any order and with any `savefig` failing, every complete output file holds exactly the artists its writer drew for that `savefig` since that chart's `plt.figure()`; and `WorkSaved`: no `plt.close()` or normal exit discards a figure whose drawing no file of the run holds (30,211 states) |
| `scoped_lifetime` | `MC_Pyplot_ScopedFigureLifetime.cfg` | violation | `plot_scalability.py:30` opens a second figure with the first still open, against spec section 5 |
| `rt_labels` | `MC_RTLabels.cfg` | pass | `LabelAccurate`: each K/M label reads back to within half a unit of its last digit, for both label formats and for every pair of 13 values chosen around 1,000 s, 999,500 s, 999,950 s and 1,000,000 s, and at ties |
| `rt_label_unit` | `MC_RTLabels_Unit.cfg` | violation | `UnitMatchesMagnitude`: 999,950 s is printed as `1000.0K s` (the unit is chosen before rounding) |
| `overhead_colors` | `OverheadBuckets.cfg` | violation | `ColorsMatchComments`: RR is 1044% over PROPOSED, so it is coloured Poor, while the comment at line 121 says Moderate |
| `ranking` | `Ranking.cfg` | pass | `LegendMatchesBars`: for all 120 listing orders of the data, the sorted bars read best to worst and the legend's colours sit on PROPOSED, SBDLB and WRR |
| `ranking_callouts` | `Ranking_Callouts.cfg` | violation | `CalloutsTrue`: the hardcoded "43.0% faster than SBDLB" and "70.6x slower than PROPOSED" are 42.9% and 70.5x to one decimal |
| `trend_label_sign` | `TrendLine_Sign.cfg` | violation | `InterceptSignWellFormed`: the legend reads `y=2.8x+-0.2` |

**Bounds.**
* `MaxRuns = 3` covers every two-script collision, followed by a re-run or
  a third script.
* `MaxFigs = 3` exceeds the two figures the scripts ever hold open.
* A `Figure` beyond `MaxFigs` is disabled rather than wrapped, so the bound
  cannot hide a bleed.
* The violation runs of `Pyplot` use `MaxRuns = 2`, which is enough for the
  shortest counterexample.

`RTLabels` uses whole seconds. The hundredths the scripts carry never reach
the first printed digit of a K or M label, and they would overflow TLC's
32-bit integers. When a value lies exactly halfway, `RoundDiv` lets either
neighbour be printed: which one Python prints depends on the binary double.

**Deadlock.** Deadlock checking is off in every cfg. A batch ends once
`MaxRuns` scripts have run. The label, bucket and trend models each compute
a fixed sequence and stop.

**Mutants.** Each property of a passing run is broken by a plausible bug:
* `NoBleed` by `FigureFixedNum`. This is `plt.figure(1)`, which reactivates
  an open figure 1 with its drawings still on it. `plot_scalability`'s
  second chart then saves the first chart's bars too.
* `RendersInOrder` also by `FigureFixedNum`: the second render call of
  `plot_scalability` writes artists its block does not draw.
* `LabelAccurate` by `CmpLabelTenfold`. This K branch divides by 10,000.
* `LegendMatchesBars` by `ArgSortDesc`, a descending sort.
* `WorkSaved` by `SaveFirstFigure`, a savefig through a stale handle to the
  first figure still open: `plot_scalability`'s second chart is then never
  saved and vanishes at exit.

## Fairness and liveness

No fairness is assumed and no liveness property is checked. Every script is
straight-line code with no loop waiting on anything, so that a started run
ends says nothing about this code. Which script the user runs next, if any,
is not the program's choice either.

## Why `RendersInOrder` checks more than `NoBleed`

`NoBleed` compares each file with `Drawn`, the artists the program drew
since its last `plt.figure()`. A script that forgot a `plt.figure()` between
two charts still satisfies it: the second file holds both charts' artists,
and that is exactly what was drawn since the last `plt.figure()`.
`RendersInOrder` compares the files with `Renders`, the chart blocks
written from the source on their own, so the second file no longer matches
its block. `Scripts` also asserts `ScriptsRender == RendersMatch`, that the
programs' k-th savefig writes the k-th block's file with that block's
artists. TLC checks it on every `MC_Pyplot` run, so a program that drifts
from its chart blocks is refused before any state is explored.
`RendersInOrder` also covers a failed savefig (spec section 7): the run
stops at that call, the charts already written stay, and the files of later
blocks keep what older runs wrote.

## What is proved (TLAPS)

The figure-manager theorems (`PyplotProofs`, `WorkSavedProofs`,
`RendersProofs`) hold for every value of the constants under the modules'
assumptions:
* `ProgAssumption`: programs are sequences of steps.
* `RendersAssumption`: each script's chart blocks are a sequence of
  `[file, art]` records.
* `BoundsAssumption`: `MaxFigs >= 1`.
* `SentinelAssumption`: the sentinels are distinct from scripts and charts.

The theorems are:

* `TypeCorrect`: `Spec => []TypeOK`. It is proved by one step per action
  (`TypeStep`), on top of lemmas about `Append`/`Front`/`Last` on
  `Seq(FigNum)`.
* `NoBleedHolds`: assuming `ChartsScoped(Prog)`, `Spec => []NoBleed`.
  `ChartsScoped` says that every `plt.close()` is followed at once by a
  `plt.figure()` or by the end of the script. `Scripts` asserts it for the
  real programs as `ASSUME ScriptsScoped`, which TLC checks on every
  `MC_Pyplot` run.

* `RendersImplemented` (`RendersProofs`): assuming `ChartsScoped(Prog)` and
  `RendersMatch`, `Spec => RendersInOrder`. This is the refinement
  `Calls == INSTANCE RenderCalls` with `caller <- running`,
  `done <- SavesDone`, `files <- files`.
  * `Init` maps to `Calls!Init`, and `Start(s)` to `Calls!Call(s)`:
    `SavesDone` is 0 when no savefig has run (`SavesAtStart`).
  * `Figure`, `Draw` and `Close` are stutters: they leave `files` alone and
    do not change the count of completed savefigs (`SavesStep`).
  * A `Save` is a `Calls!Render`. `SavesStep` adds one to the count,
    `SavesBelowTotal` shows a block is left to render, lemma
    `SaveWritesDrawn` says the file gets `Drawn(running, pc)`, and
    `RendersMatch` says that is the next block's file and artists.
  * A `SaveFail` is a `Calls!Fail`, and `Exit` a `Calls!Return`: at the end
    the count equals the number of blocks, by `RendersMatch`.
  * The invariant used is `IInv` (lemma `IInvHolds`), for `CanvasInv`.
  * The counting lemmas use `FS_AddElement`, `FS_Subset` and `FS_Interval`
    of `FiniteSetTheorems` on `SaveIdx`, the savefig steps before a step.
* `WorkSavedHolds` (`WorkSavedProofs`): assuming `ChartsScoped`,
  `ChartsSaved` and `SavesDistinct` of `Prog`, `Spec => WorkSaved`, an
  action property.
  * `ChartsSaved`: at every `plt.figure()`, `plt.close()` and at the end of
    the program, the chart drawn since the last `plt.figure()` is empty or
    equals what an earlier `savefig` of the program wrote.
  * `SavesDistinct`: no program saves a name twice.
  * `Scripts` asserts both for the real programs as `ASSUME
    ScriptsSaveCharts`, which TLC checks on every `MC_Pyplot` run.
  * The invariant is `WInv == IInv /\ HeldInv /\ BelowInv`. `HeldInv`: every
    savefig of the running script so far still holds, in its file, what it
    wrote. It needs `SavesDistinct`, since a second save of a name would
    replace it. `BelowInv`: every open figure except the current one (all of
    them, just after a close) is empty or holds a chart the run has saved.
    A figure enters that set only when `plt.figure()` covers it, and then
    `ChartsSaved` and `CanvasInv` give it.
  * Lemma `DiscardStep` shows that only `Close` and `Exit` remove figures
    from the stack, and each removed figure is kept. `TopKept` covers the
    current one and `HeldFile` turns "saved by the run" into a file.
* `LegendHolds` (`RankingProofs`): `Spec => []LegendMatchesBars`, for every
  listing order of the data.
  * The inductive invariant `RInv` says that the listing stays a
    permutation. Once sorted, `sorted_indices` is an argsort of it, and once
    drawn, the bars are `BarsOf(sorted_indices)`.
  * Lemma `SortedIsFastestFirst`: an argsort of a permutation names every
    algorithm once in strictly ascending response time. It rests on two
    pigeonhole lemmas (`ListingOnto`, `ArgSortOnto`) and on
    `ArgSortMonotone`, which chains the neighbour comparisons.
  * Lemma `FastestFirstIsRanked`: the data has one such order,
    `<<PROPOSED, SBDLB, HBF, RR, WRR>>`, which fixes every bar's colour.
* `LabelsAccurate` (`RTLabelsProofs`): `Spec => []LabelAccurate` for every
  `N` and every set of non-negative times.
  * Lemma `RoundDivNear` shows that each integer `f'{n/d:.0f}'` may print
    is within `d/2` of `n`. Its cases are below, above and at the tie.
  * Lemma `LabelNear` applies it to the three formats, with `Ulp` 10,000,
    100 and 1,000 s.
  * The inductive invariant `LInv` adds `TypeOK` and
    `Len(labels) = k - 1`.

`NoBleed` is not inductive on its own. `Save` writes the *current canvas*,
so the invariant has to know what that canvas holds. The inductive invariant
`IInv` adds the following conjuncts:

* `IdleInv`: no figures while no script runs.
* `PcInv`: `pc` stays within the program.
* `CanvasInv`: unless the previous step was a close, the current figure
  holds exactly `Drawn(running, pc)`, the artists the program drew since its
  last `plt.figure()`.

`CanvasInv` is the heart of the argument, and `ChartsScoped` is what keeps
it true across `plt.close()`. After a close, the next step is a `Figure`,
which resets the canvas, so the figure revealed by the close is never drawn
on or saved. Lemma `DrawnStep` gives `Drawn` after each kind of step, and
`NoStepAfterClose` gives the step after a close. `IInv` was model-checked as
an invariant before it was proved.

## Only model-checked

These stay with TLC:
* The violation runs.
* `TrendLine`'s sums use a recursive function, which TLAPS cannot handle.

## Not modelled

* Layout, colours, fonts, dpi, `tight_layout` and rendering: these do not
  change which chart reaches which file.
* The idempotence of a render (spec section 8). It is a property of the
  renderer, not of these scripts.
* The hardcoded annotation texts outside graph 1 of the updated comparison
  were checked by hand against the data, and they agree:
  * 91.3% and 84.7% in `plot_algorithm_comparison.py`;
  * 91.3% and 0.000117 in `plot_clean_graphs.py`;
  * +10.42% and `overhead_pct` in `plot_lb_failure.py`;
  * `impact_pct` and `retry_rates` in the retry scripts.

  They are constants compared with constants, with no control to model.
* Graph 2's colours (`colors_tp_orig`, line 72) and graph 3's
  "WRR: 70x slower!" at `x=1` (line 155) are tied to the listing order.
  They are right for the order the script ships with, and the data is
  hardcoded, so no run of the code reaches another order.
* `print()` output.
* The length-mismatch precondition of spec section 4. Every script's arrays
  have equal lengths, so no run of the code reaches it.
