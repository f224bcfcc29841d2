---------------------------- MODULE ReportCharts ----------------------------
(***************************************************************************)
(* The charts of a report (utils/report_charts.py), as far as the report   *)
(* uses them, for an agent whose conversations come in day by day: the     *)
(* volume per day, of all and per channel, the hours, and the office hours *)
(* as pies and as bars per channel; and the texts beside them              *)
(* (utils/report_data.py).  A chart is what its marks stand for and where  *)
(* they are: x in thousandths of a pixel, heights on the square root scale *)
(* in pixels, shares of a whole as parts of it.  A text is the figures and *)
(* names it gives.  Where the code takes the first of several largest      *)
(* counts in the order the database returned the rows, any of them is      *)
(* possible.  A report of one day shows the days that the dashboard of     *)
(* Momants answers, if it answers any, with the numbers of conversations   *)
(* it gives; the channels and the hours stay those of the database.        *)
(* Colours, fonts and wording are left out.                                *)
(***************************************************************************)
EXTENDS Builtins, Functions

CONSTANTS
  Patterns,   \* weeks that repeat: sequences of days, a day is [channel -> [hour -> count]]
  Hours,      \* the hours that occur in them
  BucketAt,   \* BucketAt[d][h] : the time bucket of hour h on day d of the pattern
  Dashboards, \* answers of the dashboard: the count of each of its days (none when it
              \* fails), and the place of the only day of the report among them, or 0
  MaxDays     \* bound: days

VARIABLES
  pattern,
  volume,     \* volume[ch] : the conversations of each day
  hours,      \* hours[ch][h] : conversations that began in hour h
  buckets,    \* buckets[ch][b] : conversations of each time bucket
  dashboard   \* what the dashboard answers for the report of these days

chartVars == <<pattern, volume, hours, buckets, dashboard>>

ChannelOrder == <<"whatsapp", "chat", "instagram">>
TimeBucketOrder == <<"kantooruren", "na_kantooruren", "nacht", "weekend">>
ChartChannels == Range(ChannelOrder)
ChartBuckets == Range(TimeBucketOrder)

\* The days of a report are those on which there was a conversation.
ChartsConstants ==
  /\ Hours \subseteq 0..23 /\ MaxDays \in Nat
  /\ Patterns \subseteq Seq([ChartChannels -> [Hours -> Nat]])
  /\ \A week \in Patterns :
       /\ week # <<>> /\ \A d \in DOMAIN week : \E ch \in ChartChannels : SumOf(week[d][ch]) > 0
       /\ \A d \in DOMAIN week, h \in Hours : BucketAt[d][h] \in ChartBuckets
  /\ Dashboards \subseteq [counts : Seq(Nat), place : Nat]
  /\ \A answer \in Dashboards : answer.place \in 0..Len(answer.counts)

Largest(f) == Max(Range(f) \cup {0})
Clamp(value, low, high) == Max({low, Min({high, value})})
Days == Len(volume["chat"])

\* The indices at which a count is the largest.
Peaks(counts) == {i \in DOMAIN counts : counts[i] = Largest(counts)}

ChartsInit ==
  /\ pattern \in Patterns
  /\ volume = [ch \in ChartChannels |-> <<>>]
  /\ hours = [ch \in ChartChannels |-> [h \in Hours |-> 0]]
  /\ buckets = [ch \in ChartChannels |-> [b \in ChartBuckets |-> 0]]
  /\ dashboard \in Dashboards

\* The conversations of one more day.
AddDay ==
  LET place == (Days % Len(pattern)) + 1
      day == pattern[place]
  IN  /\ Days < MaxDays
      /\ volume' = [ch \in ChartChannels |-> Append(volume[ch], SumOf(day[ch]))]
      /\ hours' = [ch \in ChartChannels |-> [h \in Hours |-> hours[ch][h] + day[ch][h]]]
      /\ buckets' = [ch \in ChartChannels |-> [b \in ChartBuckets |->
           buckets[ch][b] + SumOf([h \in {h \in Hours : BucketAt[place][h] = b} |-> day[ch][h]])]]
      /\ dashboard' \in Dashboards
      /\ UNCHANGED pattern

ChartsSpec == ChartsInit /\ [][AddDay]_chartVars
-----------------------------------------------------------------------------
(* Volume *)

LocalCounts == [d \in 1..Days |-> SumOf([ch \in ChartChannels |-> volume[ch][d]])]

\* apply_momants_stats_fallback: fewer than two days are not enough for a chart.
FromDashboard == Days = 1 /\ dashboard.counts # <<>>

CountsByDay == IF FromDashboard THEN dashboard.counts ELSE LocalCounts
AllDays == Len(CountsByDay)

\* align_daily_counts: what a channel has on each of the days shown.
Aligned(ch) == IF FromDashboard
               THEN [d \in 1..AllDays |-> IF d = dashboard.place THEN volume[ch][1] ELSE 0]
               ELSE volume[ch]

ChannelCount(ch) == SumOf(volume[ch])
ActiveChannels == Keep(ChannelOrder, {i \in DOMAIN ChannelOrder : ChannelCount(ChannelOrder[i]) > 0})

PlotX(i, n, left, right) ==
  IF n <= 1 THEN 500 * (left + right) ELSE 1000 * left + (1000 * i * (right - left)) \div (n - 1)

\* _select_x_label_indices for seven labels, 56 pixels apart: every so many days
\* and the last one, which takes the place of a label that is too close to it.
SelectLabels(n, left, right) ==
  LET X(i) == PlotX(i, n, left, right)
      Apart(i, j) == X(j) - X(i) >= 56000
      step == Max({1, (n - 1) \div 6})
      places == InOrder({i \in 0..(n - 1) : i % step = 0 \/ i = n - 1})
      filtered[p \in DOMAIN places] ==
        IF p = 1 THEN <<0>>
        ELSE IF Apart(Last(filtered[p - 1]), places[p]) THEN Append(filtered[p - 1], places[p])
        ELSE filtered[p - 1]
      kept == filtered[Len(places)]
      k == Len(kept)
  IN  IF kept[k] = n - 1 THEN kept
      ELSE IF Apart(kept[k], n - 1) THEN Append(kept, n - 1)
      ELSE IF k >= 2 /\ Apart(kept[k - 1], n - 1) THEN [kept EXCEPT ![k] = n - 1]
      ELSE kept

\* The height of a value on the square root scale, to the pixel.
Height(value, top, full) ==
  IF value <= 0 THEN 0
  ELSE CHOOSE r \in 0..full :
         /\ 4 * full * full * value < (2 * r + 1) * (2 * r + 1) * top
         /\ r > 0 => (2 * r - 1) * (2 * r - 1) * top <= 4 * full * full * value

\* _nice_ticks: quarters of the largest value.
NiceTicks(top) ==
  LET step == Max({1, RoundDiv(top, 4)})
  IN  Append([k \in 1..((top + step - 1) \div step) |-> (k - 1) * step], top)

\* Mutant: ticks at the same height are drawn over each other.
TicksAll(top, full) == NiceTicks(top)

\* Of ticks at the same height the first is drawn.
Ticks(top, full) ==
  LET ticks == NiceTicks(top)
      Hidden(t) == \E s \in Range(ticks) : s < t /\ Height(s, top, full) = Height(t, top, full)
  IN  Keep(ticks, {k \in DOMAIN ticks : ~Hidden(ticks[k])})

BadgeX(x, width, left, right) == Clamp(x - 500 * width, 1000 * left, 1000 * (right - width))

\* A badge of 17 pixels on day d, gap above the curve, or at the top with a line
\* to it.
Badge(counts, d, gap, top, left, right, plotBottom, full) ==
  LET room == plotBottom - 4 - 17 - gap
  IN  [day |-> d,
       x |-> BadgeX(PlotX(d - 1, Len(counts), left, right), 88, left, right),
       above |-> room >= 0 /\ counts[d] * full * full <= room * room * top]

\* daily_volume_chart_svg, with the peak the caller names.
VolumeChart(counts, peak) ==
  LET top == Max({1, Largest(counts)})
  IN  [points |-> [d \in DOMAIN counts |-> [x |-> PlotX(d - 1, Len(counts), 56, 1260),
                                            height |-> Height(counts[d], top, 248)]],
       ticks |-> Ticks(top, 248),
       labels |-> SelectLabels(Len(counts), 56, 1260),
       badge |-> Badge(counts, peak, 10, top, 56, 1260, 300, 248)]

\* multi_channel_daily_volume_chart_svg: one scale for all channels, those with
\* the larger peaks drawn over the others; a channel without conversations on the
\* days shown has no badge.
ChannelChart ==
  LET active == ActiveChannels
      top == Max({1} \cup {Largest(Aligned(ch)) : ch \in Range(active)})
      peak == [k \in DOMAIN active |-> Largest(Aligned(active[k]))]
      places == Ordered(DOMAIN active, {x \in (DOMAIN active) \X (DOMAIN active) :
                  peak[x[1]] < peak[x[2]] \/ (peak[x[1]] = peak[x[2]] /\ x[1] < x[2])})
      order == [k \in DOMAIN places |-> active[places[k]]]
  IN  [series |-> [k \in DOMAIN order |->
         [channel |-> order[k],
          points |-> [d \in 1..AllDays |-> [x |-> PlotX(d - 1, AllDays, 56, 1264),
                                            height |-> Height(Aligned(order[k])[d], top, 356)]],
          marked |-> Largest(Aligned(order[k])) > 0,
          badge |-> Badge(Aligned(order[k]), Min(Peaks(Aligned(order[k]))), 10 + 22 * (k - 1), top,
                          56, 1264, 390, 356)]],
       ticks |-> Ticks(top, 356),
       labels |-> SelectLabels(AllDays, 56, 1264)]

\* The legend above it.
ChannelLegend == [k \in DOMAIN ActiveChannels |-> [channel |-> ActiveChannels[k],
                                                   total |-> ChannelCount(ActiveChannels[k])]]
-----------------------------------------------------------------------------
(* Hours *)

HourCount(h) == IF h \in Hours THEN SumOf([ch \in ChartChannels |-> hours[ch][h]]) ELSE 0

\* hourly_conversation_averages, in tenths.
AverageOfHour(h) == RoundDiv(10 * HourCount(h), Days)

\* The peak of the averages, which need not be the hour with the largest count.
PeakHours == LET begun == {h \in Hours : HourCount(h) > 0}
             IN  {h \in begun : \A g \in begun : AverageOfHour(g) <= AverageOfHour(h)}

\* hourly_bars_chart_svg: shade 0 is the peak, an hour without conversations has
\* a bar of three pixels.  Heights are parts of top.
HourBars(peak) ==
  LET top == Max({1} \cup {HourCount(h) : h \in Hours})
  IN  [h \in 0..23 |->
         LET count == HourCount(h)
         IN  [count |-> count,
              height |-> IF count > 0 THEN 224 * count ELSE 3 * top,
              shade |-> IF h = peak /\ count > 0 THEN 0
                        ELSE IF 10 * count >= 6 * top THEN 1
                        ELSE IF 10 * count >= 3 * top THEN 2
                        ELSE 3]]
-----------------------------------------------------------------------------
(* Office hours *)

TotalBuckets == [b \in ChartBuckets |-> SumOf([ch \in ChartChannels |-> buckets[ch][b]])]

Percent(part, whole) == RoundDiv(1000 * part, whole)

\* One part for each key that occurs, one after the other, and whether it has a text.
PartsOf(counts, order, labelled) ==
  LET present == Keep(order, {k \in DOMAIN order : counts[order[k]] > 0})
      Before(k) == SumOf([j \in 1..(k - 1) |-> counts[present[j]]])
  IN  [k \in DOMAIN present |->
         [key |-> present[k], from |-> Before(k), to |-> Before(k) + counts[present[k]],
          percent |-> Percent(counts[present[k]], SumOf(counts)), labelled |-> present[k] \in labelled]]

\* _render_stacked_bar in the panel of a channel: 1232 pixels for the whole.
ChannelBar(counts) ==
  LET total == SumOf(counts)
  IN  PartsOf(counts, TimeBucketOrder,
              {b \in ChartBuckets : /\ total > 0 /\ Percent(counts[b], total) >= 70
                                     /\ 1232 * counts[b] >= 42 * total})

\* _render_pie_column without a legend: small slices have no text.
PieColumn(counts, order) ==
  PartsOf(counts, order, {b \in DOMAIN counts : 360 * counts[b] >= 22 * SumOf(counts)})

\* office_hours_pie_chart_svg: every slice is in the legend.
PieChart(counts) == PartsOf(counts, TimeBucketOrder, ChartBuckets)

OfficeSummary(counts) ==
  [kantooruren |-> counts["kantooruren"],
   buiten_kantooruren |-> SumOf(counts) - counts["kantooruren"]]

Outside(counts) ==
  [b \in {b \in ChartBuckets \ {"kantooruren"} : counts[b] > 0} |-> counts[b]]

\* What the pie reads of them.
OutsideOrZero(outside) ==
  [b \in ChartBuckets \ {"kantooruren"} |-> IF b \in DOMAIN outside THEN outside[b] ELSE 0]

\* office_hours_dual_pie_svg: the second pie divides what the first one calls
\* outside office hours, when there is any.
DualPie(counts) ==
  [main |-> PieColumn(OfficeSummary(counts), <<"buiten_kantooruren", "kantooruren">>),
   detail |-> PieColumn(OutsideOrZero(Outside(counts)), Tail(TimeBucketOrder))]

\* build_office_hours_channel_slides_html: a panel for each channel.
ChannelPanels ==
  [k \in DOMAIN ActiveChannels |-> [count |-> ChannelCount(ActiveChannels[k]),
                                    bar |-> ChannelBar(buckets[ActiveChannels[k]])]]
-----------------------------------------------------------------------------
(* The texts beside the charts *)

FirstBest(n) == LET best == {k \in DOMAIN ActiveChannels : \A j \in DOMAIN ActiveChannels :
                               n[ActiveChannels[j]] <= n[ActiveChannels[k]]}
                IN  ActiveChannels[Min(best)]

TotalVolume == SumOf(LocalCounts)
RoundedPercent(part, whole) == RoundDiv(100 * part, whole)

\* build_channel_volume_insight, from the peak day it finds for each channel: one
\* day for all of them, if there are several, and the channel with the largest peak.
VolumeInsight(peakDay) ==
  LET days == Range(peakDay)
      top == FirstBest([ch \in ChartChannels |-> Largest(volume[ch])])
  IN  [shared |-> Cardinality(days) = 1 /\ Len(ActiveChannels) > 1, days |-> days,
       top |-> top, count |-> Largest(volume[top])]

AtPeak(peak) == [ch \in ChartChannels |-> hours[ch][peak]]

\* build_channel_timing_insight; its last percentage is that of the channel with
\* most conversations in the peak hour, whichever channel is dominant.
TimingInsight(peak, dominant) ==
  LET top == FirstBest(AtPeak(peak))
  IN  [average |-> AverageOfHour(peak), top |-> top, topCount |-> AtPeak(peak)[top],
       topPercent |-> RoundedPercent(AtPeak(peak)[top], SumOf(AtPeak(peak))),
       dominant |-> dominant, dominantPercent |-> RoundedPercent(ChannelCount(top), TotalVolume)]

\* build_channel_timing_channel_panel_stats_html: per day shown.
ChannelStats ==
  LET dominant == FirstBest([ch \in ChartChannels |-> ChannelCount(ch)])
  IN  [dominant |-> dominant, percent |-> RoundedPercent(ChannelCount(dominant), TotalVolume),
       average |-> RoundDiv(10 * TotalVolume, AllDays),
       averages |-> [ch \in Range(ActiveChannels) |-> RoundDiv(10 * ChannelCount(ch), AllDays)]]

\* build_channel_timing_hourly_panel_stats_html
HourStats(peak) ==
  LET top == FirstBest(AtPeak(peak))
  IN  [hour |-> peak, average |-> AverageOfHour(peak), top |-> top,
       percent |-> RoundedPercent(AtPeak(peak)[top], SumOf(AtPeak(peak)))]

OutsideOf(counts) == OfficeSummary(counts).buiten_kantooruren

\* pct_outside_office
PctOutside(counts) == Percent(OutsideOf(counts), SumOf(counts))

\* build_bereikbaarheid_insight, with the channel it finds to have the most
\* conversations outside office hours.
OfficeInsight(top) ==
  [outside |-> PctOutside(TotalBuckets),
   detail |-> [b \in DOMAIN Outside(TotalBuckets) |->
                 RoundedPercent(TotalBuckets[b], OutsideOf(TotalBuckets))],
   top |-> top, count |-> OutsideOf(buckets[top]),
   percent |-> RoundedPercent(OutsideOf(buckets[top]), ChannelCount(top))]
-----------------------------------------------------------------------------
(* Properties *)

ChartsTypeOK ==
  /\ pattern \in Patterns /\ Days \in 0..MaxDays
  /\ \A ch \in ChartChannels : \A d \in 1..Days : volume[ch][d] \in Nat
  /\ hours \in [ChartChannels -> [Hours -> Nat]] /\ buckets \in [ChartChannels -> [ChartBuckets -> Nat]]
  /\ dashboard \in Dashboards

\* The labels of the days are in order, never closer than asked for, from the
\* first day to the last, and fewer than twice as many as asked for.
LabelsReadable(labels, left, right) ==
  /\ labels[1] = 0 /\ Last(labels) = AllDays - 1
  /\ \A k \in 1..(Len(labels) - 1) :
       PlotX(labels[k + 1], AllDays, left, right) - PlotX(labels[k], AllDays, left, right) >= 56000
  /\ Len(labels) < 14

\* The ticks start at zero, are drawn apart from each other in their order, and
\* reach the height of the largest value.
TicksReadable(ticks, top, full) ==
  /\ ticks[1] = 0
  /\ \A k \in 1..(Len(ticks) - 1) : Height(ticks[k], top, full) < Height(ticks[k + 1], top, full)
  /\ Height(Last(ticks), top, full) = full

\* A badge marks a day on which the curve is highest and stays inside the plot.
BadgeHonest(badge, points, right) ==
  /\ \A d \in DOMAIN points : points[d].height <= points[badge.day].height
  /\ badge.x >= 56000 /\ badge.x + 88000 <= 1000 * right
  /\ badge.x <= points[badge.day].x /\ points[badge.day].x <= badge.x + 88000

\* Whether the chart shows the days that the conversations are of, and where.
LocalShown == FromDashboard => dashboard.place > 0
PlaceOf(d) == IF FromDashboard THEN dashboard.place ELSE d

\* Days, scale and peaks are marked where they are.  The legend counts every
\* conversation once: with days of the database they are those of the chart of all
\* channels, and whenever the chart shows their days those of the curves below the
\* legend, of which the one with the largest peak is drawn over the others and
\* reaches the top.
VolumeHonest ==
  LET all == VolumeChart(CountsByDay, 1)
      top == Max({1, Largest(CountsByDay)})
      split == ChannelChart
      share == Max({1} \cup {Largest(Aligned(ch)) : ch \in ChartChannels})
      legend == SumOf([k \in DOMAIN ChannelLegend |-> ChannelLegend[k].total])
  IN  /\ LabelsReadable(all.labels, 56, 1260) /\ LabelsReadable(split.labels, 56, 1264)
      /\ TicksReadable(all.ticks, top, 248) /\ TicksReadable(split.ticks, share, 356)
      /\ \A peak \in Peaks(CountsByDay) :
           BadgeHonest(Badge(CountsByDay, peak, 10, top, 56, 1260, 300, 248), all.points, 1260)
      /\ \A k \in DOMAIN split.series :
           split.series[k].marked => BadgeHonest(split.series[k].badge, split.series[k].points, 1264)
      /\ LocalShown =>
           LET drawnLast == Last(split.series)
           IN  drawnLast.marked /\ drawnLast.points[drawnLast.badge.day].height = 356
      /\ ~FromDashboard => legend = SumOf(CountsByDay)
      /\ LocalShown => legend = SumOf([ch \in ChartChannels |-> SumOf(Aligned(ch))])

\* More conversations never make an hour's bar lower or its colour lighter, except
\* for hours without any, whose bars may be the higher ones, and for a peak that only
\* the rounding of the averages made one.
HoursHonest ==
  \A peak \in PeakHours :
    LET bars == HourBars(peak)
    IN  \A g, h \in 0..23 : 0 < bars[g].count /\ bars[g].count <= bars[h].count =>
          /\ bars[g].height <= bars[h].height
          /\ bars[g].count < bars[h].count =>
               \/ bars[g].shade >= bars[h].shade
               \/ g = peak /\ 10 * (bars[h].count - bars[g].count) <= Days

\* The parts of a whole fill it without a gap; their percentages add up to a
\* hundred, as far as rounding allows; no part has a text when a larger has none.
PartsHonest(parts, whole) ==
  /\ whole > 0 => parts[1].from = 0 /\ Last(parts).to = whole
  /\ \A k \in 1..(Len(parts) - 1) : parts[k].to = parts[k + 1].from
  /\ whole > 0 =>
       LET sum == SumOf([k \in DOMAIN parts |-> parts[k].percent])
       IN  2 * (sum - 1000) <= Len(parts) /\ 2 * (1000 - sum) <= Len(parts)
  /\ \A i, j \in DOMAIN parts :
       parts[i].labelled /\ ~parts[j].labelled => parts[j].percent <= parts[i].percent

\* The two pies, the pie with a legend and the bars of the channels divide the same
\* conversations: the second pie those that the first one calls outside.
OfficeHonest ==
  LET pies == DualPie(TotalBuckets)
      outside == SumOf(TotalBuckets) - TotalBuckets["kantooruren"]
  IN  /\ PartsHonest(pies.main, SumOf(TotalBuckets)) /\ PartsHonest(pies.detail, outside)
      /\ PartsHonest(PieChart(TotalBuckets), SumOf(TotalBuckets))
      /\ \A panel \in Range(ChannelPanels) : PartsHonest(panel.bar, panel.count)
      /\ SumOf([k \in DOMAIN ChannelPanels |-> ChannelPanels[k].count]) = SumOf(TotalBuckets)

\* The volume text names a channel whose curve reaches the top of the chart; and one
\* day for all channels only if every curve is there as high as at its own badge, as
\* long as the chart shows the days that the text names.  Of the peak days the code
\* may find, those that make it do so, and the first ones.
VolumeTextAgrees ==
  LET active == Range(ActiveChannels)
      shared == {d \in 1..Days : \A ch \in active : d \in Peaks(volume[ch])}
      series == Range(ChannelChart.series)
  IN  LocalShown =>
      \A peakDay \in {[ch \in active |-> Min(Peaks(volume[ch]))]} \cup
                     {[ch \in active |-> d] : d \in shared} :
        LET text == VolumeInsight(peakDay)
        IN  /\ \E line \in series :
                 /\ line.channel = text.top
                 /\ line.points[PlaceOf(peakDay[text.top])].height = 356
            /\ text.shared => \A line \in series : \A d \in text.days :
                 line.points[PlaceOf(d)].height = line.points[line.badge.day].height

\* Both texts about the peak hour name the same channel, with at least its share
\* among the channels; the percentage given for the dominant channel is the one its
\* panel gives, if that channel also leads the peak hour; the averages of the
\* channels add up to the average of all, as far as rounding allows.
TimingTextsAgree ==
  LET n == Len(ActiveChannels)
      stats == ChannelStats
      dominants == {ch \in ChartChannels : \A other \in ChartChannels : ChannelCount(other) <= ChannelCount(ch)}
      gap == SumOf(stats.averages) - stats.average
  IN  /\ \A peak \in PeakHours, dominant \in dominants :
           LET text == TimingInsight(peak, dominant)
           IN  /\ text.top = HourStats(peak).top /\ text.topPercent = HourStats(peak).percent
               /\ 2 * n * text.topPercent + n >= 200
               /\ text.top = dominant => text.dominantPercent = stats.percent
      /\ 2 * gap <= n + 1 /\ 2 * gap >= -(n + 1)

\* The text about the office hours gives the percentage of the large pie and, rounded,
\* those of the small one; the channel it names has no fewer conversations outside
\* office hours than the panel of another channel shows.
OfficeTextAgrees ==
  LET pies == DualPie(TotalBuckets)
      active == Range(ActiveChannels)
      tops == {ch \in active : \A other \in active :
                 OutsideOf(buckets[other]) <= OutsideOf(buckets[ch])}
      Shown(parts, key) == parts[CHOOSE k \in DOMAIN parts : parts[k].key = key].percent
  IN  OutsideOf(TotalBuckets) > 0 => \A top \in tops :
        LET text == OfficeInsight(top)
        IN  /\ text.outside = Shown(pies.main, "buiten_kantooruren")
            /\ \A b \in DOMAIN text.detail :
                 LET off == 10 * text.detail[b] - Shown(pies.detail, b) IN off <= 5 /\ off >= -5
            /\ text.percent <= 100 /\ text.count * Len(ActiveChannels) >= OutsideOf(TotalBuckets)

\* The charts of every report say what its conversations are, and the texts beside
\* them what the charts show.
ChartsHonest ==
  Days > 0 => /\ VolumeHonest /\ HoursHonest /\ OfficeHonest
              /\ VolumeTextAgrees /\ TimingTextsAgree /\ OfficeTextAgrees
=============================================================================
