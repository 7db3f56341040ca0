------------------------------ MODULE SvgEngine ------------------------------
(***************************************************************************)
(* What an uploaded drawing amounts to: its size, the length of its cuts   *)
(* and lines, the area of its engravings and the rectangle they fill       *)
(* (services/svgengine, models/svg_analysis.go).                           *)
(*                                                                         *)
(* A file is its root's width, height and viewBox and a sequence of        *)
(* elements, groups opened; an element has a type and attributes, a        *)
(* function of the names it gives.  Coordinates are whole millimetres, and *)
(* the length of a slanted segment is rounded down to one.  Areas are kept *)
(* doubled, so that they are whole.                                        *)
(***************************************************************************)
EXTENDS Integers, Sequences, FiniteSets, SequencesExt

CONSTANTS
    Uploads,     \* files with the drawing they show and where it lies in them
    Original,    \* of each drawing, the file the others are compared with
    Precision,   \* how flat a curve must be to count as a line, 0.1 mm
    Pi           \* a whole number in the place of pi

ASSUME UploadsAssumption ==
    /\ \A u \in Uploads :
          /\ Len(u.file.elements) \in Nat
          /\ DOMAIN u.file.elements = 1 .. Len(u.file.elements)
    /\ Original \in [{u.drawing : u \in Uploads} -> Uploads]
    /\ \A d \in DOMAIN Original : Original[d].drawing = d

ASSUME MeasuresAssumption ==
    /\ Precision \in Nat \ {0}
    /\ Pi \in 3 .. 4

VARIABLES
    svg,        \* the file posted
    analysis,   \* *models.SVGAnalysis, once AnalyzeSVG has answered
    reply,      \* what was answered
    before      \* the file posted before this one, with its analysis

svgVars == <<svg, analysis, reply, before>>

NoAnalysis == [status |-> "none"]

-----------------------------------------------------------------------------
\* parser.go

\* The numbers of a viewBox up to the first part that is none, a viewBox of
\* four parts only: what comes before such a part is kept.
GoodParts(viewBox) ==
    IF Len(viewBox) = 4
    THEN Cardinality({i \in 1 .. 4 : \A j \in 1 .. i : viewBox[j] /= <<>>})
    ELSE 0

ParseViewBox(viewBox) ==
    LET Part(i) == IF i <= GoodParts(viewBox) THEN viewBox[i][1] ELSE 0
    IN [width |-> Part(3), height |-> Part(4), valid |-> GoodParts(viewBox) = 4]

\* A length of the root, in tenths of its unit; "" is a length not given, or
\* not understood.
ParseLength(value, fallback) ==
    CASE value.unit = ""   -> fallback
      [] value.unit = "mm" -> value.tenths \div 10
      [] value.unit = "cm" -> value.tenths
      [] value.unit = "in" -> (value.tenths * 254) \div 100
      [] value.unit = "pt" -> (value.tenths * 254) \div 7200
      [] value.unit = "px" -> (value.tenths * 254) \div 9600
      [] value.unit = "%"  -> (fallback * value.tenths) \div 1000

ElementTypes ==
    <<"path", "rect", "circle", "ellipse", "line", "polyline", "polygon">>

\* By type, and within a type as they stand in the file: the n-th is the one
\* with n - 1 before it.
ExtractElements(elements) ==
    LET found == {i \in DOMAIN elements : /\ elements[i].type \in Range(ElementTypes)
                                          /\ DOMAIN elements[i].attrs /= {}}
        Rank(i) == CHOOSE r \in DOMAIN ElementTypes : ElementTypes[r] = elements[i].type
        Before(i, j) == Rank(i) < Rank(j) \/ (Rank(i) = Rank(j) /\ i < j)
        Nth(n) == CHOOSE i \in found : Cardinality({j \in found : Before(j, i)}) = n - 1
    IN [n \in 1 .. Cardinality(found) |-> elements[Nth(n)]]

Default(n, viewBox, side) ==
    IF n = 0 /\ viewBox.valid THEN side ELSE n

\* Parse of a file that is XML.
Parse(file) ==
    LET viewBox == ParseViewBox(file.viewBox)
        width == Default(ParseLength(file.width, viewBox.width), viewBox, viewBox.width)
        height == Default(ParseLength(file.height, viewBox.height), viewBox, viewBox.height)
        elements == ExtractElements(file.elements)
    IN [width |-> IF width = 0 THEN 100 ELSE width,
        height |-> IF height = 0 THEN 100 ELSE height,
        viewBox |-> viewBox,
        elements |-> elements,
        warnings |-> {w \in {"No width", "No height", "No drawable elements"} :
                        \/ w = "No width" /\ width = 0
                        \/ w = "No height" /\ height = 0
                        \/ w = "No drawable elements" /\ elements = <<>>}]

\* Millimetres of the document over units of the viewBox, on each axis.
GetScaleFactor(parsed) ==
    LET viewBox == parsed.viewBox
    IN IF ~viewBox.valid \/ viewBox.width = 0 \/ viewBox.height = 0
       THEN [x |-> <<1, 1>>, y |-> <<1, 1>>]
       ELSE [x |-> <<parsed.width, viewBox.width>>, y |-> <<parsed.height, viewBox.height>>]

-----------------------------------------------------------------------------
\* classifier.go

Red == <<255, 0, 0>>
Blue == <<0, 0, 255>>
Black == <<0, 0, 0>>
Tolerance == 25

NamedColors ==
    [red |-> Red, blue |-> Blue, black |-> Black, white |-> <<255, 255, 255>>,
     green |-> <<0, 128, 0>>, yellow |-> <<255, 255, 0>>, cyan |-> <<0, 255, 255>>,
     magenta |-> <<255, 0, 255>>]

\* A colour is [form |-> "name", name], or [form, rgb] with the digits of #RGB,
\* the bytes of #RRGGBB or the numbers of rgb().
NoColor == [form |-> "name", name |-> "none"]
HasColor(c) == c.form /= "name" \/ c.name \in DOMAIN NamedColors

ParseColor(c) ==
    CASE c.form = "name" -> NamedColors[c.name]
      [] c.form = "#RGB" -> [i \in 1 .. 3 |-> 17 * c.rgb[i]]
      [] OTHER -> c.rgb

\* The attribute of this name wins over the style; a colour not given is as none.
GetColorAttribute(attrs, name) ==
    IF name \in DOMAIN attrs THEN attrs[name]
    ELSE IF "style" \in DOMAIN attrs /\ name \in DOMAIN attrs.style
         THEN attrs.style[name]
         ELSE NoColor

IsColorMatch(color, target) ==
    \A i \in 1 .. 3 : color[i] - target[i] \in -Tolerance .. Tolerance

Matches(c, target) == HasColor(c) /\ IsColorMatch(ParseColor(c), target)

\* Mutant: what is filled black is engraved first of all.
PrimaryCategoryOfFill(cut, vector, raster) ==
    IF raster THEN "raster" ELSE IF cut THEN "cut" ELSE IF vector THEN "vector" ELSE "ignored"

PrimaryCategory(cut, vector, raster) ==
    IF cut THEN "cut" ELSE IF vector THEN "vector" ELSE IF raster THEN "raster" ELSE "ignored"

Classify(elem) ==
    LET stroke == GetColorAttribute(elem.attrs, "stroke")
        fill == GetColorAttribute(elem.attrs, "fill")
        cut == Matches(stroke, Red)
        vector == ~cut /\ Matches(stroke, Blue)
        raster == Matches(fill, Black)
    IN [cut |-> cut, vector |-> vector, raster |-> raster,
        category |-> PrimaryCategory(cut, vector, raster)]

-----------------------------------------------------------------------------
\* geometry.go

Scale(n, ratio) == (n * ratio[1]) \div ratio[2]

\* The integer root, rounded down.
RootOf(n, limit) == CHOOSE r \in 0 .. limit : r * r <= n /\ n < (r + 1) * (r + 1)

Abs(n) == IF n < 0 THEN -n ELSE n
Squared(p, q) == (q[1] - p[1]) * (q[1] - p[1]) + (q[2] - p[2]) * (q[2] - p[2])
Distance(p, q) == RootOf(Squared(p, q), Abs(q[1] - p[1]) + Abs(q[2] - p[2]))
Midpoint(p, q) == <<(p[1] + q[1]) \div 2, (p[2] + q[2]) \div 2>>
Plus(p, q) == <<p[1] + q[1], p[2] + q[2]>>
Reflected(p, center) == <<2 * center[1] - p[1], 2 * center[2] - p[2]>>

\* p is closer than Precision to the segment from a to b.
Near(p, a, b) ==
    LET dx == b[1] - a[1]
        dy == b[2] - a[2]
        along == (p[1] - a[1]) * dx + (p[2] - a[2]) * dy
        across == (p[1] - a[1]) * dy - (p[2] - a[2]) * dx
        square == dx * dx + dy * dy
        limit == Precision * Precision
    IN IF along <= 0 THEN Squared(p, a) < limit
       ELSE IF along >= square THEN Squared(p, b) < limit
       ELSE across * across < limit * square

Plane == Int \X Int

\* The points of a cubic curve, its ends included.
SubdivideCubic[p0 \in Plane, p1 \in Plane, p2 \in Plane, p3 \in Plane] ==
    IF Near(p1, p0, p3) /\ Near(p2, p0, p3)
    THEN <<p0, p3>>
    ELSE LET p01 == Midpoint(p0, p1)
             p12 == Midpoint(p1, p2)
             p23 == Midpoint(p2, p3)
             p012 == Midpoint(p01, p12)
             p123 == Midpoint(p12, p23)
             p0123 == Midpoint(p012, p123)
         IN SubdivideCubic[p0, p01, p012, p0123]
            \o Tail(SubdivideCubic[p0123, p123, p23, p3])

\* Two thirds of the way from the end to the control point.
Towards(p, control) ==
    <<p[1] + (2 * (control[1] - p[1])) \div 3, p[2] + (2 * (control[2] - p[2])) \div 3>>

QuadraticBezier(p0, p1, p2) ==
    SubdivideCubic[p0, Towards(p0, p1), Towards(p2, p1), p2]

\* Twice the area.
ShoelaceArea(points) ==
    IF Len(points) < 3 THEN 0
    ELSE LET After(i) == IF i = Len(points) THEN 1 ELSE i + 1
             Cross(i) == points[i][1] * points[After(i)][2] - points[After(i)][1] * points[i][2]
         IN Abs(FoldLeft(LAMBDA sum, i : sum + Cross(i), 0, [i \in DOMAIN points |-> i]))

LengthAlong(points) ==
    FoldLeft(LAMBDA sum, i : sum + Distance(points[i], points[i + 1]), 0,
             [i \in 1 .. Len(points) - 1 |-> i])

Box(minX, minY, maxX, maxY) == [minX |-> minX, minY |-> minY, maxX |-> maxX, maxY |-> maxY]

BoundsOf(points) ==
    LET xs == {points[i][1] : i \in DOMAIN points}
        ys == {points[i][2] : i \in DOMAIN points}
    IN Box(Min(xs), Min(ys), Max(xs), Max(ys))

Geometry(length, area, bounds) == [length |-> length, area |-> area, bounds |-> bounds]
NoGeometry == Geometry(0, 0, Box(0, 0, 0, 0))

\* parseFloat: what is not given is zero.
Num(attrs, name) == IF name \in DOMAIN attrs THEN attrs[name] ELSE 0
List(attrs, name) == IF name \in DOMAIN attrs THEN attrs[name] ELSE <<>>

CalculateRect(attrs, k) ==
    LET x == Scale(Num(attrs, "x"), k.x)
        y == Scale(Num(attrs, "y"), k.y)
        w == Scale(Num(attrs, "width"), k.x)
        h == Scale(Num(attrs, "height"), k.y)
        givenX == Scale(Num(attrs, "rx"), k.x)
        givenY == Scale(Num(attrs, "ry"), k.y)
        rx == IF givenX = 0 THEN givenY ELSE givenX
        ry == IF givenY = 0 THEN givenX ELSE givenY
        round == givenX > 0 \/ givenY > 0
    IN Geometry(IF round THEN 2 * (w - 2 * rx) + 2 * (h - 2 * ry) + Pi * (rx + ry)
                         ELSE 2 * (w + h),
                IF round THEN 2 * w * h - 2 * (4 - Pi) * rx * ry ELSE 2 * w * h,
                Box(x, y, x + w, y + h))

Around(cx, cy, rx, ry) == Box(cx - rx, cy - ry, cx + rx, cy + ry)

\* The radius is scaled by the mean of the two axes.
CalculateCircle(attrs, k) ==
    LET r == Scale(Num(attrs, "r"),
                   <<k.x[1] * k.y[2] + k.y[1] * k.x[2], 2 * k.x[2] * k.y[2]>>)
    IN Geometry(2 * Pi * r, 2 * Pi * r * r,
                Around(Scale(Num(attrs, "cx"), k.x), Scale(Num(attrs, "cy"), k.y), r, r))

\* Ramanujan's perimeter, pi (rx + ry) (1 + 3h / (10 + sqrt(4 - 3h))) with
\* h = ((rx - ry) / (rx + ry))^2.  The radii are not both zero.
CalculateEllipse(attrs, k) ==
    LET rx == Scale(Num(attrs, "rx"), k.x)
        ry == Scale(Num(attrs, "ry"), k.y)
        s == rx + ry
        d == 3 * (rx - ry) * (rx - ry)
    IN Geometry(Pi * (s + d \div (10 * s + RootOf(4 * s * s - d, 2 * s))),
                2 * Pi * rx * ry,
                Around(Scale(Num(attrs, "cx"), k.x), Scale(Num(attrs, "cy"), k.y), rx, ry))

CalculateLine(attrs, k) ==
    LET from == <<Scale(Num(attrs, "x1"), k.x), Scale(Num(attrs, "y1"), k.y)>>
        to == <<Scale(Num(attrs, "x2"), k.x), Scale(Num(attrs, "y2"), k.y)>>
    IN Geometry(Distance(from, to), 0, BoundsOf(<<from, to>>))

\* The arguments of a command in groups of so many; what is left over is dropped.
Groups(args, size) ==
    [i \in 1 .. Len(args) \div size |-> SubSeq(args, size * (i - 1) + 1, size * i)]

Points(numbers, k) ==
    LET pairs == Groups(numbers, 2)
    IN [i \in DOMAIN pairs |-> <<Scale(pairs[i][1], k.x), Scale(pairs[i][2], k.y)>>]

CalculatePolyline(attrs, k, closed) ==
    LET points == Points(List(attrs, "points"), k)
    IN IF Len(points) < 2 THEN NoGeometry
       ELSE Geometry(LengthAlong(points)
                       + (IF closed /\ Len(points) > 2 THEN Distance(Last(points), points[1]) ELSE 0),
                     IF closed THEN ShoelaceArea(points) ELSE 0,
                     BoundsOf(points))

\* Path data, a command at a time: [op, rel, args] with op a capital.  The pen
\* keeps what the loop of pathToPoints does.
Pen == [points |-> <<>>, current |-> <<0, 0>>, start |-> <<0, 0>>,
        lastControl |-> <<0, 0>>, lastCmd |-> "none"]

\* The point of arguments i and i + 1, from the current point if relative.
PointAt(pen, cmd, args, i, k) ==
    LET p == <<Scale(args[i], k.x), Scale(args[i + 1], k.y)>>
    IN IF cmd.rel THEN Plus(pen.current, p) ELSE p

DrawTo(pen, p) == [pen EXCEPT !.points = Append(@, p), !.current = p]

\* The pairs after the first draw lines; a first m starts from 0, 0.
MoveTo(pen, cmd, k) ==
    LET pairs == Groups(cmd.args, 2)
        moved == FoldLeft(LAMBDA at, pair : DrawTo(at, PointAt(at, cmd, pair, 1, k)), pen, pairs)
    IN IF pairs = <<>> THEN pen
       ELSE [moved EXCEPT !.start = PointAt(pen, cmd, pairs[1], 1, k)]

LineTo(pen, cmd, k) ==
    FoldLeft(LAMBDA at, pair : DrawTo(at, PointAt(at, cmd, pair, 1, k)), pen, Groups(cmd.args, 2))

HorizontalTo(pen, cmd, k) ==
    FoldLeft(LAMBDA at, x :
                DrawTo(at, <<Scale(x, k.x) + (IF cmd.rel THEN at.current[1] ELSE 0), at.current[2]>>),
             pen, cmd.args)

\* Mutant: relative heights are counted from the start of the subpath.
VerticalFromStart(pen, cmd, k) ==
    FoldLeft(LAMBDA at, y :
                DrawTo(at, <<at.current[1], Scale(y, k.y) + (IF cmd.rel THEN at.start[2] ELSE 0)>>),
             pen, cmd.args)

VerticalTo(pen, cmd, k) ==
    FoldLeft(LAMBDA at, y :
                DrawTo(at, <<at.current[1], Scale(y, k.y) + (IF cmd.rel THEN at.current[2] ELSE 0)>>),
             pen, cmd.args)

CurveTo(pen, curve, end, control) ==
    [pen EXCEPT !.points = @ \o Tail(curve), !.current = end, !.lastControl = control]

CubicTo(pen, cmd, k) ==
    LET Draw(at, group) ==
            LET cp1 == PointAt(at, cmd, group, 1, k)
                cp2 == PointAt(at, cmd, group, 3, k)
                end == PointAt(at, cmd, group, 5, k)
            IN CurveTo(at, SubdivideCubic[at.current, cp1, cp2, end], end, cp2)
    IN FoldLeft(Draw, pen, Groups(cmd.args, 6))

\* Whether the last control point is reflected depends on the command before
\* this one, for every group of arguments of this one.
SmoothCubicTo(pen, cmd, k) ==
    LET Draw(at, group) ==
            LET cp1 == IF pen.lastCmd \in {"C", "S"} THEN Reflected(at.lastControl, at.current)
                       ELSE at.current
                cp2 == PointAt(at, cmd, group, 1, k)
                end == PointAt(at, cmd, group, 3, k)
            IN CurveTo(at, SubdivideCubic[at.current, cp1, cp2, end], end, cp2)
    IN FoldLeft(Draw, pen, Groups(cmd.args, 4))

QuadraticTo(pen, cmd, k) ==
    LET Draw(at, group) ==
            LET cp == PointAt(at, cmd, group, 1, k)
                end == PointAt(at, cmd, group, 3, k)
            IN CurveTo(at, QuadraticBezier(at.current, cp, end), end, cp)
    IN FoldLeft(Draw, pen, Groups(cmd.args, 4))

SmoothQuadraticTo(pen, cmd, k) ==
    LET Draw(at, group) ==
            LET cp == IF pen.lastCmd \in {"Q", "T"} THEN Reflected(at.lastControl, at.current)
                      ELSE at.current
                end == PointAt(at, cmd, group, 1, k)
            IN CurveTo(at, QuadraticBezier(at.current, cp, end), end, cp)
    IN FoldLeft(Draw, pen, Groups(cmd.args, 2))

\* An arc is drawn as its chord.
ArcTo(pen, cmd, k) ==
    FoldLeft(LAMBDA at, group : DrawTo(at, PointAt(at, cmd, group, 6, k)), pen, Groups(cmd.args, 7))

\* Closing draws back to the start, unless the pen is there, and goes on from it.
ClosePath(pen) ==
    [pen EXCEPT !.points = IF @ /= <<>> /\ pen.current /= pen.start
                           THEN Append(@, pen.start) ELSE @,
                !.current = pen.start]

DrawCommand(pen, cmd, k) ==
    CASE cmd.op = "M" -> MoveTo(pen, cmd, k)
      [] cmd.op = "L" -> LineTo(pen, cmd, k)
      [] cmd.op = "H" -> HorizontalTo(pen, cmd, k)
      [] cmd.op = "V" -> VerticalTo(pen, cmd, k)
      [] cmd.op = "C" -> CubicTo(pen, cmd, k)
      [] cmd.op = "S" -> SmoothCubicTo(pen, cmd, k)
      [] cmd.op = "Q" -> QuadraticTo(pen, cmd, k)
      [] cmd.op = "T" -> SmoothQuadraticTo(pen, cmd, k)
      [] cmd.op = "A" -> ArcTo(pen, cmd, k)
      [] cmd.op = "Z" -> ClosePath(pen)

PathToPoints(d, k) ==
    FoldLeft(LAMBDA pen, cmd : [DrawCommand(pen, cmd, k) EXCEPT !.lastCmd = cmd.op], Pen, d).points

\* Every path has the area its points enclose, closed or not.
CalculatePath(attrs, k) ==
    LET points == PathToPoints(List(attrs, "d"), k)
    IN IF Len(points) < 2 THEN NoGeometry
       ELSE Geometry(LengthAlong(points), ShoelaceArea(points), BoundsOf(points))

CalculateElement(elem, k) ==
    CASE elem.type = "rect"     -> CalculateRect(elem.attrs, k)
      [] elem.type = "circle"   -> CalculateCircle(elem.attrs, k)
      [] elem.type = "ellipse"  -> CalculateEllipse(elem.attrs, k)
      [] elem.type = "line"     -> CalculateLine(elem.attrs, k)
      [] elem.type = "polyline" -> CalculatePolyline(elem.attrs, k, FALSE)
      [] elem.type = "polygon"  -> CalculatePolyline(elem.attrs, k, TRUE)
      [] elem.type = "path"     -> CalculatePath(elem.attrs, k)

-----------------------------------------------------------------------------
\* analyzer.go

Start(parsed) ==
    [status |-> "analyzed", width |-> parsed.width, height |-> parsed.height,
     warnings |-> parsed.warnings, cutLength |-> 0, vectorLength |-> 0, rasterArea |-> 0,
     cutCount |-> 0, vectorCount |-> 0, rasterCount |-> 0, ignoredCount |-> 0,
     bounds |-> Box(0, 0, 0, 0), boundsInit |-> FALSE, elements |-> <<>>]

HasExtent(box) == box.maxX > box.minX \/ box.maxY > box.minY

Union(a, b) ==
    Box(Min({a.minX, b.minX}), Min({a.minY, b.minY}), Max({a.maxX, b.maxX}), Max({a.maxY, b.maxY}))

\* What does not apply adds nothing.
If(condition, n) == IF condition THEN n ELSE 0

\* The totals with one more element; it counts in each of its operations.
Aggregated(result, class, geom) ==
    [result EXCEPT
       !.elements = Append(@, [class |-> class, geom |-> geom]),
       !.cutLength = @ + If(class.cut, geom.length),
       !.cutCount = @ + If(class.cut, 1),
       !.vectorLength = @ + If(class.vector, geom.length),
       !.vectorCount = @ + If(class.vector, 1),
       !.rasterArea = @ + If(class.raster, geom.area),
       !.rasterCount = @ + If(class.raster, 1),
       !.ignoredCount = @ + If(~(class.cut \/ class.vector \/ class.raster), 1)]

\* Mutant: the rectangle grows from the corner of the canvas, not from the
\* first element.
ProcessElementUninitialised(result, elem, k) ==
    LET geom == CalculateElement(elem, k)
        class == Classify(elem)
    IN [Aggregated(result, class, geom) EXCEPT !.bounds = Union(@, geom.bounds)]

\* The rectangle starts with the first element that has an extent.
ProcessElement(result, elem, k) ==
    LET geom == CalculateElement(elem, k)
        class == Classify(elem)
    IN [Aggregated(result, class, geom) EXCEPT
          !.bounds = IF ~HasExtent(geom.bounds) THEN @
                     ELSE IF result.boundsInit THEN Union(@, geom.bounds) ELSE geom.bounds,
          !.boundsInit = @ \/ HasExtent(geom.bounds)]

NothingUsable(result) ==
    result.cutCount = 0 /\ result.vectorCount = 0 /\ result.rasterCount = 0

Analyze(file) ==
    LET parsed == Parse(file)
        k == GetScaleFactor(parsed)
        result == FoldLeft(LAMBDA sofar, elem : ProcessElement(sofar, elem, k),
                           Start(parsed), parsed.elements)
    IN [result EXCEPT !.warnings = IF NothingUsable(result)
                                   THEN @ \cup {"No elements with standard colors"} ELSE @]

\* What is stored: of an element's operations the row keeps the first only.
ToModel(result) ==
    [status |-> result.status, width |-> result.width, height |-> result.height,
     warnings |-> result.warnings, cutLength |-> result.cutLength,
     vectorLength |-> result.vectorLength, rasterArea |-> result.rasterArea,
     cutCount |-> result.cutCount, vectorCount |-> result.vectorCount,
     rasterCount |-> result.rasterCount, ignoredCount |-> result.ignoredCount,
     bounds |-> result.bounds,
     elements |-> [i \in DOMAIN result.elements |->
                     [category |-> result.elements[i].class.category,
                      geom |-> result.elements[i].geom]]]

\* models/svg_analysis.go

\* Of the rectangle of the drawing, what lies on the canvas; the canvas, if
\* that is nothing; the rectangle, if there is no canvas.
TotalArea(a) ==
    LET minX == Max({a.bounds.minX, 0})
        minY == Max({a.bounds.minY, 0})
        maxX == Min({a.bounds.maxX, a.width})
        maxY == Min({a.bounds.maxY, a.height})
    IN IF a.width <= 0 \/ a.height <= 0
       THEN (a.bounds.maxX - a.bounds.minX) * (a.bounds.maxY - a.bounds.minY)
       ELSE IF maxX > minX /\ maxY > minY
            THEN (maxX - minX) * (maxY - minY)
            ELSE a.width * a.height

HasAnyWork(a) == a.cutLength > 0 \/ a.vectorLength > 0 \/ a.rasterArea > 0

-----------------------------------------------------------------------------
\* handlers/quote/handler.go

SvgInit ==
    /\ svg \in Uploads
    /\ analysis = NoAnalysis
    /\ reply = "none"
    /\ before = NoAnalysis

\* What AnalyzeSVG does with a file it does not know: a drawing without work
\* is refused, any other saved.
AnalyzeUpload ==
    /\ reply = "none"
    /\ analysis' = ToModel(Analyze(svg.file))
    /\ reply' = IF HasAnyWork(analysis') THEN "saved" ELSE "EMPTY_SVG"
    /\ UNCHANGED <<svg, before>>

\* The customer posts another file of the same drawing.
PostAgain ==
    /\ reply /= "none"
    /\ before = NoAnalysis
    /\ before' = [status |-> "before", svg |-> svg, analysis |-> analysis, reply |-> reply]
    /\ svg' = Original[svg.drawing]
    /\ analysis' = NoAnalysis
    /\ reply' = "none"

SvgNext == AnalyzeUpload \/ PostAgain

SvgSpec == SvgInit /\ [][SvgNext]_svgVars

-----------------------------------------------------------------------------
\* Properties, of a drawing and of another file of it.

Compared == before /= NoAnalysis /\ reply /= "none"

Measures(a) ==
    <<a.cutLength, a.vectorLength, a.rasterArea,
      a.cutCount, a.vectorCount, a.rasterCount, a.ignoredCount>>

\* What is cut, drawn and engraved, and so the price, does not depend on how a
\* drawing is written down: absolute or relative commands, a shape or a path,
\* attributes or style, millimetres or pixels, in one order or another, here
\* or there on the canvas (parser.go:62, geometry.go:254, classifier.go:56).
SameMeasures ==
    Compared => /\ Measures(analysis) = Measures(before.analysis)
                /\ reply = before.reply

OnCanvas(a) ==
    a.bounds.minX >= 0 /\ a.bounds.minY >= 0 /\ a.bounds.maxX <= a.width /\ a.bounds.maxY <= a.height

\* The rectangle moves with the drawing, and the area charged for it stays the
\* same as long as the drawing is on its canvas (analyzer.go:163,
\* svg_analysis.go:57).
ExtentFollows ==
    Compared =>
        LET now == analysis.bounds
            then == before.analysis.bounds
            dx == svg.at[1] - before.svg.at[1]
            dy == svg.at[2] - before.svg.at[2]
        IN /\ now = Box(then.minX + dx, then.minY + dy, then.maxX + dx, then.maxY + dy)
           /\ (OnCanvas(analysis) /\ OnCanvas(before.analysis)
                 => TotalArea(analysis) = TotalArea(before.analysis))

Sum(numbers) == FoldLeft(LAMBDA sum, n : sum + n, 0, numbers)

\* The sum of the rows of a category: of their lengths, of their areas, or one
\* for each.
Of(rows, category, Measure(_)) ==
    Sum([i \in DOMAIN rows |-> If(rows[i].category = category, Measure(rows[i]))])

Length(row) == row.geom.length
Area(row) == row.geom.area
Each(row) == 1

\* The rows of the elements, which have one category each, add up to the totals
\* of the analysis, except that of an element that is also cut or drawn the
\* engraving shows in the totals only (analyzer.go:141-161, 231-249).  Areas
\* are compared when no element measures less than nothing: a rectangle with a
\* negative side does, and geometry.go:69 does not refuse it.
RowsTellTotals ==
    reply /= "none" =>
        LET rows == analysis.elements
        IN /\ Of(rows, "cut", Length) = analysis.cutLength
           /\ Of(rows, "vector", Length) = analysis.vectorLength
           /\ Of(rows, "cut", Each) = analysis.cutCount
           /\ Of(rows, "vector", Each) = analysis.vectorCount
           /\ Of(rows, "ignored", Each) = analysis.ignoredCount
           /\ Of(rows, "raster", Each) <= analysis.rasterCount
           /\ ((\A i \in DOMAIN rows : rows[i].geom.area \in Nat)
                 => Of(rows, "raster", Area) <= analysis.rasterArea)
=============================================================================
