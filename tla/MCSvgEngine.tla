----------------------------- MODULE MCSvgEngine -----------------------------
(***************************************************************************)
(* Small instances of SvgEngine: shapes of every type and command, written *)
(* in every way that draws the same, five paints and the ways to state     *)
(* them, nine canvases of 127 mm, two of them in half millimetres, and one *)
(* without a size.                                                         *)
(***************************************************************************)
EXTENDS SvgEngine

Elem(type, attrs) == [type |-> type, attrs |-> attrs]
Absolute(op, args) == [op |-> op, rel |-> FALSE, args |-> args]
Rel(op, args) == [op |-> op, rel |-> TRUE, args |-> args]
Z == Rel("Z", <<>>)
Path(d) == Elem("path", [d |-> d])

\* Coordinates relative to the corner o, as absolute ones, in units of 1/f mm.
Put(o, f, xys) == [i \in DOMAIN xys |-> f * (xys[i] + o[2 - (i % 2)])]
By(f, numbers) == [i \in DOMAIN numbers |-> f * numbers[i]]

Square(o, f) ==
    LET x == f * o[1]
        y == f * o[2]
    IN <<Elem("rect", [x |-> x, y |-> y, width |-> 40 * f, height |-> 40 * f]),
         Elem("polygon", [points |-> Put(o, f, <<0, 0, 40, 0, 40, 40, 0, 40>>)]),
         Elem("polygon", [points |-> Put(o, f, <<40, 40, 0, 40, 0, 0, 40, 0, 7>>)]),
         Path(<<Absolute("M", Put(o, f, <<0, 0, 40, 0, 40, 40, 0, 40>>)), Z>>),
         Path(<<Rel("M", <<x, y>>), Rel("L", By(f, <<40, 0, 0, 40>>)), Rel("L", By(f, <<-40, 0>>)), Z>>),
         Path(<<Absolute("M", <<x, y>>), Absolute("H", <<x + 40 * f>>), Absolute("V", <<y + 40 * f>>),
                Absolute("H", <<x>>), Z>>),
         Path(<<Rel("M", Put(o, f, <<40, 0>>)), Rel("H", By(f, <<-40>>)), Rel("V", By(f, <<15, 25>>)),
                Rel("H", By(f, <<40>>)), Rel("V", By(f, <<-40>>)), Z>>)>>

Disc(o, f) ==
    LET x == f * (o[1] + 15)
        y == f * (o[2] + 15)
    IN <<Elem("circle", [cx |-> x, cy |-> y, r |-> 15 * f]),
         Elem("ellipse", [cx |-> x, cy |-> y, rx |-> 15 * f, ry |-> 15 * f]),
         Elem("rect", [x |-> f * o[1], y |-> f * o[2], width |-> 30 * f, height |-> 30 * f,
                       rx |-> 15 * f]),
         Elem("rect", [x |-> f * o[1], y |-> f * o[2], width |-> 30 * f, height |-> 30 * f,
                       ry |-> 15 * f])>>

Oval(o, f) ==
    <<Elem("ellipse", [cx |-> f * (o[1] + 21), cy |-> f * (o[2] + 5), rx |-> 21 * f, ry |-> 5 * f])>>

\* Two cubic curves, the second the first's smooth continuation.
Wave(o, f) ==
    <<Path(<<Absolute("M", Put(o, f, <<0, 0>>)),
             Absolute("C", Put(o, f, <<0, 30, 20, 30, 20, 10, 20, -10, 40, -10, 40, 20>>)), Z>>),
      Path(<<Rel("M", Put(o, f, <<0, 0>>)), Rel("C", By(f, <<0, 30, 20, 30, 20, 10>>)),
             Rel("C", By(f, <<0, -20, 20, -20, 20, 10>>)), Z>>),
      Path(<<Absolute("M", Put(o, f, <<0, 0>>)), Absolute("C", Put(o, f, <<0, 30, 20, 30, 20, 10>>)),
             Absolute("S", Put(o, f, <<40, -10, 40, 20>>)), Z>>),
      Path(<<Rel("M", Put(o, f, <<0, 0>>)), Rel("C", By(f, <<0, 30, 20, 30, 20, 10>>)),
             Rel("S", By(f, <<20, -20, 20, 10>>)), Z>>),
      Path(<<Absolute("M", Put(o, f, <<0, 0>>)), Absolute("C", Put(o, f, <<0, 30, 20, 30, 20, 10>>)),
             Rel("S", By(f, <<20, -20, 20, 10>>)), Absolute("L", Put(o, f, <<0, 0>>))>>)>>

\* Three quadratic curves, or the cubic ones they are.
Ripple(o, f) ==
    <<Path(<<Absolute("M", Put(o, f, <<0, 0>>)),
             Absolute("Q", Put(o, f, <<15, 18, 30, 0, 45, -18, 60, 0>>)),
             Absolute("Q", Put(o, f, <<75, 18, 75, 0>>))>>),
      Path(<<Rel("M", Put(o, f, <<0, 0>>)), Rel("Q", By(f, <<15, 18, 30, 0>>)),
             Rel("T", By(f, <<30, 0, 15, 0>>))>>),
      Path(<<Rel("M", Put(o, f, <<0, 0>>)), Rel("Q", By(f, <<15, 18, 30, 0>>)),
             Absolute("T", Put(o, f, <<60, 0>>)), Absolute("T", Put(o, f, <<75, 0>>))>>),
      Path(<<Absolute("M", Put(o, f, <<0, 0>>)),
             Absolute("C", Put(o, f, <<10, 12, 20, 12, 30, 0, 40, -12, 50, -12, 60, 0>>)),
             Rel("Q", By(f, <<15, 18, 15, 0>>))>>)>>

\* An S and a T after lines start from the current point.
Corner(o, f) ==
    <<Path(<<Absolute("M", Put(o, f, <<0, 0, 12, 0>>)), Absolute("S", Put(o, f, <<36, 24, 36, 0>>)),
             Absolute("H", <<f * (o[1] + 48)>>), Absolute("T", Put(o, f, <<60, 30>>))>>),
      Path(<<Absolute("M", Put(o, f, <<0, 0>>)), Rel("H", <<12 * f>>),
             Rel("C", By(f, <<0, 0, 24, 24, 24, 0>>)), Rel("L", <<12 * f, 0>>),
             Rel("L", By(f, <<12, 30>>))>>)>>

\* Not closed.
Zigzag(o, f) ==
    <<Path(<<Absolute("M", Put(o, f, <<0, 0, 30, 40, 60, 0>>))>>),
      Path(<<Rel("M", Put(o, f, <<0, 0>>)), Rel("L", By(f, <<30, 40, 30, -40>>))>>),
      Path(<<Rel("M", Put(o, f, <<0, 0>>) \o By(f, <<30, 40>>)), Absolute("L", Put(o, f, <<60, 0>>))>>),
      Elem("polyline", [points |-> Put(o, f, <<0, 0, 30, 40, 60, 0>>)])>>

Segment(o, f) ==
    <<Elem("line", [x1 |-> f * o[1], y1 |-> f * o[2], x2 |-> f * (o[1] + 30), y2 |-> f * (o[2] + 40)]),
      Elem("polyline", [points |-> Put(o, f, <<30, 40, 0, 0>>)]),
      Path(<<Absolute("M", Put(o, f, <<0, 0>>)), Rel("L", By(f, <<30, 40>>))>>)>>

\* After closing, the pen goes on from the start of the subpath.
Flag(o, f) ==
    <<Path(<<Absolute("M", Put(o, f, <<0, 0>>)), Rel("H", <<30 * f>>), Rel("V", <<40 * f>>), Z,
             Rel("L", By(f, <<0, -15>>))>>),
      Path(<<Absolute("M", Put(o, f, <<0, 0, 30, 0, 30, 40, 0, 0, 0, -15>>))>>),
      Path(<<Rel("M", Put(o, f, <<0, 0>>) \o By(f, <<30, 0, 0, 40>>)), Rel("L", By(f, <<-30, -40>>)), Z,
             Rel("V", <<-15 * f>>)>>)>>

Arch(o, f) ==
    <<Path(<<Absolute("M", Put(o, f, <<0, 0>>)),
             Absolute("A", <<25 * f, 25 * f, 0, 0, 1>> \o Put(o, f, <<30, 40>>))>>),
      Path(<<Rel("M", Put(o, f, <<0, 0>>)), Rel("A", By(f, <<25, 25, 0, 0, 1, 30, 40>>))>>)>>

Shape(name, o, f) ==
    CASE name = "square" -> Square(o, f)   [] name = "disc" -> Disc(o, f)
      [] name = "oval" -> Oval(o, f)       [] name = "wave" -> Wave(o, f)
      [] name = "ripple" -> Ripple(o, f)   [] name = "corner" -> Corner(o, f)
      [] name = "zigzag" -> Zigzag(o, f)   [] name = "segment" -> Segment(o, f)
      [] name = "flag" -> Flag(o, f)       [] name = "arch" -> Arch(o, f)

Open == {"zigzag", "segment", "arch"}
Closed == {"square", "disc", "oval", "wave", "ripple", "corner", "flag"}

Name(n) == [form |-> "name", name |-> n]
Short(r, g, b) == [form |-> "#RGB", rgb |-> <<r, g, b>>]
Long(r, g, b) == [form |-> "#RRGGBB", rgb |-> <<r, g, b>>]
Rgb(r, g, b) == [form |-> "rgb", rgb |-> <<r, g, b>>]

\* 25 is within the tolerance, 26 is not.  An attribute hides the style, as
\* classifier.go:117 has it and CSS does not.
Paint(name) ==
    CASE name = "cut" ->
            <<[stroke |-> Name("red")], [stroke |-> Short(15, 0, 1)], [stroke |-> Long(230, 25, 25)],
              [style |-> [stroke |-> Rgb(255, 0, 0), fill |-> Name("none")]],
              [stroke |-> Name("red"), fill |-> Name("white"), style |-> [stroke |-> Name("blue")]]>>
      [] name = "vector" ->
            <<[stroke |-> Name("blue")], [stroke |-> Short(0, 0, 15), fill |-> Rgb(0, 0, 26)],
              [style |-> [stroke |-> Long(25, 0, 230)]]>>
      [] name = "raster" ->
            <<[fill |-> Name("black")], [fill |-> Short(1, 1, 1), stroke |-> Name("green")],
              [style |-> [fill |-> Rgb(25, 25, 25)], stroke |-> Rgb(229, 0, 0)]>>
      [] name = "both" ->
            <<[stroke |-> Name("red"), fill |-> Name("black")],
              [style |-> [stroke |-> Long(255, 0, 0), fill |-> Short(0, 0, 0)]],
              [stroke |-> Rgb(240, 20, 20), style |-> [stroke |-> Name("none"), fill |-> Name("black")]]>>
      [] name = "nothing" ->
            <<[stroke |-> Name("green")], [stroke |-> Long(229, 0, 0)], [style |-> [fill |-> Rgb(0, 0, 26)]],
              [fill |-> Name("transparent"), stroke |-> Name("currentColor")]>>

Painted(elem, paint) == [elem EXCEPT !.attrs = @ @@ paint]

Size(tenths, unit) == [tenths |-> tenths, unit |-> unit]
Canvas(size, viewBox, f) == [size |-> size, viewBox |-> viewBox, f |-> f]
Canvases ==
    <<Canvas(Size(1270, "mm"), <<>>, 1),
      Canvas(Size(1270, "mm"), << <<0>>, <<0>>, <<127>>, <<127>> >>, 1),
      Canvas(Size(50, "in"), << <<0>>, <<0>>, <<254>>, <<254>> >>, 2),
      Canvas(Size(4800, "px"), <<>>, 1),
      Canvas(Size(0, ""), << <<0>>, <<0>>, <<127>>, <<127>> >>, 1),
      Canvas(Size(127, "cm"), << <<0>>, <<0>>, <<254>>, <<254>> >>, 2),
      Canvas(Size(1000, "%"), << <<0>>, <<0>>, <<127>>, <<127>> >>, 1),
      Canvas(Size(3600, "pt"), << <<0>>, <<0>>, <<63>> >>, 1),
      Canvas(Size(1270, "mm"), << <<0>>, <<0>>, <<63>>, <<>> >>, 1),
      Canvas(Size(0, ""), <<>>, 1)>>

File(canvas, elements) ==
    [width |-> canvas.size, height |-> canvas.size, viewBox |-> canvas.viewBox, elements |-> elements]

Corners == {<<10, 20>>, <<45, 31>>}

\* Written in the i-th way, painted in the j-th, on the n-th canvas.
Single(shape, paint, i, j, n, o) ==
    [drawing |-> <<shape, paint>>, at |-> o,
     file |-> File(Canvases[n], <<Painted(Shape(shape, o, Canvases[n].f)[i], Paint(paint)[j])>>)]

\* A square to cut, a disc to engrave and a line to leave alone, in some order,
\* among things that are not read.
Others == <<Elem("text", [x |-> 0]), Elem("path", [none \in {} |-> 0])>>
Several(order, i, o) ==
    LET parts == <<Painted(Square(o, 1)[i], Paint("both")[1]),
                   Painted(Disc(<<o[1] + 50, o[2]>>, 1)[1 + (i % 4)], Paint("raster")[1]),
                   Painted(Square(<<o[1] + 5, o[2] + 5>>, 1)[1 + (i % 7)], Paint("vector")[1]),
                   Painted(Segment(o, 1)[1 + (i % 3)], Paint("nothing")[1])>>
    IN [drawing |-> <<"several", "paints">>, at |-> o,
        file |-> File(Canvases[1], [n \in DOMAIN order |-> parts[order[n]]] \o Others)]

Drawings == (Closed \X {"cut", "vector", "raster", "both", "nothing"})
            \cup (Open \X {"cut", "vector", "nothing"})

Singles(shape, paint) ==
    LET ways == DOMAIN Shape(shape, <<0, 0>>, 1)
        paints == DOMAIN Paint(paint)
        canvases == DOMAIN Canvases
    IN {Single(shape, paint, i, 1, n, o) : i \in ways, n \in canvases, o \in Corners}
       \cup {Single(shape, paint, 1, j, 1, o) : j \in paints, o \in Corners}

Permutations4 == {p \in [1 .. 4 -> 1 .. 4] : \A i, j \in 1 .. 4 : i /= j => p[i] /= p[j]}

AllUploads ==
    UNION {Singles(d[1], d[2]) : d \in Drawings}
    \cup {Several(p, i, o) : p \in Permutations4, i \in 1 .. 7, o \in Corners}

Originals ==
    [d \in Drawings \cup {<<"several", "paints">>} |->
        IF d \in Drawings THEN Single(d[1], d[2], 1, 1, 1, <<10, 20>>)
        ELSE Several(<<1, 2, 3, 4>>, 1, <<10, 20>>)]
=============================================================================
