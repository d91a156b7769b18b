SPECIFICATION Spec
CONSTANTS
    None = None
INVARIANTS WireTrue SweepTrue VoicesTrue  TrendTrue DrawnTrue FacesTrue WatchersTrue
