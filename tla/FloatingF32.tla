---------------------------- MODULE FloatingF32 ----------------------------
(* crates/simd/src/floating_f32.rs: the reductions over f32 slices, one      *)
(* definition per specialised version.  Sums over f32 are sums of integers   *)
(* here: rounding is not modelled.                                           *)
EXTENDS LaneKernels

\* Lanes of a scalable vector; the processor reports at least 256 bits.
VL == 8

reduce_sum_of_x_v4 == SumOf("x", {0}, <<Full(16, <<0>>), Masked(16, 0)>>)
reduce_sum_of_x_v3 ==
    SumOf("x", {0}, <<Full(8, <<0>>), Once(4, <<0>>), partial_load(4, <<0>>, "zero")>>)
reduce_sum_of_x_v2 == SumOf("x", {0}, <<Full(4, <<0>>), partial_load(4, <<0>>, "zero")>>)
reduce_sum_of_x_a2 == SumOf("x", {0}, <<Full(4, <<0>>), partial_load(4, <<0>>, "zero")>>)
reduce_sum_of_x ==
    Versions("real", {reduce_sum_of_x_v4,
                      reduce_sum_of_x_v3,
                      reduce_sum_of_x_v2,
                      reduce_sum_of_x_a2},
             SumOf("x", {0}, Scalar))

reduce_sum_of_abs_x_v4 == SumOf("abs", {0}, <<Full(16, <<0>>), Masked(16, 0)>>)
reduce_sum_of_abs_x_v3 ==
    SumOf("abs", {0}, <<Full(8, <<0>>), Once(4, <<0>>), partial_load(4, <<0>>, "zero")>>)
reduce_sum_of_abs_x_v2 == SumOf("abs", {0}, <<Full(4, <<0>>), partial_load(4, <<0>>, "zero")>>)
reduce_sum_of_abs_x_a2 == SumOf("abs", {0}, <<Full(4, <<0>>), partial_load(4, <<0>>, "zero")>>)
reduce_sum_of_abs_x ==
    Versions("real", {reduce_sum_of_abs_x_v4,
                      reduce_sum_of_abs_x_v3,
                      reduce_sum_of_abs_x_v2,
                      reduce_sum_of_abs_x_a2},
             SumOf("abs", {0}, Scalar))

reduce_sum_of_x2_v4 == SumOf("x2", {0}, <<Full(16, <<0>>), Masked(16, 0)>>)
reduce_sum_of_x2_v3 ==
    SumOf("x2", {0}, <<Full(8, <<0>>), Once(4, <<0>>), partial_load(4, <<0>>, "zero")>>)
reduce_sum_of_x2_v2_fma == SumOf("x2", {0}, <<Full(4, <<0>>), partial_load(4, <<0>>, "zero")>>)
reduce_sum_of_x2_a2 == SumOf("x2", {0}, <<Full(4, <<0>>), partial_load(4, <<0>>, "zero")>>)
reduce_sum_of_x2 ==
    Versions("real", {reduce_sum_of_x2_v4,
                      reduce_sum_of_x2_v3,
                      reduce_sum_of_x2_v2_fma,
                      reduce_sum_of_x2_a2},
             SumOf("x2", {0}, Scalar))

reduce_sum_of_xy_v4 == SumOf("xy", {0}, <<Full(16, <<0>>), Masked(16, 0)>>)
reduce_sum_of_xy_v3 ==
    SumOf("xy", {0}, <<Full(8, <<0>>), Once(4, <<0>>), partial_load(4, <<0>>, "zero")>>)
reduce_sum_of_xy_v2_fma == SumOf("xy", {0}, <<Full(4, <<0>>), partial_load(4, <<0>>, "zero")>>)
fp32_reduce_sum_of_xy_a3_256 == SumOf("xy", {0}, <<Full(VL, <<0>>), Masked(VL, 0)>>)
reduce_sum_of_xy_a3_256 == fp32_reduce_sum_of_xy_a3_256
reduce_sum_of_xy_a2 == SumOf("xy", {0}, <<Full(4, <<0>>), partial_load(4, <<0>>, "zero")>>)
reduce_sum_of_xy ==
    Versions("real", {reduce_sum_of_xy_v4,
                      reduce_sum_of_xy_v3,
                      reduce_sum_of_xy_v2_fma,
                      reduce_sum_of_xy_a3_256,
                      reduce_sum_of_xy_a2},
             SumOf("xy", {0}, Scalar))

reduce_sum_of_d2_v4 == SumOf("d2", {0}, <<Full(16, <<0>>), Masked(16, 0)>>)
reduce_sum_of_d2_v3 ==
    SumOf("d2", {0}, <<Full(8, <<0>>), Once(4, <<0>>), partial_load(4, <<0>>, "zero")>>)
reduce_sum_of_d2_v2_fma == SumOf("d2", {0}, <<Full(4, <<0>>), partial_load(4, <<0>>, "zero")>>)
fp32_reduce_sum_of_d2_a3_256 == SumOf("d2", {0}, <<Full(VL, <<0>>), Masked(VL, 0)>>)
reduce_sum_of_d2_a3_256 == fp32_reduce_sum_of_d2_a3_256
reduce_sum_of_d2_a2 == SumOf("d2", {0}, <<Full(4, <<0>>), partial_load(4, <<0>>, "zero")>>)
reduce_sum_of_d2 ==
    Versions("real", {reduce_sum_of_d2_v4,
                      reduce_sum_of_d2_v3,
                      reduce_sum_of_d2_v2_fma,
                      reduce_sum_of_d2_a3_256,
                      reduce_sum_of_d2_a2},
             SumOf("d2", {0}, Scalar))

reduce_min_max_of_x_v4 == MinMaxOf(Unbounded, <<Full(16, <<0>>), MaskedKeep(16, 0)>>)
reduce_min_max_of_x_v3 ==
    MinMaxOf(Unbounded, <<Full(8, <<0>>), Once(4, <<0>>), partial_load(4, <<0>>, "nan")>>)
reduce_min_max_of_x_v2 == MinMaxOf(Unbounded, <<Full(4, <<0>>), partial_load(4, <<0>>, "nan")>>)
reduce_min_max_of_x_a2 == MinMaxOf(Unbounded, <<Full(4, <<0>>), partial_load(4, <<0>>, "nan")>>)
reduce_min_max_of_x ==
    Versions("real", {reduce_min_max_of_x_v4, reduce_min_max_of_x_v3,
                      reduce_min_max_of_x_v2, reduce_min_max_of_x_a2},
             MinMaxOf(Unbounded, Scalar))

Kernels == {reduce_sum_of_x, reduce_sum_of_abs_x, reduce_sum_of_x2, reduce_min_max_of_x,
            reduce_sum_of_xy, reduce_sum_of_d2}
=============================================================================
